----------------------------- MODULE SimpleO3LLC -----------------------------
(***************************************************************************)
(* The last-level cache of the SimpleO3 frontend                            *)
(* (frontend/impl/processor/simpleO3/llc.cpp): sets kept in LRU order,      *)
(* miss-status registers, and the two lists of accesses that wait for the   *)
(* latency of the cache.  The clock is abstracted to the number of cycles   *)
(* an entry of those lists still waits.                                     *)
(***************************************************************************)
EXTENDS Integers, Sequences, FiniteSets, SequencesExt

CONSTANTS
  Core,                \* the cores that share the cache
  Addr,                \* the addresses their traces name
  m_linesize_bytes,
  m_set_size,          \* number of sets, a power of two
  m_associativity,
  m_num_mshrs,
  m_latency

LLCAssumption ==
  /\ Addr \subseteq Nat
  /\ {m_linesize_bytes, m_set_size, m_associativity, m_num_mshrs, m_latency}
       \subseteq Nat \ {0}

VARIABLES
  m_cache_sets,        \* per set, its lines, least recently used first
  m_mshrs,             \* the addresses being fetched, one per line
  m_receive_requests,  \* per address, the set of requests its reply completes
  m_miss_list,         \* requests for the memory, each with the cycles it waits
  m_hit_list           \* hits, each with the cycles it waits

llc_vars == <<m_cache_sets, m_mshrs, m_receive_requests, m_miss_list, m_hit_list>>

Sets == 0 .. m_set_size - 1

get_index(a) == (a \div m_linesize_bytes) % m_set_size

get_tag(a) == a \div (m_linesize_bytes * m_set_size)

align(a) == a - (a % m_linesize_bytes)

Aligned == {align(a) : a \in Addr}

(* source is the core; a write-back of the cache has none, and no callback. *)
NoCore == -1

Request == [addr : Addr, type : {"Read", "Write"}, source : Core \cup {NoCore}]

Line == [addr : Addr, tag : Nat, dirty : BOOLEAN, ready : BOOLEAN]

Delayed(q) == [wait |-> m_latency, req |-> q]

LLCInit ==
  /\ m_cache_sets = [i \in Sets |-> <<>>]
  /\ m_mshrs = {}
  /\ m_receive_requests = [a \in Addr |-> {}]
  /\ m_miss_list = <<>>
  /\ m_hit_list = <<>>

------------------------------------------------------------------------------
(* The lookups of send().                                                   *)

get_set(a) == m_cache_sets[get_index(a)]

WithTag(s, a) == {i \in DOMAIN s : s[i].tag = get_tag(a)}

(* A line hits only once its data is there.                                 *)
check_set_hit(s, a) == {i \in WithTag(s, a) : s[i].ready}

check_mshr_hit(a) == {x \in m_mshrs : align(x) = align(a)}

Ready(s) == {i \in DOMAIN s : s[i].ready}

LineAvailable(s) == Len(s) < m_associativity \/ Ready(s) # {}

(* send() refuses an access that needs a register or a line none is free.   *)
Accepts(a) ==
  \/ check_set_hit(get_set(a), a) # {}
  \/ check_mshr_hit(a) # {}
  \/ Cardinality(m_mshrs) # m_num_mshrs /\ LineAvailable(get_set(a))

------------------------------------------------------------------------------
(* send(): a hit, an access to a line being fetched, or a miss.             *)

Touched(line, q) ==
  [line EXCEPT !.addr = q.addr, !.dirty = @ \/ q.type = "Write"]

SendHit(q) ==
  LET s == get_set(q.addr) IN
  \E i \in check_set_hit(s, q.addr) :
     /\ m_cache_sets' = [m_cache_sets EXCEPT ![get_index(q.addr)] =
                           Append(RemoveAt(s, i), Touched(s[i], q))]
     /\ m_hit_list' = Append(m_hit_list, Delayed(q))
     /\ UNCHANGED <<m_mshrs, m_receive_requests, m_miss_list>>

AsRead(q) == [q EXCEPT !.type = "Read"]

(* The line of a register is the one with the tag of its address.           *)
SendMSHRHit(q) ==
  LET s == get_set(q.addr) IN
  /\ check_set_hit(s, q.addr) = {}
  /\ \E x \in check_mshr_hit(q.addr) :
       m_receive_requests' = [m_receive_requests EXCEPT ![x] = @ \cup {AsRead(q)}]
  /\ m_cache_sets' = [m_cache_sets EXCEPT ![get_index(q.addr)] =
       [i \in DOMAIN s |->
          IF i \in WithTag(s, q.addr)
            THEN [s[i] EXCEPT !.dirty = @ \/ q.type = "Write"] ELSE s[i]]]
  /\ UNCHANGED <<m_mshrs, m_miss_list, m_hit_list>>

need_eviction(s) == Len(s) >= m_associativity

victim(s) == Min(Ready(s))

(* A dirty line is written back; the request has no callback.               *)
evict_line(line) ==
  IF line.dirty
    THEN <<Delayed([addr |-> line.addr, type |-> "Write", source |-> NoCore])>>
    ELSE <<>>

NewLine(q) ==
  [addr |-> q.addr, tag |-> get_tag(q.addr), dirty |-> q.type = "Write", ready |-> FALSE]

allocate_line(s, q) ==
  Append(IF need_eviction(s) THEN RemoveAt(s, victim(s)) ELSE s, NewLine(q))

SendMiss(q) ==
  LET s == get_set(q.addr) IN
  /\ check_set_hit(s, q.addr) = {} /\ check_mshr_hit(q.addr) = {}
  /\ m_cache_sets' = [m_cache_sets EXCEPT ![get_index(q.addr)] = allocate_line(s, q)]
  /\ m_mshrs' = m_mshrs \cup {q.addr}
  /\ m_receive_requests' = [m_receive_requests EXCEPT ![q.addr] = {AsRead(q)}]
  /\ m_miss_list' = m_miss_list
       \o (IF need_eviction(s) THEN evict_line(s[victim(s)]) ELSE <<>>)
       \o <<Delayed(AsRead(q))>>
  /\ UNCHANGED m_hit_list

send(q) == Accepts(q.addr) /\ (SendHit(q) \/ SendMSHRHit(q) \/ SendMiss(q))

------------------------------------------------------------------------------
(* tick() and receive().                                                    *)

(* A cycle brings every entry of a list closer to its turn.                 *)
Aged(list) ==
  [i \in DOMAIN list |->
     [list[i] EXCEPT !.wait = IF @ = 0 THEN 0 ELSE @ - 1]]

Matured(list) == {i \in DOMAIN list : list[i].wait = 0}

(* Positions of a list in its order: the n-th has n up to it.               *)
InOrder(S) ==
  [n \in 1 .. Cardinality(S) |-> CHOOSE i \in S : Cardinality({j \in S : j <= i}) = n]

Kept(list, keep) == [n \in 1 .. Cardinality(keep) |-> list[InOrder(keep)[n]]]

(* Mutant: a miss the memory refuses is erased as well.                     *)
LeftDrops(list, gone) == Kept(list, DOMAIN list \ Matured(list))

Left(list, gone) == Kept(list, DOMAIN list \ gone)

(* Mutant: the line becomes ready and its register stays in use.            *)
ReceiveKeepsRegister(a) ==
  /\ m_cache_sets' = [m_cache_sets EXCEPT ![get_index(a)] =
       [i \in DOMAIN @ |->
          IF i \in WithTag(@, a) THEN [@[i] EXCEPT !.ready = TRUE] ELSE @[i]]]
  /\ UNCHANGED m_mshrs

(* A reply, or the callback of a hit, frees the register of its line, and   *)
(* marks the line ready.                                                    *)
receive(a) ==
  /\ m_mshrs' = m_mshrs \ check_mshr_hit(a)
  /\ m_cache_sets' = IF check_mshr_hit(a) = {} THEN m_cache_sets ELSE
       [m_cache_sets EXCEPT ![get_index(a)] =
          [i \in DOMAIN @ |->
             IF i \in WithTag(@, a) THEN [@[i] EXCEPT !.ready = TRUE] ELSE @[i]]]

==============================================================================
