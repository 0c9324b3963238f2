------------------------------- MODULE SimpleO3 -------------------------------
(***************************************************************************)
(* The SimpleO3 frontend: trace-driven cores with an instruction window     *)
(* (frontend/impl/processor/simpleO3/core.cpp), the shared cache, and the   *)
(* main loop that ticks the frontend and then the memory.  The memory is    *)
(* external: it holds a bounded number of requests, takes any of those that *)
(* it is offered and has room for, and answers the reads in any order.      *)
(***************************************************************************)
EXTENDS SimpleO3LLC

CONSTANTS
  Traces,                \* the traces of a run: per core, a sequence of instructions
  m_ipc,                 \* instructions inserted and retired per cycle
  m_depth,               \* instructions the window holds
  m_num_expected_insts,
  NumCores,
  MemCapacity,           \* requests the memory holds
  MaxBacklog             \* bound: misses that may wait while the memory serves nothing

NoAddr == -1

Inst == [bubble_count : Nat, load_addr : Addr \cup {NoAddr}, store_addr : Addr \cup {NoAddr}]

SimpleO3Assumption ==
  /\ {m_ipc, m_depth, NumCores, MemCapacity} \subseteq Nat \ {0}
  /\ m_num_expected_insts \in Nat /\ MaxBacklog \in Nat
  /\ Core = 0 .. NumCores - 1
  /\ Traces \subseteq [Core -> Seq(Inst) \ {<<>>}]

VARIABLES
  m_trace,       \* the trace of every core
  trace_idx,     \* the next instruction of every core's trace (m_curr_trace_idx)
  fetched,       \* what is left of the current instruction of every core
  m_window,      \* the instructions of every core in flight, oldest first
  retired,       \* s_insts_retired, no further than m_num_expected_insts
  turn,          \* whose part of the cycle is next
  memory,        \* requests the memory has accepted
  unsaved        \* history: lines with a store the memory has not been told of

core_vars == <<m_trace, trace_idx, fetched, m_window, retired>>
vars == <<llc_vars, core_vars, turn, memory, unsaved>>

Entry == [ready : BOOLEAN, addr : Addr \cup {NoAddr}]

Init ==
  /\ LLCInit
  /\ m_trace \in Traces
  /\ trace_idx = [c \in Core |-> 1 + (1 % Len(m_trace[c]))]
  /\ fetched = [c \in Core |-> m_trace[c][1]]
  /\ m_window = [c \in Core |-> <<>>]
  /\ retired = [c \in Core |-> 0]
  /\ turn = <<"misses">>
  /\ memory = <<>>
  /\ unsaved = {}

(* The frontend ends when every core has retired what the run asks for.     *)
is_finished == \A c \in Core : retired[c] >= m_num_expected_insts

(* is_finished() is looked at between the ticks of frontend and memory.     *)
Running == turn = <<"memory">> => ~is_finished

------------------------------------------------------------------------------
(* The callback of a request: every request waiting for this address wakes  *)
(* the loads of its own address in the window of its core.                  *)

set_ready(w, A) ==
  [i \in DOMAIN w |-> IF w[i].addr \in A THEN [w[i] EXCEPT !.ready = TRUE] ELSE w[i]]

Woken(waiting) ==
  [c \in Core |->
     set_ready(m_window[c], {q.addr : q \in {x \in waiting : x.source = c}})]

Callback(a, waiting) ==
  /\ receive(a)
  /\ m_window' = Woken(waiting)
  /\ m_receive_requests' = [m_receive_requests EXCEPT ![a] = {}]

------------------------------------------------------------------------------
(* SimpleO3LLC::tick, first half: every matured miss is offered to the      *)
(* memory, and stays in the list if it is refused.  The memory takes as     *)
(* many as it has room for, which ones is up to its buffers.                *)
TickMisses ==
  /\ turn = <<"misses">>
  /\ LET aged == Aged(m_miss_list)
         due == Matured(aged)
         room == MemCapacity - Len(memory)
         n == IF Cardinality(due) <= room THEN Cardinality(due) ELSE room
     IN \E taken \in SUBSET due :
          LET sent == InOrder(taken) IN
          /\ Cardinality(taken) = n
          /\ memory' = memory \o [i \in 1 .. n |-> aged[sent[i]].req]
          /\ m_miss_list' = Left(aged, taken)
          /\ unsaved' = unsaved \ {align(aged[i].req.addr) :
                           i \in {j \in taken : aged[j].req.type = "Write"}}
  /\ m_hit_list' = Aged(m_hit_list)
  /\ turn' = <<"hits">>
  /\ UNCHANGED <<m_cache_sets, m_mshrs, m_receive_requests, core_vars>>

(* Second half: a matured hit replaces the requests waiting for its address *)
(* by itself, and is called back.                                           *)
TickHit ==
  /\ turn = <<"hits">> /\ Matured(m_hit_list) # {}
  /\ LET i == Min(Matured(m_hit_list)) IN
     /\ Callback(m_hit_list[i].req.addr, {m_hit_list[i].req})
     /\ m_hit_list' = RemoveAt(m_hit_list, i)
  /\ UNCHANGED <<m_miss_list, m_trace, trace_idx, fetched, retired, turn, memory, unsaved>>

TickHitsDone ==
  /\ turn = <<"hits">> /\ Matured(m_hit_list) = {}
  /\ turn' = <<"core", 0>>
  /\ UNCHANGED <<llc_vars, core_vars, memory, unsaved>>

------------------------------------------------------------------------------
(* SimpleO3Core::tick: retire, insert bubbles, send the load, send the      *)
(* write-back, fetch the next instruction; it ends early wherever a limit   *)
(* is met or the cache refuses.                                             *)

(* The ready instructions at the tail of the window, at most m_ipc.         *)
retire(w) ==
  Min({Len(w), m_ipc} \cup {i - 1 : i \in {j \in DOMAIN w : ~w[j].ready}})

AfterRetire(c) == SubSeq(m_window[c], retire(m_window[c]) + 1, Len(m_window[c]))

(* Mutant: the window is not looked at.                                     *)
BubblesUnbounded(c) == Min({fetched[c].bubble_count, m_ipc})

Bubbles(c) == Min({fetched[c].bubble_count, m_ipc, m_depth - Len(AfterRetire(c))})

AfterBubbles(c) ==
  AfterRetire(c) \o [i \in 1 .. Bubbles(c) |-> [ready |-> TRUE, addr |-> NoAddr]]

NoBubbleLeft(c) == fetched[c].bubble_count = Bubbles(c)

MayLoad(c) ==
  /\ NoBubbleLeft(c) /\ fetched[c].load_addr # NoAddr
  /\ Bubbles(c) # m_ipc /\ Len(AfterBubbles(c)) # m_depth

MayStore(c) ==
  NoBubbleLeft(c) /\ fetched[c].load_addr = NoAddr /\ fetched[c].store_addr # NoAddr

Load(c) == [addr |-> fetched[c].load_addr, type |-> "Read", source |-> c]
Store(c) == [addr |-> fetched[c].store_addr, type |-> "Write", source |-> c]

CoreTurn(c) ==
  /\ turn = <<"core", c>>
  /\ retired' = [retired EXCEPT ![c] =
       Min({@ + retire(m_window[c]), m_num_expected_insts})]
  /\ turn' = IF c + 1 \in Core THEN <<"core", c + 1>> ELSE <<"memory">>
  /\ UNCHANGED <<m_trace, memory>>

get_next_inst(c) ==
  /\ trace_idx' = [trace_idx EXCEPT ![c] = 1 + (@ % Len(m_trace[c]))]
  /\ fetched' = [fetched EXCEPT ![c] = m_trace[c][trace_idx[c]]]

TickLoad(c) ==
  /\ CoreTurn(c)
  /\ MayLoad(c)
  /\ send(Load(c))
  /\ m_window' = [m_window EXCEPT ![c] =
       Append(AfterBubbles(c), [ready |-> FALSE, addr |-> fetched[c].load_addr])]
  /\ IF fetched[c].store_addr = NoAddr
       THEN get_next_inst(c)
       ELSE /\ fetched' = [fetched EXCEPT ![c].load_addr = NoAddr, ![c].bubble_count = 0]
            /\ UNCHANGED trace_idx
  /\ UNCHANGED unsaved

TickStore(c) ==
  /\ CoreTurn(c)
  /\ MayStore(c)
  /\ send(Store(c))
  /\ m_window' = [m_window EXCEPT ![c] = AfterBubbles(c)]
  /\ get_next_inst(c)
  /\ unsaved' = unsaved \cup {align(fetched[c].store_addr)}

(* A line of bubbles only: its load address is -1.                          *)
TickNoMemory(c) ==
  /\ CoreTurn(c)
  /\ NoBubbleLeft(c) /\ fetched[c].load_addr = NoAddr /\ fetched[c].store_addr = NoAddr
  /\ m_window' = [m_window EXCEPT ![c] = AfterBubbles(c)]
  /\ get_next_inst(c)
  /\ UNCHANGED <<llc_vars, unsaved>>

TickStall(c) ==
  /\ CoreTurn(c)
  /\ \/ ~NoBubbleLeft(c)
     \/ fetched[c].load_addr # NoAddr /\ ~MayLoad(c)
     \/ MayLoad(c) /\ ~Accepts(fetched[c].load_addr)
     \/ MayStore(c) /\ ~Accepts(fetched[c].store_addr)
  /\ m_window' = [m_window EXCEPT ![c] = AfterBubbles(c)]
  /\ fetched' = [fetched EXCEPT ![c].bubble_count = @ - Bubbles(c)]
  /\ UNCHANGED <<llc_vars, trace_idx, unsaved>>

------------------------------------------------------------------------------
(* The memory's tick: it answers some of its requests; a write has no       *)
(* callback.                                                                *)
MemoryServes(i) ==
  /\ turn = <<"memory">> /\ Running
  /\ i \in DOMAIN memory
  /\ memory' = RemoveAt(memory, i)
  /\ IF memory[i].type = "Read"
       THEN Callback(memory[i].addr, m_receive_requests[memory[i].addr])
       ELSE UNCHANGED <<m_cache_sets, m_mshrs, m_receive_requests, m_window>>
  /\ UNCHANGED <<m_miss_list, m_hit_list, m_trace, trace_idx, fetched, retired, turn, unsaved>>

MemoryTickEnds ==
  /\ turn = <<"memory">> /\ Running
  /\ Len(m_miss_list) > MaxBacklog => memory = <<>>
  /\ turn' = <<"misses">>
  /\ UNCHANGED <<llc_vars, core_vars, memory, unsaved>>

Finished ==
  /\ turn = <<"memory">> /\ is_finished
  /\ UNCHANGED vars

CoreTick == \E c \in Core : TickLoad(c) \/ TickStore(c) \/ TickNoMemory(c) \/ TickStall(c)

Next ==
  \/ TickMisses \/ TickHit \/ TickHitsDone
  \/ CoreTick
  \/ \E i \in DOMAIN memory : MemoryServes(i)
  \/ MemoryTickEnds
  \/ Finished

(* The main loop never stops ticking, and the memory serves the request it  *)
(* has held longest sooner or later: both are loops without an exit.        *)
Fairness == WF_vars(Next) /\ SF_vars(MemoryServes(1))

Spec == Init /\ [][Next]_vars /\ Fairness

------------------------------------------------------------------------------
(* The state keeps its shape, and the window, the sets, the registers and   *)
(* the memory never hold more than they may (is_full, m_associativity,      *)
(* m_num_mshrs).                                                            *)
TypeOK ==
  /\ \A i \in Sets : m_cache_sets[i] \in Seq(Line) /\ Len(m_cache_sets[i]) <= m_associativity
  /\ m_mshrs \subseteq Addr /\ Cardinality(m_mshrs) <= m_num_mshrs
  /\ m_receive_requests \in [Addr -> SUBSET Request]
  /\ m_miss_list \in Seq([wait : 0 .. m_latency, req : Request])
  /\ m_hit_list \in Seq([wait : 0 .. m_latency, req : Request])
  /\ trace_idx \in [Core -> Nat \ {0}] /\ fetched \in [Core -> Inst]
  /\ \A c \in Core : m_window[c] \in Seq(Entry) /\ Len(m_window[c]) <= m_depth
  /\ retired \in [Core -> 0 .. m_num_expected_insts]
  /\ turn \in {<<"core", c>> : c \in Core} \cup {<<"misses">>, <<"hits">>, <<"memory">>}
  /\ memory \in Seq(Request) /\ Len(memory) <= MemCapacity
  /\ unsaved \subseteq Aligned

(* A line is in flight exactly while a register names it, so a second miss  *)
(* never allocates a line that is already there: the assert(false) of       *)
(* need_eviction ("Due to MSHR, the program can't reach here") is right,    *)
(* although a hit that completes late may free the register of a newer miss. *)
RegisterPerLineInFlight ==
  /\ \A i \in Sets : \A j, k \in DOMAIN m_cache_sets[i] :
       m_cache_sets[i][j].tag = m_cache_sets[i][k].tag => j = k
  /\ \A x, y \in m_mshrs : align(x) = align(y) => x = y
  /\ {align(x) : x \in m_mshrs} =
       UNION {{align(m_cache_sets[i][j].addr) :
                 j \in {k \in DOMAIN m_cache_sets[i] : ~m_cache_sets[i][k].ready}} : i \in Sets}

(* No store is lost: until the memory has accepted a write-back, the line   *)
(* is dirty in the cache or its write-back waits in the miss list, across   *)
(* hits, evictions, refetches and refusals.                                 *)
StoreKept ==
  \A a \in unsaved :
    \/ \E i \in Sets : \E j \in DOMAIN m_cache_sets[i] :
         align(m_cache_sets[i][j].addr) = a /\ m_cache_sets[i][j].dirty
    \/ \E i \in DOMAIN m_miss_list :
         align(m_miss_list[i].req.addr) = a /\ m_miss_list[i].req.type = "Write"

(* Somebody will wake the load of core c at address a: a hit of this core   *)
(* on its way, or a reply to come for the list the core waits in.           *)
WillWake(c, a) ==
  \/ \E i \in DOMAIN m_hit_list :
       m_hit_list[i].req.addr = a /\ m_hit_list[i].req.source = c
  \/ \E x \in Addr :
       /\ \E q \in m_receive_requests[x] : q.addr = a /\ q.source = c
       /\ \/ \E i \in DOMAIN m_miss_list :
               m_miss_list[i].req.addr = x /\ m_miss_list[i].req.type = "Read"
          \/ \E i \in DOMAIN memory : memory[i].addr = x /\ memory[i].type = "Read"

(* A single core that accesses lines at their first address only.  Else a   *)
(* hit that completes late drops others who wait in the list of its address *)
(* (llc.cpp:42, the assignment to m_receive_requests).                      *)
OneCoreOfLines == Core = {0} /\ \A a \in Addr : align(a) = a

(* No load waits for a callback that will not come.                         *)
EveryLoadWillWake ==
  \A c \in Core : \A i \in DOMAIN m_window[c] :
    ~m_window[c][i].ready => WillWake(c, m_window[c][i].addr)

(* Every core retires the instructions the run asks for, so the simulation  *)
(* ends (is_finished, called by the main loop).                             *)
EveryCoreFinishes == <>is_finished
==============================================================================
