------------------------ MODULE GenericDRAMController ------------------------
(***************************************************************************)
(* The generic memory system with one channel: GenericDRAMSystem, its       *)
(* controller (dram_controller/impl/generic_dram_controller.cpp), the       *)
(* FRFCFS scheduler and the all-bank refresh manager, over the device of    *)
(* DRAMNode with its timing constraints.                                    *)
(*                                                                          *)
(* Clocks are kept relative, as in DRAMNode.  Frontends send between two    *)
(* ticks, any number of requests; a request that is refused changes nothing *)
(* and may be sent again.                                                   *)
(***************************************************************************)
EXTENDS DRAMNode

CONSTANTS
  Accesses,     \* the addresses that frontends use: records of rank, bank, row, col
  max_size,     \* ReqBuffer::max_size (32 in the code)
  wr_low,       \* the write-mode watermarks, in tenths (2 and 8 in the code)
  wr_high,
  nREFI,        \* cycles between two refreshes
  MaxReq,       \* bound on the number of requests of a run
  SendCycles    \* bound: values of refresh_in at which requests are sent

(* A low watermark of 0 would never be reached from above.                  *)
ASSUME GenericAssumption ==
  /\ max_size \in Nat \ {0} /\ wr_low \in 1..10 /\ wr_high \in 0..10
  /\ nREFI \in Nat \ {0} /\ MaxReq \in Nat

(* The address vector of an access: the levels down to the bank.            *)
VectorOf(levels, a) ==
  [i \in DOMAIN levels |-> CASE levels[i] = "rank" -> a.rank
                             [] levels[i] = "bank" -> a.bank
                             [] OTHER              -> 0]

(* The accesses are addresses of the device, whose standard knows reads,    *)
(* writes and refreshes of the rank or channel, and opens rows by ACT.      *)
ASSUME AccessAssumption ==
  \A s \in DOMAIN Device :
    LET D == Device[s]
    IN  /\ \A a \in Accesses :
             VectorOf(D.levels, a) \in D.tree.banks /\ a.row \in 0..(D.org["row"] - 1)
        /\ D.opening = {"ACT"}
        /\ {"read", "write", "all-bank-refresh"} \subseteq D.requested
        /\ \A type \in {"read", "write"} : D.preqs[D.requests[type]] = "Bank::RequireRowOpen"
        /\ D.preqs[D.requests["all-bank-refresh"]] \in
             {"Rank::RequireAllBanksClosed", "Channel::RequireAllBanksClosed"}
        /\ "rank" \in ToSet(D.levels) => D.org["rank"] \in Nat
        /\ {D.V.nCL, D.V.nBL} \subseteq Nat /\ D.V.nCL + D.V.nBL > 0

VARIABLES
  buffer,           \* the four ReqBuffers, by name
  pending,          \* reads that are about to finish; left: cycles to the departure
  m_is_write_mode,
  refresh_in,       \* m_next_refresh_cycle, from now
  ticking,          \* the device has been ticked, its controller not yet
  arrived,          \* number of requests accepted so far
  cycle_first,      \* number of the first request of this cycle
  done              \* history: the requests that are finished

ctrl == <<buffer, pending, m_is_write_mode, refresh_in, arrived, cycle_first, done>>

allvars == <<vars, ctrl, ticking>>

BufferName == {"active", "priority", "read", "write"}

addr_vec(a) == VectorOf(S.levels, a)

GenericInit ==
  /\ Init
  /\ buffer = [b \in BufferName |-> <<>>]
  /\ pending = <<>>
  /\ m_is_write_mode = FALSE
  /\ refresh_in = nREFI
  /\ ticking = FALSE
  /\ arrived = 0
  /\ cycle_first = 1
  /\ done = {}

(* ReqBuffer::enqueue accepts while the size is at most max_size.           *)
HasRoom(buf) == Len(buf) <= max_size

(* ReqBuffer::remove takes out the request that an iterator is at.          *)
Position(buf, q) == CHOOSE i \in DOMAIN buf : buf[i] = q /\ \A j \in 1..(i - 1) : buf[j] # q

Without(buf, q) == RemoveAt(buf, Position(buf, q))

-----------------------------------------------------------------------------
(* GenericDRAMSystem::send and the controller's send *)

Request(type, a) == [id |-> arrived + 1, type |-> type, addr |-> a, arrive |-> cycle_first]

(* A read is answered by a buffered write to the same address.              *)
Forwarded(type, a) == type = "read" /\ \E w \in ToSet(buffer["write"]) : w.addr = a

send(type, a) ==
  /\ ~ticking
  /\ arrived < MaxReq /\ refresh_in \in SendCycles
  /\ IF Forwarded(type, a)
       THEN /\ pending' = Append(pending, [req |-> Request(type, a), left |-> 1])
            /\ UNCHANGED buffer
       ELSE /\ HasRoom(buffer[type])
            /\ buffer' = [buffer EXCEPT ![type] = Append(@, Request(type, a))]
            /\ UNCHANGED pending
  /\ arrived' = arrived + 1
  /\ UNCHANGED <<vars, m_is_write_mode, refresh_in, ticking, cycle_first, done>>

-----------------------------------------------------------------------------
(* The controller's tick: completed reads and the refresh manager *)

HeadServed == pending # <<>> /\ pending[1].left <= 1

(* serve_completed_reads looks at the head of the queue only.               *)
PendingLeft ==
  LET left == IF HeadServed THEN Tail(pending) ELSE pending
  IN  [i \in DOMAIN left |-> [left[i] EXCEPT !.left = @ - 1]]

ServedNow == IF HeadServed THEN {pending[1].req.id} ELSE {}

(* The ranks that AllBankRefresh counts: none if the device has no such     *)
(* level, -1 being its size then.                                           *)
m_num_ranks == IF "rank" \in ToSet(S.levels) THEN S.org["rank"] ELSE -1

refresh_due == refresh_in = 1

RefreshRequests ==
  [r \in 1..Max({m_num_ranks, 0}) |->
     [id |-> 0, type |-> "all-bank-refresh", rank |-> r - 1]]

(* The buffers once the refresh manager has ticked.                         *)
Refreshed ==
  IF refresh_due THEN [buffer EXCEPT !["priority"] = @ \o RefreshRequests] ELSE buffer

-----------------------------------------------------------------------------
(* schedule_request *)

(* The address vector of a request; that of a refresh ends at the rank.     *)
Vector(q) ==
  IF q.type = "all-bank-refresh"
    THEN [i \in DOMAIN S.levels |-> CASE i = 1 -> 0 [] i = 2 -> q.rank [] OTHER -> -1]
    ELSE addr_vec(q.addr)

RowOf(q) == IF q.type = "all-bank-refresh" THEN -1 ELSE q.addr.row

final_command(q) == S.requests[q.type]

command(q) == get_preq_command(m_row_state, final_command(q), Vector(q), RowOf(q))

ready(q) == check_ready(command(q), Vector(q))

(* Mutant: a ready request is preferred, but the youngest one.              *)
YoungestFirst(buf, i, j) ==
  \/ ready(buf[i]) /\ ~ready(buf[j])
  \/ ready(buf[i]) = ready(buf[j]) /\ (buf[i].arrive > buf[j].arrive \/ i = j)

(* FRFCFS: the request at i is not worse than the one at j.                 *)
compare(buf, i, j) ==
  \/ ready(buf[i]) /\ ~ready(buf[j])
  \/ /\ ready(buf[i]) = ready(buf[j])
     /\ buf[i].arrive < buf[j].arrive \/ (buf[i].arrive = buf[j].arrive /\ i <= j)

get_best_request(buf) ==
  {buf[i] : i \in {k \in DOMAIN buf : \A j \in DOMAIN buf : compare(buf, k, j)}}

(* Mutant: the active buffer is looked at last.                             *)
ActiveLast ==
  /\ \E q \in ToSet(buffer["active"]) : ready(q)
  /\ buffer["read"] = <<>> /\ buffer["write"] = <<>>

FromActive == \E q \in ToSet(buffer["active"]) : ready(q)

FromPriority == ~FromActive /\ Refreshed["priority"] # <<>>

(* Mutant: the watermarks are rounded down to whole requests.               *)
WholeWatermarks ==
  LET writes == Len(buffer["write"])
  IN  IF m_is_write_mode
        THEN ~(writes < (wr_low * max_size) \div 10 /\ buffer["read"] # <<>>)
        ELSE writes > (wr_high * max_size) \div 10 \/ buffer["read"] = <<>>

set_write_mode ==
  LET writes == Len(buffer["write"])
  IN  IF m_is_write_mode
        THEN ~(10 * writes < wr_low * max_size /\ buffer["read"] # <<>>)
        ELSE 10 * writes > wr_high * max_size \/ buffer["read"] = <<>>

(* Only a tick that gets as far as the read and write buffers looks at the  *)
(* watermarks.                                                              *)
WriteMode == IF FromActive \/ FromPriority THEN m_is_write_mode ELSE set_write_mode

ServedBuffer ==
  CASE FromActive   -> "active"
    [] FromPriority -> "priority"
    [] OTHER        -> IF set_write_mode THEN "write" ELSE "read"

(* The priority buffer offers its first request only, and while it has one  *)
(* the read and write buffers are not looked at.                            *)
Candidates ==
  IF FromPriority THEN {q \in {Refreshed["priority"][1]} : ready(q)}
  ELSE {q \in get_best_request(buffer[ServedBuffer]) : ready(q)}

(* A command that would close the row of a request in the active buffer is  *)
(* not issued; what is compared is the address vector of the request.       *)
Interrupts(q) ==
  /\ command(q) \in S.closing
  /\ \E a \in ToSet(buffer["active"]) : Vector(a) = Vector(q)

schedule_request == {q \in Candidates : ~Interrupts(q)}

-----------------------------------------------------------------------------
(* The controller's tick: issuing *)

m_read_latency == S.V.nCL + S.V.nBL

(* The part of a tick that does not depend on the scheduled request.  A     *)
(* refresh that finds the priority buffer full is an exception.             *)
TickCommon ==
  /\ ticking
  /\ ticking' = FALSE
  /\ refresh_due => Len(buffer["priority"]) + m_num_ranks <= 512 * 3 + 33
  /\ refresh_in' = IF refresh_due THEN nREFI ELSE refresh_in - 1
  /\ m_is_write_mode' = WriteMode
  /\ cycle_first' = arrived + 1
  /\ UNCHANGED <<arrived, device, log>>

TickIdle ==
  /\ schedule_request = {}
  /\ TickCommon
  /\ buffer' = Refreshed
  /\ pending' = PendingLeft
  /\ done' = done \cup ServedNow
  /\ UNCHANGED <<m_row_state, m_cmd_ready_clk, m_cmd_history>>

(* Reads go to the pending queue, all others are finished.                  *)
Departing(q) ==
  IF q.type = "read" THEN <<[req |-> q, left |-> m_read_latency]>> ELSE <<>>

(* Mutant: a refresh is not taken out of its buffer.                        *)
RefreshRepeated(q) ==
  IF FromPriority THEN Refreshed
  ELSE [Refreshed EXCEPT ![ServedBuffer] = Without(@, q)]

Removed(q) == [Refreshed EXCEPT ![ServedBuffer] = Without(@, q)]

TickFinal ==
  \E q \in schedule_request :
    /\ command(q) = final_command(q)
    /\ TickCommon
    /\ issue_command(command(q), Vector(q), RowOf(q))
    /\ buffer' = Removed(q)
    /\ pending' = PendingLeft \o Departing(q)
    /\ done' = done \cup ServedNow \cup (IF q.type = "write" THEN {q.id} ELSE {})

(* Mutant: the request also stays in its buffer.                            *)
CopiedToActive(q) == [Refreshed EXCEPT !["active"] = Append(@, q)]

(* A request whose row is being opened moves to the end of the active       *)
(* buffer; the result of that enqueue is not looked at.                     *)
MovedToActive(q) ==
  LET entered == IF HasRoom(buffer["active"])
                   THEN [Refreshed EXCEPT !["active"] = Append(@, q)]
                   ELSE Refreshed
  IN  [entered EXCEPT ![ServedBuffer] = Without(@, q)]

TickPrepare ==
  \E q \in schedule_request :
    /\ command(q) # final_command(q)
    /\ TickCommon
    /\ issue_command(command(q), Vector(q), RowOf(q))
    /\ buffer' = IF command(q) \in S.opening THEN MovedToActive(q) ELSE Refreshed
    /\ pending' = PendingLeft
    /\ done' = done \cup ServedNow

(* GenericDRAMSystem::tick: the device, then its controller.                *)
DeviceTick ==
  /\ ~ticking
  /\ ticking' = TRUE
  /\ tick
  /\ UNCHANGED ctrl

ControllerTick == TickIdle \/ TickFinal \/ TickPrepare

GenericNext ==
  \/ \E type \in {"read", "write"}, a \in Accesses : send(type, a)
  \/ DeviceTick
  \/ ControllerTick

(* The main loop ticks the memory system for as long as it runs; these are  *)
(* the steps that toggle ticking.                                           *)
Ticks == ticking' = ~ticking

GenericSpec == GenericInit /\ [][GenericNext]_allvars /\ WF_ticking(Ticks)

-----------------------------------------------------------------------------
(* Properties *)

(* The ids of the requests that wait, by where they wait.                   *)
Waiting ==
  [place \in {"pending", "active", "read", "write"} |->
     IF place = "pending" THEN [i \in DOMAIN pending |-> pending[i].req.id]
                          ELSE [i \in DOMAIN buffer[place] |-> buffer[place][i].id]]

Occurrences(id) ==
  Cardinality(UNION {{<<place, i>> : i \in {k \in DOMAIN Waiting[place] : Waiting[place][k] = id}} :
                       place \in DOMAIN Waiting})

(* The types of the controller's state; the active buffer, whose enqueue    *)
(* goes unchecked, holds one request per bank at most.                      *)
GenericTypeOK ==
  /\ TypeOK
  /\ \A i, j \in DOMAIN buffer["active"] :
       i # j => addr_vec(buffer["active"][i].addr) # addr_vec(buffer["active"][j].addr)
  /\ \A b \in {"active", "read", "write"} : \A q \in ToSet(buffer[b]) :
       /\ q.id \in 1..arrived /\ q.arrive \in 1..q.id /\ q.addr \in Accesses
       /\ b # "active" => q.type = b
  /\ \A p \in ToSet(pending) : p.req.type = "read" /\ p.left <= m_read_latency
  /\ refresh_in \in 1..nREFI
  /\ done \subseteq 1..arrived

(* A request that send accepted is in exactly one of the buffers or in the  *)
(* pending queue until it is finished, whichever way rows are opened,       *)
(* closed by a refresh and opened again.                                    *)
NoRequestLost ==
  \A id \in 1..arrived : Occurrences(id) = IF id \in done THEN 0 ELSE 1

(* Writes to one address reach the device in the order of their arrival,    *)
(* though they wait in two buffers and are scheduled out of order.          *)
WritesInOrder ==
  [][\A w \in ToSet(buffer["write"]) \cup ToSet(buffer["active"]) :
       (w.type = "write" /\ w.id \in done' /\ w.id \notin done) =>
         \A v \in ToSet(buffer["write"]) \cup ToSet(buffer["active"]) :
           (v.type = "write" /\ v.addr = w.addr) => v.id >= w.id]_allvars

(* Every refresh is done before the next one of its rank is due: the        *)
(* requests in the active buffer, served first, do not hold it up for long, *)
(* and the priority buffer never fills up (the manager throws if it does).  *)
RefreshBeforeNext == refresh_in = nREFI => Len(buffer["priority"]) <= Max({m_num_ranks, 0})

(* Every accepted request is finished at last, although refreshes come      *)
(* again and again and close rows that were opened for it.                  *)
EveryRequestFinished ==
  \A id \in 1..MaxReq : [](arrived >= id => <>(id \in done))

(* Every bank is refreshed again and again ("All-Bank Refresh scheme"), on  *)
(* devices with and without ranks.  nRFC is the longest wait of an ACT, so  *)
(* a wait of nRFC tells of a refresh.                                       *)
EveryBankRefreshed ==
  \A b \in UNION {Trees[s].banks : s \in DOMAIN Device} :
    []<>(b \in Tree.banks =>
           \E n \in Tree.nodes : IsTarget(n, b) /\ m_cmd_ready_clk[n]["ACT"] = S.V.nRFC)

(* Nobody waits for ever: neither requests for refreshes nor the reverse.   *)
EverythingServed == EveryRequestFinished /\ EveryBankRefreshed
=============================================================================
