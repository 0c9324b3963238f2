---------------------------- MODULE AiMController ----------------------------
(***************************************************************************)
(* The controller of one AiM channel                                        *)
(* (dram_controller/impl/AiM_dram_controller.cpp) with its FRFCFS scheduler *)
(* and its all-bank refresh manager, over the rows of a GDDR6 channel.      *)
(*                                                                          *)
(* Time is abstracted: at every tick the timing tables may find any of the  *)
(* commands ready, within the one relation between them that the tables     *)
(* guarantee (TimingOK), and any issued request may have reached its        *)
(* departure.  What holds here holds for every set of timing values.        *)
(*                                                                          *)
(* A request buffer is a set: a request's id is its arrival number, so the  *)
(* list order is the order of the ids.                                      *)
(***************************************************************************)
EXTENDS GDDR6, Sequences, FiniteSets

CONSTANTS
  Inputs,       \* the requests the memory system may send to this channel
  max_size,     \* ReqBuffer::max_size (32 in the code)
  wr_low,       \* the write-mode watermarks, in tenths (2 and 8 in the code)
  wr_high,
  m_num_ranks,  \* ranks the refresh manager counts; -1 without a rank level (GDDR6)
  MaxReq        \* bound on the number of requests of a run

RequestType == {"Read", "Write", "AIM", "RefAllBank"}

Template == [type : RequestType, opcode : Opcode \cup {"MIN"},
             bank : Banks \cup {NoBank}, row : Int, addr : Int]

(* What the AiM DMA sends: conventional accesses and single-bank AiM        *)
(* commands name a bank, the others none; opcode MIN marks a conventional   *)
(* request, and no request of the AiM DMA ever has its addr field set.  A   *)
(* channel has 16 banks, fewer than the 32 entries of a buffer.             *)
ASSUME ControllerAssumption ==
  /\ IsFiniteSet(Banks) /\ Cardinality(Banks) <= max_size
  /\ max_size \in Nat /\ wr_low \in 0 .. 10 /\ wr_high \in 0 .. 10
  /\ m_num_ranks \in {-1, 1} /\ MaxReq \in Nat
  /\ \A t \in Inputs :
       /\ t \in Template
       /\ t.type \in {"Read", "Write", "AIM"}
       /\ t.type = "AIM" <=> t.opcode # "MIN"
       /\ t.type = "AIM" => t.opcode \in DOMAIN m_aim_request_translations
       /\ t.bank \in Banks <=> (t.type # "AIM" \/ bank_index_legal(t.opcode))
       /\ t.addr = -1

VARIABLES
  buffer,           \* the five ReqBuffers, by name
  pending_reads,    \* issued readers, served in order; now: departs at once
  pending_writes,   \* issued writers
  m_is_write_mode,
  is_reg_RW_mode,
  m_row_state,      \* the open rows of every bank
  arrived,          \* number of requests accepted so far
  served,           \* history: the requests called back or finished
  issued            \* history: the requests whose final command has been issued

vars == <<buffer, pending_reads, pending_writes, m_is_write_mode, is_reg_RW_mode,
          m_row_state, arrived, served, issued>>

BufferName == {"read", "write", "aim", "priority", "active"}

(* Accesses, and the AiM commands on a single bank, name their bank.        *)
Request ==
  {q \in [id : Nat, type : RequestType, opcode : Opcode \cup {"MIN"},
          bank : Banks \cup {NoBank}, row : Int, addr : Int] :
     /\ q.type = "AIM" => q.opcode \in DOMAIN m_aim_request_translations
     /\ q.type = "AIM" /\ bank_index_legal(q.opcode) => q.bank \in Banks
     /\ q.type \in {"Read", "Write"} => q.bank \in Banks}

IsBarrier(q) == q.opcode \in BarrierOpcodes

(* Request::is_reader *)
is_reader(q) == q.type = "Read" \/ (q.type = "AIM" /\ AiM_DMA_blocking(q.opcode))

requires_reg_RW_mode(q) == q.type = "AIM" /\ require_reg_RW_mod(q.opcode)

(* ReqBuffer::enqueue accepts while the size is at most max_size.           *)
HasRoom(buf) == Cardinality(buf) <= max_size

Oldest(S) == {q \in S : \A p \in S : q.id <= p.id}

Init ==
  /\ buffer = [b \in BufferName |-> {}]
  /\ pending_reads = <<>>
  /\ pending_writes = {}
  /\ m_is_write_mode = FALSE
  /\ is_reg_RW_mode = FALSE
  /\ m_row_state = [b \in Banks |-> {}]
  /\ arrived = 0
  /\ served = {}
  /\ issued = {}

-----------------------------------------------------------------------------
(* send *)

BufferOf(t) ==
  CASE t.type = "Read" -> "read" [] t.type = "Write" -> "write" [] OTHER -> "aim"

(* AiM and conventional requests keep each other out of the buffers.        *)
OppositeTypeWaiting(t) ==
  IF t.type = "AIM" THEN buffer["write"] # {} \/ buffer["read"] # {}
                    ELSE buffer["aim"] # {}

(* An incoming read is answered by a buffered write to the same addr.       *)
Forwarded(t) == t.type = "Read" /\ \E w \in buffer["write"] : w.addr = t.addr

Refuses(t) ==
  \/ OppositeTypeWaiting(t)
  \/ ~Forwarded(t) /\ ~HasRoom(buffer[BufferOf(t)])

NewRequest(t) == [id |-> arrived + 1, type |-> t.type, opcode |-> t.opcode,
                  bank |-> t.bank, row |-> t.row, addr |-> t.addr]

send(t) ==
  /\ arrived < MaxReq
  /\ ~Refuses(t)
  /\ arrived' = arrived + 1
  /\ IF Forwarded(t)
       THEN /\ pending_reads' = Append(pending_reads, [req |-> NewRequest(t), now |-> TRUE])
            /\ UNCHANGED buffer
       ELSE /\ buffer' = [buffer EXCEPT ![BufferOf(t)] = @ \cup {NewRequest(t)}]
            /\ UNCHANGED pending_reads
  /\ UNCHANGED <<pending_writes, m_is_write_mode, is_reg_RW_mode, m_row_state, served, issued>>

-----------------------------------------------------------------------------
(* tick, step 1: serve_completed_reqs.  departs: the head of pending_reads  *)
(* has reached its departure; wdone: the writes that have reached theirs.   *)

(* Mutant: a barrier does not wait for the issued writes.                   *)
HeadServedAnyway(departs) ==
  pending_reads # <<>> /\ (Head(pending_reads).now \/ departs)

HeadServed(departs) ==
  /\ pending_reads # <<>>
  /\ Head(pending_reads).now \/ departs
  /\ IsBarrier(Head(pending_reads).req) => pending_writes = {}

ReadsLeft(departs) ==
  IF HeadServed(departs) THEN Tail(pending_reads) ELSE pending_reads

ServedNow(departs, wdone) ==
  wdone \cup (IF HeadServed(departs) THEN {Head(pending_reads).req} ELSE {})

(* tick, step 2: the refresh manager puts a refresh in the priority buffer. *)
RefreshRequest == [id |-> arrived + 1, type |-> "RefAllBank", opcode |-> "MIN",
                   bank |-> NoBank, row |-> -1, addr |-> -1]

Refreshed(refresh) ==
  IF refresh THEN [buffer EXCEPT !["priority"] = @ \cup {RefreshRequest}] ELSE buffer

-----------------------------------------------------------------------------
(* tick, step 3: schedule_request.  A key names a command and the bank it   *)
(* goes to; two requests with the same key are ready together.              *)

command(q) == get_preq_command(m_row_state, q)

Key(q) == <<command(q), IF command(q) \in BankCommands THEN q.bank ELSE NoBank>>

(* The keys whose readiness a tick may ask for.                             *)
WaitingKeys(refresh) ==
  {Key(q) : q \in UNION {Refreshed(refresh)[b] : b \in BufferName}}

(* Mutant: the timing tables lack the constraints of ACT16.                 *)
NoTimingRelation(ready, refresh) == TRUE

(* Whatever delays ACT at some bank delays ACT16 at least as long.          *)
TimingOK(ready, refresh) ==
  <<"ACT16", NoBank>> \in ready =>
    \A k \in WaitingKeys(refresh) : k[1] = "ACT" => k \in ready

(* FRFCFS: the oldest of the ready requests of a buffer.                    *)
get_best_request(buf, ready) == Oldest({q \in buf : Key(q) \in ready})

(* Mutant: the active buffer is looked at only when no AiM request waits.   *)
FromActiveUnlessAiM(ready) ==
  buffer["aim"] = {} /\ \E q \in buffer["active"] : Key(q) \in ready

FromActive(ready) == \E q \in buffer["active"] : Key(q) \in ready

(* Only a tick that gets as far as the read and write buffers looks at the  *)
(* watermarks.                                                              *)
ReachesReadWrite(ready, refresh) ==
  /\ ~FromActive(ready)
  /\ Refreshed(refresh)["priority"] = {}
  /\ buffer["aim"] = {}

(* Mutant: write mode is never left.                                        *)
NeverLeavesWriteMode ==
  LET writes == Cardinality(buffer["write"])
  IN  IF ~m_is_write_mode
        THEN 10 * writes > wr_high * max_size \/ buffer["read"] = {}
        ELSE TRUE

set_write_mode ==
  LET writes == Cardinality(buffer["write"])
  IN  IF ~m_is_write_mode
        THEN 10 * writes > wr_high * max_size \/ buffer["read"] = {}
        ELSE ~(10 * writes < wr_low * max_size /\ buffer["read"] # {})

WriteMode(ready, refresh) ==
  IF ReachesReadWrite(ready, refresh) THEN set_write_mode ELSE m_is_write_mode

(* The buffer that this tick serves.                                        *)
ServedBuffer(ready, refresh) ==
  IF FromActive(ready) THEN "active"
  ELSE IF Refreshed(refresh)["priority"] # {} THEN "priority"
  ELSE IF buffer["aim"] # {} THEN "aim"
  ELSE IF set_write_mode THEN "write" ELSE "read"

(* Mutant: FRFCFS picks among the AiM requests, too.                        *)
CandidatesFRFCFS(b, ready, refresh) ==
  IF b = "priority"
    THEN {q \in Oldest(Refreshed(refresh)[b]) : Key(q) \in ready}
    ELSE Oldest({q \in buffer[b] : IsBarrier(q) \/ Key(q) \in ready})

(* The active and the read and write buffers are searched for a ready       *)
(* request; the priority and AiM buffers only offer their first, and a      *)
(* barrier needs no command.                                                *)
Candidates(b, ready, refresh) ==
  IF b \in {"priority", "aim"}
    THEN {q \in Oldest(Refreshed(refresh)[b]) : IsBarrier(q) \/ Key(q) \in ready}
    ELSE get_best_request(buffer[b], ready)

(* A command that would close the row of a request in the active buffer is  *)
(* not issued.                                                              *)
ClosesActiveRow(q) == is_closing(command(q)) /\ \E a \in buffer["active"] : a.bank = q.bank

schedule_request(ready, refresh) ==
  {q \in Candidates(ServedBuffer(ready, refresh), ready, refresh) : ~ClosesActiveRow(q)}

-----------------------------------------------------------------------------
(* tick, step 4: issue the command.                                         *)

(* The part of a tick that does not depend on the scheduled request.        *)
TickCommon(departs, wdone, ready, refresh) ==
  /\ refresh => m_num_ranks > 0 /\ arrived < MaxReq
  /\ TimingOK(ready, refresh)
  /\ arrived' = IF refresh THEN arrived + 1 ELSE arrived
  /\ served' = served \cup ServedNow(departs, wdone)
  /\ m_is_write_mode' = WriteMode(ready, refresh)

(* No request is found.                                                     *)
TickIdle(departs, wdone, ready, refresh) ==
  /\ schedule_request(ready, refresh) = {}
  /\ TickCommon(departs, wdone, ready, refresh)
  /\ buffer' = Refreshed(refresh)
  /\ pending_reads' = ReadsLeft(departs)
  /\ pending_writes' = pending_writes \ wdone
  /\ UNCHANGED <<is_reg_RW_mode, m_row_state, issued>>

(* SYNC and EOC wait in pending_reads for their callback.                   *)
TickBarrier(departs, wdone, ready, refresh) ==
  \E q \in schedule_request(ready, refresh) :
    /\ IsBarrier(q)
    /\ TickCommon(departs, wdone, ready, refresh)
    /\ buffer' = [Refreshed(refresh) EXCEPT !["aim"] = @ \ {q}]
    /\ pending_reads' = Append(ReadsLeft(departs), [req |-> q, now |-> TRUE])
    /\ pending_writes' = pending_writes \ wdone
    /\ issued' = issued \cup {q}
    /\ UNCHANGED <<is_reg_RW_mode, m_row_state>>

(* The register mode is wrong for the request: TMOD goes out in place of    *)
(* its command.                                                             *)
TickMode(departs, wdone, ready, refresh) ==
  \E q \in schedule_request(ready, refresh) :
    /\ ~IsBarrier(q)
    /\ requires_reg_RW_mode(q) # is_reg_RW_mode
    /\ TickCommon(departs, wdone, ready, refresh)
    /\ is_reg_RW_mode' = ~is_reg_RW_mode
    /\ buffer' = Refreshed(refresh)
    /\ pending_reads' = ReadsLeft(departs)
    /\ pending_writes' = pending_writes \ wdone
    /\ UNCHANGED <<m_row_state, issued>>

(* The final command: the request goes to one of the pending queues.        *)
TickFinal(departs, wdone, ready, refresh) ==
  \E q \in schedule_request(ready, refresh) :
    /\ ~IsBarrier(q)
    /\ requires_reg_RW_mode(q) = is_reg_RW_mode
    /\ command(q) = final_command(q)
    /\ TickCommon(departs, wdone, ready, refresh)
    /\ m_row_state' = update_states(m_row_state, command(q), q)
    /\ buffer' = [Refreshed(refresh) EXCEPT ![ServedBuffer(ready, refresh)] = @ \ {q}]
    /\ pending_reads' = IF is_reader(q)
                          THEN Append(ReadsLeft(departs), [req |-> q, now |-> FALSE])
                          ELSE ReadsLeft(departs)
    /\ pending_writes' = (pending_writes \ wdone) \cup (IF is_reader(q) THEN {} ELSE {q})
    /\ issued' = issued \cup {q}
    /\ UNCHANGED is_reg_RW_mode

(* Mutant: an AiM request whose rows are being opened moves as well.        *)
AnyMovesToActive(q) == is_opening(command(q))

MovesToActive(q) == q.type # "AIM" /\ is_opening(command(q))

(* Mutant: the request stays in its buffer when it enters the active one.   *)
CopiedToActive(bufs, b, q) ==
  IF HasRoom(bufs["active"]) THEN [bufs EXCEPT !["active"] = @ \cup {q}] ELSE bufs

(* A conventional request whose row is being opened moves to the active     *)
(* buffer; the result of that enqueue is not looked at.                     *)
MovedToActive(bufs, b, q) ==
  LET left == [bufs EXCEPT ![b] = @ \ {q}]
  IN  IF HasRoom(bufs["active"]) THEN [left EXCEPT !["active"] = @ \cup {q}] ELSE left

TickPrepare(departs, wdone, ready, refresh) ==
  \E q \in schedule_request(ready, refresh) :
    /\ ~IsBarrier(q)
    /\ requires_reg_RW_mode(q) = is_reg_RW_mode
    /\ command(q) # final_command(q)
    /\ TickCommon(departs, wdone, ready, refresh)
    /\ m_row_state' = update_states(m_row_state, command(q), q)
    /\ buffer' = IF MovesToActive(q)
                   THEN MovedToActive(Refreshed(refresh), ServedBuffer(ready, refresh), q)
                   ELSE Refreshed(refresh)
    /\ pending_reads' = ReadsLeft(departs)
    /\ pending_writes' = pending_writes \ wdone
    /\ UNCHANGED <<is_reg_RW_mode, issued>>

tick ==
  \E departs \in BOOLEAN, wdone \in SUBSET pending_writes, refresh \in BOOLEAN :
    \E ready \in SUBSET WaitingKeys(refresh) :
      \/ TickIdle(departs, wdone, ready, refresh)
      \/ TickBarrier(departs, wdone, ready, refresh)
      \/ TickMode(departs, wdone, ready, refresh)
      \/ TickFinal(departs, wdone, ready, refresh)
      \/ TickPrepare(departs, wdone, ready, refresh)

Next == (\E t \in Inputs : send(t)) \/ tick

Spec == Init /\ [][Next]_vars

(* A tick by which the constraints on every waiting command have ended and  *)
(* every departure has been reached.                                        *)
TickAllReady ==
  \E refresh \in BOOLEAN :
    LET ready == WaitingKeys(refresh)
    IN  \/ TickIdle(TRUE, pending_writes, ready, refresh)
        \/ TickBarrier(TRUE, pending_writes, ready, refresh)
        \/ TickMode(TRUE, pending_writes, ready, refresh)
        \/ TickFinal(TRUE, pending_writes, ready, refresh)
        \/ TickPrepare(TRUE, pending_writes, ready, refresh)

(* The accesses of active requests whose rows are open.                     *)
AccessKeys == {Key(q) : q \in {a \in buffer["active"] : command(a) = final_command(a)}}

(* Time passes: constraints end after a number of cycles, and an access is  *)
(* ready nRCD after its row is opened, before anything else can close it    *)
(* (nRAS): a row opened again and again is accessed in the end.             *)
FairSpec ==
  /\ Spec
  /\ WF_vars(TickAllReady)
  /\ SF_vars(TickFinal(TRUE, pending_writes, AccessKeys, FALSE))

-----------------------------------------------------------------------------
(* Properties *)

InPendingReads == {pending_reads[i].req : i \in DOMAIN pending_reads}

(* The type invariant; the active and the AiM buffer hold only the kind of  *)
(* request that the scheduler expects there.                                *)
TypeOK ==
  /\ buffer \in [BufferName -> SUBSET Request]
  /\ \A q \in buffer["active"] : q.type \in {"Read", "Write"}
  /\ \A q \in buffer["aim"] : q.type = "AIM"
  /\ pending_reads \in Seq([req : Request, now : BOOLEAN])
  /\ pending_writes \in SUBSET Request
  /\ m_is_write_mode \in BOOLEAN
  /\ is_reg_RW_mode \in BOOLEAN
  /\ m_row_state \in [Banks -> SUBSET Int]
  /\ arrived \in Nat
  /\ served \in SUBSET Request
  /\ issued \in SUBSET Request

(* The places a request can be in.                                          *)
Places(id) ==
  {b \in BufferName : \E q \in buffer[b] : q.id = id} \cup
  (IF \E q \in InPendingReads : q.id = id THEN {"pending_reads"} ELSE {}) \cup
  (IF \E q \in pending_writes : q.id = id THEN {"pending_writes"} ELSE {}) \cup
  (IF \E q \in served : q.id = id THEN {"served"} ELSE {})

(* Every accepted request is in exactly one buffer or queue until it is     *)
(* served: none is lost when it moves to the active buffer (the result of   *)
(* that enqueue is ignored) and none is served twice.                       *)
NoRequestLost == \A id \in 1 .. arrived : Cardinality(Places(id)) = 1

(* A bank has one open row: ACT16, which opens rows without checking that   *)
(* the banks are closed, never puts a second row beside the first.          *)
OneRowPerBank == \A b \in Banks : \A r, s \in m_row_state[b] : r = s

(* The active buffer holds at most one request per bank.                    *)
OneActivePerBank ==
  \A p, q \in buffer["active"] : p.bank = q.bank => p = q

(* A request of the active buffer never needs a command that the scheduler  *)
(* withholds because of that very request: it would block itself, and with  *)
(* it the whole channel, for ever.                                          *)
ActiveNeverBlocksItself == \A q \in buffer["active"] : ~ClosesActiveRow(q)

(* The row of a bank with an active request is that request's, or closed.   *)
ActiveRowKept == \A q \in buffer["active"] : m_row_state[q.bank] \subseteq {q.row}

(* AiM requests are issued in the order in which the channel accepted them. *)
AiMIssuedInOrder ==
  \A q \in issued : q.type = "AIM" =>
    \A p \in buffer["aim"] : q.id < p.id

(* The step that calls back SYNC or EOC.                                    *)
CallsBack(q) == IsBarrier(q) /\ q \in served' \ served

(* When SYNC or EOC is called back, every earlier AiM request of the        *)
(* channel has been served, and every earlier access too, except one that   *)
(* was in the active buffer when the barrier passed: it may still be there, *)
(* or wait behind the barrier in pending_reads.                             *)
BarrierDrainsAllButActive ==
  [][\A q \in InPendingReads : CallsBack(q) =>
       /\ \A p \in issued : p.type = "AIM" /\ p.id < q.id => p \in served
       /\ \A id \in 1 .. (q.id - 1) :
            Places(id) \subseteq {"served", "active", "pending_reads"}]_vars

(* aim_trace.cpp: "A real SYNC drains every channel before reporting the    *)
(* current memory-system cycle."                                            *)
BarrierDrains ==
  [][\A q \in InPendingReads : CallsBack(q) =>
       \A id \in 1 .. (q.id - 1) : Places(id) = {"served"}]_vars

(* Every accepted request is served in the end: write mode is left, a       *)
(* refresh in front of the priority buffer gets through, and the requests   *)
(* do not close each other's rows for ever.                                 *)
EveryRequestServed ==
  \A id \in 1 .. MaxReq : arrived >= id ~> \E q \in served : q.id = id

(* AiM_dram_controller.cpp: a read is answered from the write buffer only   *)
(* by an existing write to what it reads.                                   *)
ForwardedFromSameRow ==
  [][\A t \in Inputs : send(t) /\ Forwarded(t) =>
       \E w \in buffer["write"] : w.bank = t.bank /\ w.row = t.row]_vars

-----------------------------------------------------------------------------
(* What the controller promises to the AiM DMA about blocking requests.     *)
Blocking(S) == {q \in S : q.type = "AIM" /\ AiM_DMA_blocking(q.opcode)}

Channel == INSTANCE AiMChannel WITH
             awaiting <- Blocking(buffer["aim"] \cup InPendingReads),
             calledback <- Blocking(served)

(* The controller keeps the contract that the AiM DMA relies on: every      *)
(* blocking request it accepted is called back once, in order, one a tick,  *)
(* whatever conventional requests and barriers travel with it.              *)
ImplementsChannel == Channel!Spec
=============================================================================
