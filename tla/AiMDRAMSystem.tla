--------------------------- MODULE AiMDRAMSystem ---------------------------
(***************************************************************************)
(* The AiM DMA (memory_system/impl/aim_DRAM_system.cpp) driven by the trace *)
(* frontend (frontend/impl/memory_trace/aim_trace.cpp) and the main loop.   *)
(*                                                                          *)
(* The frontend reads host requests from a trace and pushes them into the   *)
(* ISR queue.  Every memory-system tick first retries the requests that a   *)
(* controller refused, then, unless a blocking request is outstanding,      *)
(* decodes the head of the queue into one request per column and channel,   *)
(* and lets the controllers tick; a controller that serves a blocking       *)
(* request calls receive().                                                 *)
(*                                                                          *)
(* A controller appears here only by what the AiM DMA can see of it: it     *)
(* accepts a prefix of the requests offered to it during one tick (a        *)
(* refusal lasts until its next tick), and at each tick it may call back    *)
(* one of the blocking requests it holds.  AiMController is the detailed    *)
(* controller and is shown to keep that promise.                            *)
(***************************************************************************)
EXTENDS Integers, Sequences, FiniteSets, AiMISRInfo

CONSTANTS
  MAX_CHANNEL_COUNT,  \* number of channels (32 in the code)
  ISR_SIZE,           \* capacity of the ISR queue (2^21 in the code)
  HostInputs,         \* the host requests a trace may contain
  MaxTrace            \* length of the longest trace; its last line is EOC

Channels == 0 .. (MAX_CHANNEL_COUNT - 1)

(* The lines of a trace: AiM instructions, conventional accesses to memory, *)
(* general-purpose and configuration registers, and the attention/FFN       *)
(* boundary comment, which the frontend turns into a SYNC.                  *)
HostOps == Opcode \cup {"R_MEM", "W_MEM", "R_GPR", "W_GPR", "R_CFR", "W_CFR", "PHASE"}

CFRNames == {"BROADCAST", "EWMUL_BG", "AFM"}

(* What the parser lets through: only opcodes with a legal opsize field     *)
(* have one (the default -1 is decoded as 1).  An AiM instruction has the   *)
(* set of bits of its channel mask; a conventional access names its channel *)
(* and bank, and has no channel here if one of them does not exist.         *)
HostTemplate ==
  {t \in [op : HostOps, mask : SUBSET Channels, opsize : Nat, addr : Nat, data : Int] :
      /\ ~opsize_legal(t.op) => t.opsize = 1
      /\ t.op \in {"R_MEM", "W_MEM"} => t.mask = {} \/ \E c \in Channels : t.mask = {c}}

ASSUME SystemAssumption ==
  /\ MAX_CHANNEL_COUNT \in Nat \ {0}
  /\ ISR_SIZE \in Nat \ {0}
  /\ MaxTrace \in Nat \ {0}
  /\ \A t \in HostInputs : t \in HostTemplate

VARIABLES
  trace,          \* history: the host requests read so far; host_req_id is the index
  remaining_req,  \* the frontend holds its last request because the queue was full
  request_queue,  \* the ISR queue, a sequence of host request ids
  remaining,      \* remaining_AiM_requests: per channel, decoded but not accepted
  stalled,        \* stalled_AiM_requests
  CFR_values,     \* the configuration registers
  awaiting,       \* the accepted blocking requests not yet called back
  delivered,      \* history: per channel, the requests its controller accepted
  m_trace_reached_calledback,
  exc             \* the exception (or exit) that ended the program, or "none"

frontendVars == <<trace, remaining_req>>
systemVars == <<request_queue, remaining, stalled, CFR_values>>
vars == <<frontendVars, systemVars, awaiting, delivered, m_trace_reached_calledback, exc>>

-----------------------------------------------------------------------------
(* Decoding *)

CountSetBit(mask) == Cardinality(mask)

(* FindFirstChannelIndex counts the channel from the other end of the mask. *)
FindFirstChannelIndex(bit) == MAX_CHANNEL_COUNT - 1 - bit

opcode(h) == IF h.op = "PHASE" THEN "ISR_SYNC" ELSE h.op

Targets(h) ==
  CASE opcode(h) \in MulticastOpcodes -> {FindFirstChannelIndex(bit) : bit \in h.mask}
    [] opcode(h) \in BarrierOpcodes   -> Channels
    [] opcode(h) \in {"R_MEM", "W_MEM"} -> h.mask
    [] OTHER -> {}

(* The configuration registers whose values a request carries away.         *)
CFRsOf(op) ==
  CASE op = "ISR_AF"      -> {"AFM"}
    [] op = "ISR_MAC_SBK" -> {"BROADCAST"}
    [] op = "ISR_MAC_ABK" -> {"BROADCAST", "EWMUL_BG"}
    [] OTHER              -> {}

(* The requests that a host request unrolls into for one channel, in order. *)
SubReqs(id, h, cfr, c) ==
  IF c \in Targets(h)
    THEN [i \in 1 .. h.opsize |->
            [hid |-> id, idx |-> i, ch |-> c, op |-> opcode(h),
             cfr |-> [r \in CFRNames |-> IF r \in CFRsOf(opcode(h)) THEN cfr[r] ELSE -1]]]
    ELSE <<>>

AimReq == [hid : Nat, idx : Nat, ch : Channels, op : HostOps,
           cfr : [CFRNames -> Int]]

(* Mutant: SYNC and EOC, too, are counted by the bits of their mask.        *)
StallsByMask(h) ==
  IF AiM_DMA_blocking(opcode(h)) THEN h.opsize * CountSetBit(h.mask) ELSE 0

(* Mutant: every channel is counted, whatever the mask.                     *)
StallsAllChannels(h) ==
  IF AiM_DMA_blocking(opcode(h)) THEN h.opsize * MAX_CHANNEL_COUNT ELSE 0

(* stalled_AiM_requests grows by one for every request of a blocking one,   *)
(* accepted or not.                                                         *)
Stalls(h) ==
  IF AiM_DMA_blocking(opcode(h)) THEN h.opsize * Cardinality(Targets(h)) ELSE 0

(* The exceptions thrown while decoding, and the exit of apply_addr_mapp    *)
(* when the channel or the bank of an access does not exist.  The bank of   *)
(* an AiM instruction is taken to exist.                                    *)
DecodeThrows(h) ==
  \/ h.op = "ISR_WR_AFLUT"
  \/ channel_count_eq_one(h.op) /\ CountSetBit(h.mask) # 1
  \/ h.op \in {"R_MEM", "W_MEM"} /\ h.mask = {}
  \/ h.op = "W_CFR" /\ h.addr \notin 0 .. 2

(* Mutant: EWMUL_BG and AFM trade places in the register map.               *)
SwappedCFR(addr) ==
  CASE addr = 0 -> "BROADCAST" [] addr = 2 -> "EWMUL_BG" [] OTHER -> "AFM"

address_to_CFR(addr) ==
  CASE addr = 0 -> "BROADCAST" [] addr = 1 -> "EWMUL_BG" [] OTHER -> "AFM"

-----------------------------------------------------------------------------
Running == exc = "none" /\ ~m_trace_reached_calledback

Init ==
  /\ trace = <<>>
  /\ remaining_req = FALSE
  /\ request_queue = <<>>
  /\ remaining = [c \in Channels |-> <<>>]
  /\ stalled = 0
  /\ CFR_values = [r \in CFRNames |-> IF r = "EWMUL_BG" THEN 1 ELSE 0]
  /\ awaiting = {}
  /\ delivered = [c \in Channels |-> <<>>]
  /\ m_trace_reached_calledback = FALSE
  /\ exc = "none"

-----------------------------------------------------------------------------
(* The frontend *)

m_trace_reached_EOC == Len(trace) > 0 /\ trace[Len(trace)].op = "ISR_EOC"

(* Mutant: one request too many is let into the queue.                      *)
SendOneTooMany(id) ==
  IF Len(request_queue) > ISR_SIZE
    THEN remaining_req' = TRUE /\ UNCHANGED request_queue
    ELSE remaining_req' = FALSE /\ request_queue' = Append(request_queue, id)

(* Mutant: a full queue is reported but takes the request all the same.     *)
SendPushesWhenFull(id) ==
  /\ remaining_req' = (Len(request_queue) = ISR_SIZE)
  /\ request_queue' = Append(request_queue, id)

(* AiMDRAMSystem::send: refuses only when the queue holds exactly ISR_SIZE. *)
send(id) ==
  IF Len(request_queue) = ISR_SIZE
    THEN remaining_req' = TRUE /\ UNCHANGED request_queue
    ELSE remaining_req' = FALSE /\ request_queue' = Append(request_queue, id)

(* AiMTrace::tick reads the next host request.                              *)
ReadHostRequest ==
  /\ Running
  /\ ~remaining_req
  /\ ~m_trace_reached_EOC
  /\ \E t \in HostInputs :
       /\ Len(trace) + 1 = MaxTrace => t.op = "ISR_EOC"
       /\ t.op = "PHASE" => \A i \in DOMAIN trace : trace[i].op # "PHASE"
       /\ Len(trace) < MaxTrace
       /\ trace' = Append(trace, t)
       /\ send(Len(trace) + 1)
  /\ UNCHANGED <<remaining, stalled, CFR_values, awaiting, delivered,
                 m_trace_reached_calledback, exc>>

(* AiMTrace::tick meets a line it rejects, a second boundary marker, or the *)
(* end of a trace that has no EOC: the program ends.                        *)
ReadThrows ==
  /\ Running
  /\ ~remaining_req
  /\ ~m_trace_reached_EOC
  /\ exc' = "trace"
  /\ UNCHANGED <<frontendVars, systemVars, awaiting, delivered, m_trace_reached_calledback>>

(* AiMTrace::tick retries the request that the full queue refused.          *)
ResendHostRequest ==
  /\ Running
  /\ remaining_req
  /\ send(Len(trace))
  /\ UNCHANGED <<trace, remaining, stalled, CFR_values, awaiting, delivered,
                 m_trace_reached_calledback, exc>>

-----------------------------------------------------------------------------
(* The memory system *)

(* Mutant: the request that was refused is popped as well.                  *)
DeliverDropsRefused(pend, acc) ==
  /\ remaining' = [c \in Channels |-> SubSeq(pend[c], acc[c] + 2, Len(pend[c]))]
  /\ delivered' = [c \in Channels |-> delivered[c] \o SubSeq(pend[c], 1, acc[c])]

(* Mutant: an accepted request is not popped before the loop leaves.        *)
DeliverKeepsAccepted(pend, acc) ==
  /\ remaining' = [c \in Channels |->
                     IF acc[c] \in {0, Len(pend[c])}
                       THEN SubSeq(pend[c], acc[c] + 1, Len(pend[c]))
                       ELSE SubSeq(pend[c], acc[c], Len(pend[c]))]
  /\ delivered' = [c \in Channels |-> delivered[c] \o SubSeq(pend[c], 1, acc[c])]

(* The controllers are offered pend[c] and accept the first acc[c] of it.   *)
Deliver(pend, acc) ==
  /\ remaining' = [c \in Channels |-> SubSeq(pend[c], acc[c] + 1, Len(pend[c]))]
  /\ delivered' = [c \in Channels |-> delivered[c] \o SubSeq(pend[c], 1, acc[c])]

(* Mutant: the callback is set on every request, blocking or not.           *)
AllAwaiting(pend, acc) == UNION {{pend[c][i] : i \in 1 .. acc[c]} : c \in Channels}

(* The blocking requests among those accepted.                              *)
NowAwaiting(pend, acc) ==
  {r \in UNION {{pend[c][i] : i \in 1 .. acc[c]} : c \in Channels} :
      AiM_DMA_blocking(r.op)}

Accepts(pend, acc) == \A c \in Channels : acc[c] \in 0 .. Len(pend[c])

AllAccepted(pend, acc) == \A c \in Channels : acc[c] = Len(pend[c])

(* receive() rejects a request whose host id is not that of the head; a     *)
(* call with nothing outstanding would drive the counter below zero.        *)
ReceiveFails(served, q, n) ==
  /\ served # {}
  /\ \/ q = <<>>
     \/ \E r \in served : r.hid # Head(q)
     \/ Cardinality(served) > n

(* The callback that brings the counter to zero completes the head.         *)
CompletesHead(served, n) == served # {} /\ n = Cardinality(served)

(* Mutant: a SYNC of the trace carries the callback, too.                   *)
SyncEndsRun(id) == opcode(trace[id]) \in BarrierOpcodes

(* AiMTrace::receive: only the last host request carries the callback that  *)
(* ends the run.                                                            *)
ReachedCalledback(id) == trace[id].op = "ISR_EOC"

(* The callbacks of one tick: each served request decrements the counter.   *)
(* q and n are the queue and the counter after the DMA's own part of the    *)
(* tick.                                                                    *)
Receive(served, q, n) ==
  IF ReceiveFails(served, q, n)
    THEN /\ exc' = "receive"
         /\ request_queue' = q
         /\ stalled' = n
         /\ UNCHANGED m_trace_reached_calledback
    ELSE /\ stalled' = n - Cardinality(served)
         /\ IF CompletesHead(served, n)
              THEN /\ request_queue' = Tail(q)
                   /\ m_trace_reached_calledback' = ReachedCalledback(Head(q))
              ELSE request_queue' = q /\ UNCHANGED m_trace_reached_calledback
         /\ UNCHANGED exc

(* What the controllers may serve: at most one pending read per channel.    *)
Servable(served) ==
  /\ served \subseteq awaiting
  /\ \A r, s \in served : r.ch = s.ch => r = s

(* Mutant: the head is popped although blocking requests are outstanding.   *)
DrainPopsBlocked(acc) == AllAccepted(remaining, acc)

(* Without a blocking request the head is popped once all is delivered.     *)
DrainPops(acc) == stalled = 0 /\ AllAccepted(remaining, acc)

(* A tick that finds undelivered requests: they are offered again; when the *)
(* last of a non-blocking host request is accepted, the head is popped.     *)
TickDrain(acc, served) ==
  /\ Running
  /\ \E c \in Channels : remaining[c] # <<>>
  /\ Accepts(remaining, acc)
  /\ Servable(served)
  /\ Deliver(remaining, acc)
  /\ awaiting' = (awaiting \ served) \cup NowAwaiting(remaining, acc)
  /\ LET q == IF DrainPops(acc) THEN Tail(request_queue) ELSE request_queue
     IN  Receive(served, q, stalled)
  /\ UNCHANGED <<trace, remaining_req, CFR_values>>

(* A tick that decodes the head of the queue.                               *)
TickDecode(acc, served) ==
  /\ Running
  /\ \A c \in Channels : remaining[c] = <<>>
  /\ stalled = 0
  /\ request_queue # <<>>
  /\ Servable(served)
  /\ LET id   == Head(request_queue)
         h    == trace[id]
         pend == [c \in Channels |-> SubReqs(id, h, CFR_values, c)]
         n    == Stalls(h)
         q    == IF n = 0 /\ AllAccepted(pend, acc) THEN Tail(request_queue) ELSE request_queue
     IN  /\ ~DecodeThrows(h)
         /\ Accepts(pend, acc)
         /\ Deliver(pend, acc)
         /\ awaiting' = (awaiting \ served) \cup NowAwaiting(pend, acc)
         /\ CFR_values' = IF h.op = "W_CFR"
                            THEN [CFR_values EXCEPT ![address_to_CFR(h.addr)] = h.data]
                            ELSE CFR_values
         /\ Receive(served, q, n)
  /\ UNCHANGED <<trace, remaining_req>>

(* A tick whose decoding throws: the program ends.                          *)
TickDecodeThrows ==
  /\ Running
  /\ \A c \in Channels : remaining[c] = <<>>
  /\ stalled = 0
  /\ request_queue # <<>>
  /\ DecodeThrows(trace[Head(request_queue)])
  /\ exc' = "decode"
  /\ UNCHANGED <<frontendVars, systemVars, awaiting, delivered, m_trace_reached_calledback>>

(* A tick with nothing to send: only the controllers work.                  *)
TickWait(served) ==
  /\ Running
  /\ \A c \in Channels : remaining[c] = <<>>
  /\ stalled # 0 \/ request_queue = <<>>
  /\ Servable(served)
  /\ awaiting' = awaiting \ served
  /\ Receive(served, request_queue, stalled)
  /\ UNCHANGED <<trace, remaining_req, remaining, CFR_values, delivered>>

(* The number of requests one host request can put on a channel.            *)
MaxOpsize == CHOOSE n \in {1} \cup {t.opsize : t \in HostInputs} :
                \A t \in HostInputs : t.opsize <= n

Acceptance == [Channels -> 0 .. MaxOpsize]

(* The main loop leaves when the frontend has been called back for EOC, and *)
(* an exception ends the program.                                           *)
Finished == ~Running /\ UNCHANGED vars

Next ==
  \/ ReadHostRequest
  \/ ReadThrows
  \/ ResendHostRequest
  \/ \E acc \in Acceptance, served \in SUBSET awaiting : TickDrain(acc, served)
  \/ \E acc \in Acceptance, served \in SUBSET awaiting : TickDecode(acc, served)
  \/ \E served \in SUBSET awaiting : TickWait(served)
  \/ TickDecodeThrows
  \/ Finished

Spec == Init /\ [][Next]_vars

MemoryTick ==
  \E served \in SUBSET awaiting :
    \/ \E acc \in Acceptance : TickDrain(acc, served) \/ TickDecode(acc, served)
    \/ TickWait(served)

(* A tick in which channel c accepts one of the requests it had refused,    *)
(* and one in which it calls back a blocking request.                       *)
AcceptsAt(c) == MemoryTick /\ Len(remaining'[c]) < Len(remaining[c])

CallsBackAt(c) == MemoryTick /\ \E r \in awaiting \ awaiting' : r.ch = c

(* The main loop never stops ticking both sides while it runs, and no       *)
(* controller refuses, or sits on a blocking request, for ever.             *)
Fairness ==
  /\ WF_vars(ReadHostRequest \/ ReadThrows)
  /\ WF_vars(ResendHostRequest)
  /\ WF_vars(TickDecodeThrows)
  /\ WF_vars(MemoryTick)
  /\ \A c \in Channels : WF_vars(AcceptsAt(c)) /\ WF_vars(CallsBackAt(c))

FairSpec == Spec /\ Fairness

-----------------------------------------------------------------------------
(* Properties *)

(* The type invariant: a memory-system state has the shape the code's       *)
(* declarations give it, and no queue holds more than its capacity.         *)
TypeOK ==
  /\ trace \in Seq(HostTemplate)
  /\ remaining_req \in BOOLEAN
  /\ request_queue \in Seq(Nat) /\ Len(request_queue) <= ISR_SIZE
  /\ remaining \in [Channels -> Seq(AimReq)]
  /\ stalled \in Nat
  /\ CFR_values \in [CFRNames -> Int]
  /\ awaiting \in SUBSET AimReq
  /\ delivered \in [Channels -> Seq(AimReq)]
  /\ m_trace_reached_calledback \in BOOLEAN
  /\ exc \in {"none", "trace", "decode", "receive"}

(* The blocking requests of the head that some channel has still to serve:  *)
(* the ones a controller holds and the ones it has not accepted yet.        *)
BlockingRemaining ==
  {r \in UNION {{remaining[c][i] : i \in DOMAIN remaining[c]} : c \in Channels} :
      AiM_DMA_blocking(r.op)}

Outstanding == awaiting \cup BlockingRemaining

(* stalled_AiM_requests counts exactly the blocking requests that have not  *)
(* been called back, over any interleaving of refusals and callbacks.       *)
StalledExact == stalled = Cardinality(Outstanding)

(* receive() never sees a request that is not of the queue's head, so its   *)
(* ConfigurationError is unreachable and the counter never goes below zero. *)
ReceiveNeverThrows == exc # "receive"

(* While a blocking request is outstanding its host request is the head of  *)
(* the queue and nothing of a later host request has left the DMA.          *)
BlockedUntilServed ==
  Outstanding # {} =>
    /\ request_queue # <<>>
    /\ \A r \in Outstanding : r.hid = Head(request_queue)
    /\ \A c \in Channels : \A i \in DOMAIN delivered[c] :
          delivered[c][i].hid <= Head(request_queue)

(* The host requests that have left the queue are the first Completed ones  *)
(* of the trace.                                                            *)
Completed == Len(trace) - Len(request_queue) - (IF remaining_req THEN 1 ELSE 0)

Earlier(r, s) == r.hid < s.hid \/ (r.hid = s.hid /\ r.idx < s.idx)

(* Every channel is given its requests in trace and column order, none      *)
(* twice; those still refused come last.                                    *)
DeliveryInOrder ==
  \A c \in Channels :
    LET all == delivered[c] \o remaining[c]
    IN  \A i, j \in DOMAIN all : i < j => Earlier(all[i], all[j])

(* A host request leaves the queue only when every request it unrolls into  *)
(* has been accepted by its channel: none is dropped by a refusal.          *)
CompletedIsDelivered ==
  \A id \in 1 .. Completed : \A c \in Targets(trace[id]) : \A i \in 1 .. trace[id].opsize :
    \E j \in DOMAIN delivered[c] : delivered[c][j].hid = id /\ delivered[c][j].idx = i

(* The value of a configuration register at a trace position, from the      *)
(* register addresses that the trace format defines.                        *)
CFRAddress == [BROADCAST |-> 0, EWMUL_BG |-> 1, AFM |-> 2]

CFRAt(id, r) ==
  LET writes == {i \in 1 .. id : trace[i].op = "W_CFR" /\ trace[i].addr = CFRAddress[r]}
  IN  IF writes = {} THEN (IF r = "EWMUL_BG" THEN 1 ELSE 0)
      ELSE trace[CHOOSE i \in writes : \A k \in writes : k <= i].data

(* A request carries the register values set by the last writes before it   *)
(* in the trace, however late its channel accepts it.                       *)
ConfigInProgramOrder ==
  \A c \in Channels : \A j \in DOMAIN delivered[c] :
    LET r == delivered[c][j]
    IN  \A reg \in CFRsOf(r.op) : r.cfr[reg] = CFRAt(r.hid, reg)

(* When the frontend is called back for EOC, the whole trace has been       *)
(* delivered and no blocking request is left anywhere.                      *)
EOCIsLast ==
  m_trace_reached_calledback =>
    /\ request_queue = <<>>
    /\ ~remaining_req
    /\ Outstanding = {}
    /\ \A c \in Channels : remaining[c] = <<>>

(* A completed host request never comes back, and one tick completes at     *)
(* most one: the callback of a host request is made exactly once.           *)
OneCompletionPerTick == [][Completed' \in {Completed, Completed + 1}]_vars

(* Every run ends: with the EOC callback, or with a reported exception.     *)
EventuallyFinished == <>(m_trace_reached_calledback \/ exc # "none")

(* base/request.h: a request "will be broadcasted/multicasted to the        *)
(* channels whose bit is set in channel mask".                              *)
MaskNamesChannels ==
  \A c \in Channels : \A j \in DOMAIN delivered[c] :
    delivered[c][j].op \in MulticastOpcodes => c \in trace[delivered[c][j].hid].mask
=============================================================================
