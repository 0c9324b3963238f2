------------------------ MODULE AiMController_proofs ------------------------
(***************************************************************************)
(* Proofs about the channel controller, for any number of banks and rows,   *)
(* any buffer size, any watermarks and any timing that keeps TimingOK.      *)
(***************************************************************************)
EXTENDS AiMController, FiniteSetTheorems, TLAPS

-----------------------------------------------------------------------------
(* The functions a tick is made of *)

(* The refresh manager's request is a request, and only the priority buffer *)
(* receives it.                                                             *)
LEMMA RefreshedType ==
  ASSUME TypeOK, NEW refresh \in BOOLEAN
  PROVE  /\ Refreshed(refresh) \in [BufferName -> SUBSET Request]
         /\ \A b \in BufferName : b # "priority" => Refreshed(refresh)[b] = buffer[b]
<1>1. RefreshRequest \in Request
  BY DEF RefreshRequest, Request, RequestType, TypeOK, NoBank
<1>2. buffer \in [BufferName -> SUBSET Request]
  BY DEF TypeOK
<1> QED
  BY <1>1, <1>2 DEF Refreshed, BufferName

(* schedule_request returns a request of the buffer that the tick serves:   *)
(* a ready one, or a barrier at the head of the AiM buffer; and it serves   *)
(* the active buffer whenever that has a ready request.                     *)
LEMMA Scheduled ==
  ASSUME TypeOK, NEW ready, NEW refresh \in BOOLEAN,
         NEW q \in schedule_request(ready, refresh)
  PROVE  /\ ServedBuffer(ready, refresh) \in BufferName
         /\ q \in Refreshed(refresh)[ServedBuffer(ready, refresh)]
         /\ q \in Request
         /\ IsBarrier(q) \/ Key(q) \in ready
         /\ FromActive(ready) <=> ServedBuffer(ready, refresh) = "active"
<1> DEFINE b == ServedBuffer(ready, refresh)
<1>1. b \in BufferName /\ (FromActive(ready) <=> b = "active")
  BY DEF ServedBuffer, BufferName
<1>2. q \in Candidates(b, ready, refresh)
  BY DEF schedule_request
<1>3. q \in Refreshed(refresh)[b] /\ (IsBarrier(q) \/ Key(q) \in ready)
  <2>1. CASE b \in {"priority", "aim"}
    BY <1>2, <2>1 DEF Candidates, Oldest
  <2>2. CASE b \notin {"priority", "aim"}
    <3>1. q \in buffer[b] /\ Key(q) \in ready
      BY <1>2, <2>2 DEF Candidates, get_best_request, Oldest
    <3> QED BY <3>1, <2>2, <1>1, RefreshedType
  <2> QED BY <2>1, <2>2
<1>4. q \in Request
  BY <1>1, <1>3, RefreshedType
<1> QED BY <1>1, <1>3, <1>4

(* Serving the head leaves a sequence of pending reads.                     *)
LEMMA ReadsLeftType ==
  ASSUME TypeOK, NEW departs
  PROVE  ReadsLeft(departs) \in Seq([req : Request, now : BOOLEAN])
BY DEF TypeOK, ReadsLeft, HeadServed

(* Issuing a reader appends a pending read.                                 *)
LEMMA AppendType ==
  ASSUME NEW s \in Seq([req : Request, now : BOOLEAN]), NEW q \in Request, NEW n \in BOOLEAN
  PROVE  Append(s, [req |-> q, now |-> n]) \in Seq([req : Request, now : BOOLEAN])
<1> DEFINE R == [req : Request, now : BOOLEAN]
<1>1. [req |-> q, now |-> n] \in R
  OBVIOUS
<1>2. s \in Seq(R)
  OBVIOUS
<1> HIDE DEF R
<1>3. Append(s, [req |-> q, now |-> n]) \in Seq(R)
  BY <1>1, <1>2
<1> QED BY <1>3 DEF R

(* What a tick serves are requests.                                         *)
LEMMA ServedNowType ==
  ASSUME TypeOK, NEW departs, NEW wdone \in SUBSET pending_writes
  PROVE  ServedNow(departs, wdone) \in SUBSET Request
<1>1. ASSUME pending_reads # <<>> PROVE Head(pending_reads).req \in Request
  <2> DEFINE R == [req : Request, now : BOOLEAN]
  <2>1. pending_reads \in Seq(R)
    BY DEF TypeOK
  <2>2. Head(pending_reads) \in R
    <3> HIDE DEF R
    <3> QED BY <1>1, <2>1
  <2> QED BY <2>2
<1>2. HeadServed(departs) => pending_reads # <<>>
  BY DEF HeadServed
<1> QED BY <1>1, <1>2 DEF ServedNow, TypeOK

(* An issued command maps the rows of every bank to rows.                   *)
LEMMA UpdateStatesType ==
  ASSUME TypeOK, NEW cmd, NEW q \in Request
  PROVE  update_states(m_row_state, cmd, q) \in [Banks -> SUBSET Int]
BY DEF TypeOK, update_states, Request

(* The write mode that a tick leaves is a truth value.                      *)
LEMMA WriteModeType ==
  ASSUME TypeOK, NEW ready, NEW refresh
  PROVE  WriteMode(ready, refresh) \in BOOLEAN
<1>1. set_write_mode \in BOOLEAN
  BY Zenon DEF set_write_mode
<1> QED BY <1>1, Zenon DEF WriteMode, TypeOK

(* The part common to all ticks keeps the types of what it assigns.         *)
LEMMA TickCommonType ==
  ASSUME TypeOK, NEW departs, NEW wdone \in SUBSET pending_writes, NEW ready,
         NEW refresh \in BOOLEAN, TickCommon(departs, wdone, ready, refresh)
  PROVE  /\ arrived' \in Nat
         /\ served' \in SUBSET Request
         /\ m_is_write_mode' \in BOOLEAN
<1>1. arrived' \in Nat
  BY DEF TickCommon, TypeOK
<1>2. served' \in SUBSET Request
  BY ServedNowType DEF TickCommon, TypeOK
<1>3. m_is_write_mode' \in BOOLEAN
  BY WriteModeType, Zenon DEF TickCommon
<1> QED BY <1>1, <1>2, <1>3

(* A request accepted by send is well formed.                               *)
LEMMA NewRequestType ==
  ASSUME TypeOK, NEW t \in Inputs
  PROVE  NewRequest(t) \in Request /\ t.type \in {"Read", "Write", "AIM"}
BY ControllerAssumption DEF NewRequest, Request, Template, TypeOK

(* What moves to the active buffer is a conventional access: the commands   *)
(* of a refresh open no row.                                                *)
LEMMA OnlyAccessesMove ==
  ASSUME NEW q \in Request, MovesToActive(q)
  PROVE  q.type \in {"Read", "Write"}
<1>1. q.type \in {"Read", "Write", "RefAllBank"}
  BY DEF Request, RequestType, MovesToActive
<1>2. ASSUME q.type = "RefAllBank" PROVE FALSE
  <2>1. final_command(q) = "REFab"
    BY <1>2 DEF final_command, m_request_translations
  <2>2. command(q) \in {"PREA", "REFab"}
    BY <2>1 DEF command, get_preq_command, RequireAllBanksClosed
  <2> QED BY <2>2 DEF MovesToActive, is_opening
<1> QED BY <1>1, <1>2

(* MovedToActive only moves requests about.                                 *)
LEMMA MovedToActiveType ==
  ASSUME NEW bufs \in [BufferName -> SUBSET Request], NEW b \in BufferName,
         NEW q \in bufs[b]
  PROVE  /\ MovedToActive(bufs, b, q) \in [BufferName -> SUBSET Request]
         /\ MovedToActive(bufs, b, q)["active"] \subseteq bufs["active"] \cup {q}
         /\ \A n \in BufferName : n # "active" =>
              MovedToActive(bufs, b, q)[n] \subseteq bufs[n]
BY DEF MovedToActive, BufferName

(* Every action keeps the type invariant.                                   *)
LEMMA TypeStep ==
  ASSUME TypeOK, [Next]_vars
  PROVE  TypeOK'
<1>1. CASE UNCHANGED vars
  BY <1>1 DEF TypeOK, vars
<1>2. ASSUME NEW t \in Inputs, send(t)
      PROVE  TypeOK'
  <2>1. NewRequest(t) \in Request /\ t.type \in {"Read", "Write", "AIM"}
    BY NewRequestType
  <2>2. arrived' \in Nat
    BY <1>2 DEF send, TypeOK
  <2>3. CASE Forwarded(t)
    <3>1. pending_reads' \in Seq([req : Request, now : BOOLEAN])
      BY <1>2, <2>1, <2>3, AppendType DEF send, TypeOK
    <3> QED BY <1>2, <2>2, <2>3, <3>1 DEF send, TypeOK
  <2>4. CASE ~Forwarded(t)
    <3>1. BufferOf(t) \in {"read", "write", "aim"}
          /\ (BufferOf(t) = "aim" => NewRequest(t).type = "AIM")
      BY <2>1 DEF BufferOf, NewRequest
    <3>2. buffer' = [buffer EXCEPT ![BufferOf(t)] = @ \cup {NewRequest(t)}]
      BY <1>2, <2>4 DEF send
    <3>3. /\ buffer' \in [BufferName -> SUBSET Request]
          /\ \A q \in buffer'["active"] : q.type \in {"Read", "Write"}
          /\ \A q \in buffer'["aim"] : q.type = "AIM"
      BY <2>1, <3>1, <3>2 DEF TypeOK, BufferName
    <3> QED BY <1>2, <2>2, <2>4, <3>3 DEF send, TypeOK
  <2> QED BY <2>3, <2>4
<1>3. ASSUME NEW departs \in BOOLEAN, NEW wdone \in SUBSET pending_writes,
             NEW refresh \in BOOLEAN, NEW ready \in SUBSET WaitingKeys(refresh),
             \/ TickIdle(departs, wdone, ready, refresh)
             \/ TickBarrier(departs, wdone, ready, refresh)
             \/ TickMode(departs, wdone, ready, refresh)
             \/ TickFinal(departs, wdone, ready, refresh)
             \/ TickPrepare(departs, wdone, ready, refresh)
      PROVE  TypeOK'
  <2> DEFINE bufs == Refreshed(refresh)
             sb   == ServedBuffer(ready, refresh)
             left == ReadsLeft(departs)
  <2>1. TickCommon(departs, wdone, ready, refresh)
    BY <1>3 DEF TickIdle, TickBarrier, TickMode, TickFinal, TickPrepare
  <2>2. arrived' \in Nat /\ served' \in SUBSET Request /\ m_is_write_mode' \in BOOLEAN
    BY <2>1, TickCommonType
  <2>3. /\ bufs \in [BufferName -> SUBSET Request]
        /\ bufs["active"] = buffer["active"] /\ bufs["aim"] = buffer["aim"]
    BY RefreshedType DEF BufferName
  <2>4. left \in Seq([req : Request, now : BOOLEAN])
    BY ReadsLeftType
  <2>5. pending_writes \ wdone \in SUBSET Request
    BY DEF TypeOK
  <2>6. CASE TickIdle(departs, wdone, ready, refresh)
    BY <2>2, <2>3, <2>4, <2>5, <2>6 DEF TickIdle, TypeOK
  <2>7. CASE TickBarrier(departs, wdone, ready, refresh)
    <3>1. PICK q \in schedule_request(ready, refresh) :
            /\ buffer' = [bufs EXCEPT !["aim"] = @ \ {q}]
            /\ pending_reads' = Append(left, [req |-> q, now |-> TRUE])
            /\ pending_writes' = pending_writes \ wdone
            /\ issued' = issued \cup {q}
            /\ UNCHANGED <<is_reg_RW_mode, m_row_state>>
      BY <2>7 DEF TickBarrier
    <3>2. q \in Request
      BY Scheduled
    <3>3. pending_reads' \in Seq([req : Request, now : BOOLEAN])
      BY <2>4, <3>1, <3>2, AppendType
    <3>4. /\ buffer' \in [BufferName -> SUBSET Request]
          /\ buffer'["active"] = buffer["active"] /\ buffer'["aim"] \subseteq buffer["aim"]
      BY <2>3, <3>1 DEF BufferName
    <3> QED BY <2>2, <2>5, <3>1, <3>2, <3>3, <3>4 DEF TypeOK
  <2>8. CASE TickMode(departs, wdone, ready, refresh)
    BY <2>2, <2>3, <2>4, <2>5, <2>8 DEF TickMode, TypeOK
  <2>9. CASE TickFinal(departs, wdone, ready, refresh)
    <3>1. PICK q \in schedule_request(ready, refresh) :
            /\ m_row_state' = update_states(m_row_state, command(q), q)
            /\ buffer' = [bufs EXCEPT ![sb] = @ \ {q}]
            /\ pending_reads' = IF is_reader(q)
                                  THEN Append(left, [req |-> q, now |-> FALSE]) ELSE left
            /\ pending_writes' = (pending_writes \ wdone) \cup (IF is_reader(q) THEN {} ELSE {q})
            /\ issued' = issued \cup {q}
            /\ UNCHANGED is_reg_RW_mode
      BY <2>9 DEF TickFinal
    <3>2. q \in Request
      BY Scheduled
    <3>3. pending_reads' \in Seq([req : Request, now : BOOLEAN])
      <4> HIDE DEF left
      <4>1. CASE is_reader(q)
        BY <2>4, <3>1, <3>2, <4>1, AppendType
      <4>2. CASE ~is_reader(q)
        BY <2>4, <3>1, <4>2
      <4> QED BY <4>1, <4>2
    <3>4. m_row_state' \in [Banks -> SUBSET Int]
      BY <3>1, <3>2, UpdateStatesType
    <3>5. /\ buffer' \in [BufferName -> SUBSET Request]
          /\ buffer'["active"] \subseteq buffer["active"]
          /\ buffer'["aim"] \subseteq buffer["aim"]
      BY <2>3, <3>1 DEF BufferName
    <3> QED BY <2>2, <2>5, <3>1, <3>2, <3>3, <3>4, <3>5 DEF TypeOK
  <2>10. CASE TickPrepare(departs, wdone, ready, refresh)
    <3>1. PICK q \in schedule_request(ready, refresh) :
            /\ m_row_state' = update_states(m_row_state, command(q), q)
            /\ buffer' = IF MovesToActive(q) THEN MovedToActive(bufs, sb, q) ELSE bufs
            /\ pending_reads' = left
            /\ pending_writes' = pending_writes \ wdone
            /\ UNCHANGED <<is_reg_RW_mode, issued>>
      BY <2>10 DEF TickPrepare
    <3>2. q \in Request /\ sb \in BufferName /\ q \in bufs[sb]
      BY Scheduled
    <3>3. m_row_state' \in [Banks -> SUBSET Int]
      BY <3>1, <3>2, UpdateStatesType
    <3>4. /\ buffer' \in [BufferName -> SUBSET Request]
          /\ \A p \in buffer'["active"] : p.type \in {"Read", "Write"}
          /\ \A p \in buffer'["aim"] : p.type = "AIM"
      <4>1. CASE MovesToActive(q)
        <5>1. q.type \in {"Read", "Write"}
          BY <3>2, <4>1, OnlyAccessesMove
        <5>2. buffer' = MovedToActive(bufs, sb, q)
          BY <3>1, <4>1
        <5> HIDE DEF bufs, sb
        <5> QED BY <2>3, <3>2, <5>1, <5>2, MovedToActiveType DEF TypeOK, BufferName
      <4>2. CASE ~MovesToActive(q)
        BY <2>3, <3>1, <4>2 DEF TypeOK
      <4> QED BY <4>1, <4>2
    <3> QED BY <2>2, <2>4, <2>5, <3>1, <3>3, <3>4 DEF TypeOK
  <2> QED BY <1>3, <2>6, <2>7, <2>8, <2>9, <2>10
<1> QED BY <1>1, <1>2, <1>3 DEF Next, tick

(* The type invariant holds of every controller, so no request of a wrong   *)
(* kind ever reaches the active buffer or the head of the AiM buffer.       *)
THEOREM TypeCorrect == Spec => []TypeOK
<1>1. Init => TypeOK
  <2> SUFFICES ASSUME Init PROVE TypeOK
    OBVIOUS
  <2>1. pending_reads \in Seq([req : Request, now : BOOLEAN])
    BY DEF Init
  <2> QED BY <2>1 DEF Init, TypeOK, BufferName
<1>2. TypeOK /\ [Next]_vars => TypeOK'
  BY TypeStep
<1> QED BY <1>1, <1>2, PTL DEF Spec

-----------------------------------------------------------------------------
(* Rows and the active buffer *)

(* The command of a conventional access follows from its bank alone.        *)
LEMMA AccessCommand ==
  ASSUME NEW q \in Request, q.type \in {"Read", "Write"}
  PROVE  /\ q.bank \in Banks
         /\ final_command(q) \in {"RD", "WR"}
         /\ m_row_state[q.bank] = {} => command(q) = "ACT"
         /\ m_row_state[q.bank] # {} =>
              command(q) = IF q.row \in m_row_state[q.bank] THEN final_command(q) ELSE "PRE"
<1>1. q.bank \in Banks
  BY DEF Request
<1>2. final_command(q) \in {"RD", "WR"}
  BY DEF final_command, m_request_translations
<1>3. command(q) = RequireRowOpen(m_row_state, final_command(q), q)
  BY <1>2 DEF command, get_preq_command
<1> QED BY <1>1, <1>2, <1>3 DEF RequireRowOpen

(* The commands of the AiM instructions that open no row themselves.        *)
LEMMA AiMFinalCommand ==
  ASSUME NEW q \in Request, q.type = "AIM"
  PROVE  /\ final_command(q) \notin {"ACT", "ACT16", "REFab"}
         /\ final_command(q) \in {"RD", "WR", "RDCP", "WRCP", "MAC"} => q.bank \in Banks
BY DEF Request, final_command, m_aim_request_translations, bank_index_legal

(* ACT goes to a closed bank, and ACT16 only when every open bank already   *)
(* has the row that it opens.                                               *)
LEMMA OpeningCommand ==
  ASSUME NEW q \in Request
  PROVE  /\ command(q) = "ACT" => q.bank \in Banks /\ m_row_state[q.bank] = {}
         /\ command(q) = "ACT16" =>
              /\ q.type = "AIM"
              /\ \A b \in Banks : m_row_state[b] = {} \/ q.row \in m_row_state[b]
<1>1. CASE q.type \in {"Read", "Write"}
  BY <1>1, AccessCommand
<1>2. CASE q.type = "RefAllBank"
  <2>1. final_command(q) = "REFab"
    BY <1>2 DEF final_command, m_request_translations
  <2> QED BY <2>1 DEF command, get_preq_command, RequireAllBanksClosed
<1>3. CASE q.type = "AIM"
  <2>1. CASE final_command(q) \in {"RD", "WR", "RDCP", "WRCP", "MAC"}
    <3>1. command(q) = RequireRowOpen(m_row_state, final_command(q), q)
      BY <2>1 DEF command, get_preq_command
    <3> QED BY <1>3, <2>1, <3>1, AiMFinalCommand DEF RequireRowOpen
  <2>2. CASE final_command(q) \in {"WRA16", "MAC16", "AF16", "EWMUL16"}
    <3>1. command(q) = RequireAllRowsOpen(m_row_state, final_command(q), q)
      BY <2>2 DEF command, get_preq_command
    <3> QED BY <1>3, <2>2, <3>1 DEF RequireAllRowsOpen
  <2>3. CASE final_command(q) \notin
               {"RD", "WR", "RDCP", "WRCP", "MAC", "WRA16", "MAC16", "AF16", "EWMUL16"}
    <3>1. command(q) = final_command(q)
      BY <1>3, <2>3, AiMFinalCommand DEF command, get_preq_command
    <3> QED BY <1>3, <3>1, AiMFinalCommand
  <2> QED BY <2>1, <2>2, <2>3
<1> QED BY <1>1, <1>2, <1>3 DEF Request, RequestType

(* The inductive invariant: beside the types, at most one row per bank, at  *)
(* most one active request per bank, and no row but that request's in it.   *)
RowInv == OneRowPerBank /\ OneActivePerBank /\ ActiveRowKept

(* If an ACT is scheduled for a bank that an active request waits for, that *)
(* request shares its key, so it is the one that the tick serves.           *)
LEMMA ActIsForTheActive ==
  ASSUME TypeOK, RowInv, NEW ready, NEW refresh \in BOOLEAN,
         NEW q \in schedule_request(ready, refresh), ~IsBarrier(q), command(q) = "ACT",
         NEW a \in buffer["active"], a.bank = q.bank
  PROVE  a = q
<1>1. q \in Request /\ Key(q) \in ready
  BY Scheduled
<1>2. a \in Request /\ a.type \in {"Read", "Write"}
  BY DEF TypeOK, BufferName
<1>3. m_row_state[q.bank] = {} /\ q.bank \in Banks
  BY <1>1, OpeningCommand
<1>4. command(a) = "ACT"
  BY <1>2, <1>3, AccessCommand
<1>5. Key(a) = Key(q)
  BY <1>4 DEF Key, BankCommands
<1>6. FromActive(ready)
  BY <1>1, <1>5 DEF FromActive
<1>7. q \in buffer["active"]
  BY <1>6, Scheduled, RefreshedType DEF BufferName
<1> QED BY <1>7 DEF RowInv, OneActivePerBank

(* When ACT16 is scheduled, no active request waits for an activation: its  *)
(* ACT would be ready, too, and the active buffer is served first.          *)
LEMMA Act16FindsActiveRowsOpen ==
  ASSUME TypeOK, NEW ready, NEW refresh \in BOOLEAN, TimingOK(ready, refresh),
         NEW q \in schedule_request(ready, refresh), ~IsBarrier(q), command(q) = "ACT16",
         NEW a \in buffer["active"]
  PROVE  m_row_state[a.bank] # {}
<1> SUFFICES ASSUME m_row_state[a.bank] = {} PROVE FALSE
  OBVIOUS
<1>1. q \in Request /\ Key(q) \in ready
  BY Scheduled
<1>2. a \in Request /\ a.type \in {"Read", "Write"}
  BY DEF TypeOK, BufferName
<1>3. command(a) = "ACT"
  BY <1>2, AccessCommand
<1>4. Key(a) = <<"ACT", a.bank>> /\ Key(q) = <<"ACT16", NoBank>>
  BY <1>3 DEF Key, BankCommands
<1>5. Key(a) \in WaitingKeys(refresh)
  <2>1. a \in Refreshed(refresh)["active"] /\ "active" \in BufferName
    BY RefreshedType DEF BufferName
  <2> QED BY <2>1 DEF WaitingKeys
<1>6. Key(a) \in ready
  BY <1>1, <1>4, <1>5 DEF TimingOK
<1>7. q \in buffer["active"]
  BY <1>6, Scheduled, RefreshedType DEF FromActive, BufferName
<1>8. q.type \in {"Read", "Write"}
  BY <1>7 DEF TypeOK
<1> QED BY <1>1, <1>8, OpeningCommand

(* A tick whose rows come from update_states and whose active buffer gains  *)
(* nothing but the request whose row is being opened keeps the invariant.   *)
LEMMA RowTick ==
  ASSUME TypeOK, TypeOK', RowInv, NEW ready, NEW refresh \in BOOLEAN,
         TimingOK(ready, refresh),
         NEW q \in schedule_request(ready, refresh), ~IsBarrier(q),
         m_row_state' = update_states(m_row_state, command(q), q),
         \/ buffer'["active"] \subseteq buffer["active"]
         \/ MovesToActive(q) /\ buffer'["active"] \subseteq buffer["active"] \cup {q}
  PROVE  RowInv'
<1>1. q \in Request
  BY Scheduled
<1>2. \A a \in buffer["active"] : a \in Request /\ a.bank \in Banks
  BY AccessCommand DEF TypeOK, BufferName
<1>3. OneRowPerBank'
  <2>1. \A b \in Banks : m_row_state'[b] \subseteq m_row_state[b] \/ m_row_state'[b] \subseteq {q.row}
    BY <1>1, OpeningCommand DEF update_states, RowInv, OneRowPerBank
  <2> QED BY <2>1 DEF RowInv, OneRowPerBank
<1>4. ASSUME MovesToActive(q) PROVE command(q) = "ACT" /\ q.type \in {"Read", "Write"}
  BY <1>1, <1>4, OnlyAccessesMove, AccessCommand DEF MovesToActive, is_opening
<1>5. ASSUME NEW a \in buffer'["active"]
      PROVE  a \in buffer["active"] \/ (a = q /\ command(q) = "ACT" /\ q.type # "AIM")
  BY <1>4
<1>6. OneActivePerBank'
  <2> SUFFICES ASSUME NEW p \in buffer'["active"], NEW r \in buffer'["active"], p.bank = r.bank
               PROVE  p = r
    BY DEF OneActivePerBank
  <2>1. CASE p \in buffer["active"] /\ r \in buffer["active"]
    BY <2>1 DEF RowInv, OneActivePerBank
  <2>2. CASE p = q /\ r \in buffer["active"] /\ command(q) = "ACT"
    BY <2>2, ActIsForTheActive
  <2>3. CASE r = q /\ p \in buffer["active"] /\ command(q) = "ACT"
    BY <2>3, ActIsForTheActive
  <2> QED BY <1>5, <2>1, <2>2, <2>3
<1>7. ActiveRowKept'
  <2> SUFFICES ASSUME NEW a \in buffer'["active"]
               PROVE  m_row_state'[a.bank] \subseteq {a.row}
    BY DEF ActiveRowKept
  <2>1. a.bank \in Banks
    BY <1>1, <1>2, <1>4, <1>5, OpeningCommand
  <2>2. a \in buffer["active"] => m_row_state[a.bank] \subseteq {a.row}
    BY DEF RowInv, ActiveRowKept
  <2>3. CASE command(q) = "ACT"
    <3>1. CASE a.bank = q.bank
      <4>1. a = q
        BY <1>5, <2>3, <3>1, ActIsForTheActive
      <4> QED BY <1>1, <2>1, <2>3, <4>1, OpeningCommand DEF update_states
    <3>2. CASE a.bank # q.bank
      BY <1>5, <2>1, <2>2, <2>3, <3>2 DEF update_states
    <3> QED BY <3>1, <3>2
  <2>4. CASE command(q) = "ACT16"
    <3>1. a \in buffer["active"]
      BY <1>5, <2>4
    <3>2. m_row_state[a.bank] # {}
      BY <2>4, <3>1, Act16FindsActiveRowsOpen
    <3>3. q.row \in m_row_state[a.bank]
      BY <1>1, <2>1, <2>4, <3>2, OpeningCommand
    <3> QED BY <2>1, <2>2, <2>4, <3>1, <3>3 DEF update_states
  <2>5. CASE command(q) \notin {"ACT", "ACT16"}
    <3>1. m_row_state'[a.bank] \subseteq m_row_state[a.bank]
      BY <2>1, <2>5 DEF update_states
    <3> QED BY <1>5, <2>2, <2>5, <3>1
  <2> QED BY <2>3, <2>4, <2>5
<1> QED BY <1>3, <1>6, <1>7 DEF RowInv

(* Every action keeps the invariant.                                        *)
LEMMA RowStep ==
  ASSUME TypeOK, TypeOK', RowInv, [Next]_vars
  PROVE  RowInv'
<1>1. ASSUME m_row_state' = m_row_state, buffer'["active"] \subseteq buffer["active"]
      PROVE  RowInv'
  BY <1>1 DEF RowInv, OneRowPerBank, OneActivePerBank, ActiveRowKept
<1>2. CASE UNCHANGED vars
  BY <1>1, <1>2 DEF vars
<1>3. ASSUME NEW t \in Inputs, send(t)
      PROVE  RowInv'
  <2>1. BufferOf(t) # "active"
    BY NewRequestType DEF BufferOf
  <2>2. buffer'["active"] = buffer["active"] /\ m_row_state' = m_row_state
    BY <1>3, <2>1 DEF send, TypeOK, BufferName
  <2> QED BY <1>1, <2>2
<1>4. ASSUME NEW departs \in BOOLEAN, NEW wdone \in SUBSET pending_writes,
             NEW refresh \in BOOLEAN, NEW ready \in SUBSET WaitingKeys(refresh),
             \/ TickIdle(departs, wdone, ready, refresh)
             \/ TickBarrier(departs, wdone, ready, refresh)
             \/ TickMode(departs, wdone, ready, refresh)
             \/ TickFinal(departs, wdone, ready, refresh)
             \/ TickPrepare(departs, wdone, ready, refresh)
      PROVE  RowInv'
  <2> DEFINE bufs == Refreshed(refresh)
             sb   == ServedBuffer(ready, refresh)
  <2>1. TimingOK(ready, refresh)
    BY <1>4 DEF TickIdle, TickBarrier, TickMode, TickFinal, TickPrepare, TickCommon
  <2>2. bufs \in [BufferName -> SUBSET Request] /\ bufs["active"] = buffer["active"]
    BY RefreshedType DEF BufferName
  <2>3. CASE \/ TickIdle(departs, wdone, ready, refresh)
             \/ TickBarrier(departs, wdone, ready, refresh)
             \/ TickMode(departs, wdone, ready, refresh)
    <3>1. m_row_state' = m_row_state
      BY <2>3 DEF TickIdle, TickBarrier, TickMode
    <3>2. buffer'["active"] \subseteq buffer["active"]
      BY <2>2, <2>3 DEF TickIdle, TickBarrier, TickMode, BufferName
    <3> QED BY <1>1, <3>1, <3>2
  <2>4. CASE TickFinal(departs, wdone, ready, refresh)
    <3>1. PICK q \in schedule_request(ready, refresh) :
            /\ ~IsBarrier(q)
            /\ m_row_state' = update_states(m_row_state, command(q), q)
            /\ buffer' = [bufs EXCEPT ![sb] = @ \ {q}]
      BY <2>4 DEF TickFinal
    <3>2. buffer'["active"] \subseteq buffer["active"]
      BY <2>2, <3>1 DEF BufferName
    <3> QED BY <2>1, <3>1, <3>2, RowTick
  <2>5. CASE TickPrepare(departs, wdone, ready, refresh)
    <3>1. PICK q \in schedule_request(ready, refresh) :
            /\ ~IsBarrier(q)
            /\ m_row_state' = update_states(m_row_state, command(q), q)
            /\ buffer' = IF MovesToActive(q) THEN MovedToActive(bufs, sb, q) ELSE bufs
      BY <2>5 DEF TickPrepare
    <3>2. sb \in BufferName /\ q \in bufs[sb]
      BY Scheduled
    <3>3. \/ buffer'["active"] \subseteq buffer["active"]
          \/ MovesToActive(q) /\ buffer'["active"] \subseteq buffer["active"] \cup {q}
      <4> HIDE DEF bufs, sb
      <4> QED BY <2>2, <3>1, <3>2, MovedToActiveType
    <3> QED BY <2>1, <3>1, <3>3, RowTick
  <2> QED BY <1>4, <2>3, <2>4, <2>5
<1> QED BY <1>2, <1>3, <1>4 DEF Next, tick

(* The inductive invariant holds of every controller.                       *)
THEOREM RowInvariant == Spec => [](TypeOK /\ RowInv)
<1>1. Init => RowInv
  BY DEF Init, RowInv, OneRowPerBank, OneActivePerBank, ActiveRowKept, BufferName
<1>2. TypeOK /\ RowInv /\ TypeOK' /\ [Next]_vars => RowInv'
  BY RowStep
<1> QED BY <1>1, <1>2, TypeCorrect, PTL DEF Spec

(* No bank ever has two rows open, although ACT16 opens rows without a      *)
(* check and both kinds of request activate on their own.                   *)
THEOREM OneRow == Spec => []OneRowPerBank
BY RowInvariant, PTL DEF RowInv

(* The active buffer never holds two requests for one bank.                 *)
THEOREM OneActive == Spec => []OneActivePerBank
BY RowInvariant, PTL DEF RowInv

(* The open row of a bank with an active request is that request's: neither *)
(* ACT16 nor a PREA ever moves a row away under it to another one.          *)
THEOREM RowKept == Spec => []ActiveRowKept
BY RowInvariant, PTL DEF RowInv

(* No request of the active buffer is ever withheld because of itself.      *)
THEOREM NoSelfBlocking == Spec => []ActiveNeverBlocksItself
<1>1. TypeOK /\ RowInv => ActiveNeverBlocksItself
  <2> SUFFICES ASSUME TypeOK, RowInv, NEW q \in buffer["active"]
               PROVE  ~is_closing(command(q))
    BY DEF ActiveNeverBlocksItself, ClosesActiveRow
  <2>1. q \in Request /\ q.type \in {"Read", "Write"}
    BY DEF TypeOK, BufferName
  <2>2. m_row_state[q.bank] \subseteq {q.row}
    BY DEF RowInv, ActiveRowKept
  <2>3. command(q) \in {"ACT", "RD", "WR"}
    BY <2>1, <2>2, AccessCommand
  <2> QED BY <2>3 DEF is_closing
<1> QED BY <1>1, RowInvariant, PTL

(* With one active request per bank, the active buffer is no larger than    *)
(* the number of banks.                                                     *)
LEMMA ActiveHasRoom ==
  ASSUME TypeOK, RowInv
  PROVE  HasRoom(buffer["active"])
<1> DEFINE S == buffer["active"]
           bankOf == [q \in S |-> q.bank]
<1>1. \A q \in S : q.bank \in Banks
  BY AccessCommand DEF TypeOK, BufferName
<1>2. bankOf \in Injection(S, Banks)
  BY <1>1 DEF Injection, IsInjective, RowInv, OneActivePerBank
<1>3. IsFiniteSet(Banks) /\ Cardinality(Banks) <= max_size /\ max_size \in Nat
  BY ControllerAssumption
<1>4. IsFiniteSet(S) /\ Cardinality(S) <= Cardinality(Banks)
  <2> HIDE DEF bankOf
  <2> QED BY <1>2, <1>3, FS_Injection
<1>5. Cardinality(S) \in Nat /\ Cardinality(Banks) \in Nat
  BY <1>3, <1>4, FS_CardinalityType
<1> QED BY <1>3, <1>4, <1>5 DEF HasRoom

(* The active buffer always has room for one more request, so the enqueue   *)
(* whose result tick() ignores never fails.                                 *)
THEOREM ActiveNeverFull == Spec => []HasRoom(buffer["active"])
BY ActiveHasRoom, RowInvariant, PTL

-----------------------------------------------------------------------------
(* Where requests go: none is lost or doubled, AiM requests are issued in   *)
(* order, barriers wait for what went before them, and the AiM DMA's view   *)
(* of the channel is AiMChannel's.                                          *)

-----------------------------------------------------------------------------
(* The inductive invariant of the requests *)

(* The places of a request, as Places names them, and what each holds.      *)
PlaceName == BufferName \cup {"pending_reads", "pending_writes", "served"}

Held == [x \in PlaceName |->
           CASE x = "pending_reads"  -> InPendingReads
             [] x = "pending_writes" -> pending_writes
             [] x = "served"         -> served
             [] OTHER                -> buffer[x]]

(* Every id up to n is held in one place, by one request.                   *)
Placed(H, n) ==
  /\ \A x \in PlaceName : \A q \in H[x] : q.id \in 1 .. n
  /\ \A x, y \in PlaceName : \A q \in H[x], p \in H[y] : q.id = p.id => x = y /\ q = p
  /\ \A i \in 1 .. n : \E x \in PlaceName : \E q \in H[x] : q.id = i

(* pending_reads holds no request twice.                                    *)
PendingOnce ==
  \A i, j \in DOMAIN pending_reads :
    pending_reads[i].req = pending_reads[j].req => i = j

(* AiM requests wait in the AiM buffer only, and only they have an opcode.  *)
Conventional(q) == q.type # "AIM" /\ q.opcode = "MIN"

KindInv ==
  /\ \A b \in BufferName : b # "aim" => \A q \in buffer[b] : Conventional(q)
  /\ \A q \in InPendingReads : q.type = "AIM" \/ Conventional(q)
  /\ \A q \in pending_writes : ~is_reader(q)

(* While an AiM request waits, no conventional one waits to be activated.   *)
Exclusive == buffer["aim"] # {} => buffer["read"] = {} /\ buffer["write"] = {}

(* An issued request is on its way, and AiM requests are on their way only  *)
(* once they have been issued.                                              *)
IssuedInv ==
  /\ issued \subseteq InPendingReads \cup pending_writes \cup served
  /\ \A q \in InPendingReads : q.type = "AIM" => q \in issued

(* An issued AiM request is older than all that waits outside the active    *)
(* buffer, and those in pending_reads are in order of age.                  *)
OrderInv ==
  /\ \A q \in issued : q.type = "AIM" =>
       \A b \in BufferName : b # "active" => \A p \in buffer[b] : q.id < p.id
  /\ \A i, j \in DOMAIN pending_reads :
       /\ i < j
       /\ pending_reads[i].req.type = "AIM"
       /\ pending_reads[j].req.type = "AIM"
       => pending_reads[i].req.id < pending_reads[j].req.id

DeliveryInv ==
  /\ Placed(Held, arrived)
  /\ PendingOnce
  /\ KindInv
  /\ Exclusive
  /\ IssuedInv
  /\ OrderInv

-----------------------------------------------------------------------------
(* Moving requests between places *)

(* The requests of S move from place x to place y.                          *)
Moves(H, G, S, x, y) ==
  /\ x \in PlaceName /\ y \in PlaceName /\ x # y
  /\ S \subseteq H[x]
  /\ G[x] = H[x] \ S /\ G[y] = H[y] \cup S
  /\ \A z \in PlaceName : z # x /\ z # y => G[z] = H[z]

(* The request r arrives at place y.                                        *)
Arrives(H, G, r, y) ==
  /\ y \in PlaceName
  /\ G[y] = H[y] \cup {r}
  /\ \A z \in PlaceName : z # y => G[z] = H[z]

(* Requests that move from one place to another stay placed.                *)
LEMMA MovePlaced ==
  ASSUME NEW H, NEW G, NEW n \in Nat, NEW S, NEW x, NEW y,
         Placed(H, n), Moves(H, G, S, x, y)
  PROVE  Placed(G, n)
<1> USE DEF Moves
<1>1. \A z \in PlaceName : \A q \in G[z] : (z = y /\ q \in S) \/ q \in H[z]
  OBVIOUS
<1>2. \A z \in PlaceName : \A q \in G[z] : q.id \in 1 .. n
  BY <1>1 DEF Placed
<1>3. ASSUME NEW u \in PlaceName, NEW v \in PlaceName, NEW q \in G[u], NEW p \in G[v], q.id = p.id
      PROVE  u = v /\ q = p
  <2>1. CASE u = y /\ v = y
    BY <1>1, <1>3, <2>1 DEF Placed
  <2>2. CASE u = y /\ v # y
    BY <1>1, <1>3, <2>2 DEF Placed
  <2>3. CASE u # y /\ v = y
    BY <1>1, <1>3, <2>3 DEF Placed
  <2>4. CASE u # y /\ v # y
    BY <1>1, <1>3, <2>4 DEF Placed
  <2> QED BY <2>1, <2>2, <2>3, <2>4
<1>4. ASSUME NEW i \in 1 .. n
      PROVE  \E z \in PlaceName : \E q \in G[z] : q.id = i
  <2>1. PICK z \in PlaceName : \E q \in H[z] : q.id = i
    BY DEF Placed
  <2>2. PICK q \in H[z] : q.id = i
    BY <2>1
  <2>3. q \in G[z] \/ q \in G[y]
    OBVIOUS
  <2> QED BY <2>2, <2>3
<1> QED BY <1>2, <1>3, <1>4 DEF Placed

(* A request with the next id stays placed wherever it arrives.             *)
LEMMA ArrivePlaced ==
  ASSUME NEW H, NEW G, NEW n \in Nat, NEW r, NEW y,
         Placed(H, n), Arrives(H, G, r, y), r.id = n + 1
  PROVE  Placed(G, n + 1)
<1> USE DEF Arrives
<1>1. \A z \in PlaceName : \A q \in G[z] : (z = y /\ q = r) \/ (q \in H[z] /\ q.id \in 1 .. n)
  BY DEF Placed
<1>2. \A z \in PlaceName : \A q \in G[z] : q.id \in 1 .. (n + 1)
  BY <1>1
<1>3. ASSUME NEW u \in PlaceName, NEW v \in PlaceName, NEW q \in G[u], NEW p \in G[v], q.id = p.id
      PROVE  u = v /\ q = p
  <2>1. CASE q.id = n + 1
    <3>1. \A z \in PlaceName : \A s \in G[z] : s.id = n + 1 => z = y /\ s = r
      <4>1. \A i \in 1 .. n : i # n + 1
        OBVIOUS
      <4> QED BY <1>1, <4>1
    <3> QED BY <1>3, <2>1, <3>1
  <2>2. CASE q.id # n + 1
    BY <1>1, <1>3, <2>2 DEF Placed
  <2> QED BY <2>1, <2>2
<1>4. ASSUME NEW i \in 1 .. (n + 1)
      PROVE  \E z \in PlaceName : \E q \in G[z] : q.id = i
  <2>1. CASE i = n + 1
    BY <2>1
  <2>2. CASE i \in 1 .. n
    <3>1. PICK z \in PlaceName : \E q \in H[z] : q.id = i
      BY <2>2 DEF Placed
    <3>2. \A q \in H[z] : q \in G[z]
      OBVIOUS
    <3> QED BY <3>1, <3>2
  <2> QED BY <2>1, <2>2
<1> QED BY <1>2, <1>3, <1>4 DEF Placed

-----------------------------------------------------------------------------
(* The shapes of a tick *)

(* The tick leaves the requests it found in the buffers where they are.     *)
Stays(departs, wdone, refresh) ==
  /\ buffer' = Refreshed(refresh)
  /\ pending_reads' = ReadsLeft(departs)
  /\ pending_writes' = pending_writes \ wdone
  /\ issued' = issued

(* The tick issues q of buffer b.                                           *)
Issues(q, b, departs, wdone, refresh) ==
  /\ q \in Refreshed(refresh)[b]
  /\ b = "aim" => q \in Oldest(buffer["aim"]) /\ Refreshed(refresh)["priority"] = {}
  /\ buffer' = [Refreshed(refresh) EXCEPT ![b] = @ \ {q}]
  /\ issued' = issued \cup {q}
  /\ \/ /\ is_reader(q)
        /\ \E n \in BOOLEAN : pending_reads' = Append(ReadsLeft(departs), [req |-> q, now |-> n])
        /\ pending_writes' = pending_writes \ wdone
     \/ /\ ~is_reader(q)
        /\ pending_reads' = ReadsLeft(departs)
        /\ pending_writes' = (pending_writes \ wdone) \cup {q}

(* The tick moves q of buffer b to the active buffer.                       *)
Activates(q, b, departs, wdone, refresh) ==
  /\ q \in Refreshed(refresh)[b] /\ q.type \in {"Read", "Write"}
  /\ b # "active"
  /\ buffer' = [Refreshed(refresh) EXCEPT ![b] = @ \ {q}, !["active"] = @ \cup {q}]
  /\ pending_reads' = ReadsLeft(departs)
  /\ pending_writes' = pending_writes \ wdone
  /\ issued' = issued

(* A tick that serves the AiM buffer found no refresh waiting, and the      *)
(* request that it chose is the oldest.                                     *)
LEMMA AiMServed ==
  ASSUME NEW ready, NEW refresh \in BOOLEAN, NEW q \in schedule_request(ready, refresh),
         ServedBuffer(ready, refresh) = "aim"
  PROVE  q \in Oldest(buffer["aim"]) /\ Refreshed(refresh)["priority"] = {}
<1>1. Refreshed(refresh)["priority"] = {}
  BY DEF ServedBuffer
<1>2. q \in Oldest(Refreshed(refresh)["aim"])
  BY DEF schedule_request, Candidates
<1>3. Refreshed(refresh)["aim"] = buffer["aim"]
  BY DEF Refreshed
<1> QED BY <1>1, <1>2, <1>3

(* An active request does not move when its row is opened again, and any    *)
(* other request finds room in the active buffer.                           *)
LEMMA PrepareShape ==
  ASSUME TypeOK, RowInv, NEW departs \in BOOLEAN, NEW wdone \in SUBSET pending_writes,
         NEW refresh \in BOOLEAN, NEW ready,
         TickPrepare(departs, wdone, ready, refresh)
  PROVE  \/ Stays(departs, wdone, refresh)
         \/ \E b \in BufferName, q \in Request : Activates(q, b, departs, wdone, refresh)
<1> DEFINE bufs == Refreshed(refresh)
           sb   == ServedBuffer(ready, refresh)
<1>1. PICK q \in schedule_request(ready, refresh) :
        /\ buffer' = IF MovesToActive(q) THEN MovedToActive(bufs, sb, q) ELSE bufs
        /\ pending_reads' = ReadsLeft(departs)
        /\ pending_writes' = pending_writes \ wdone
        /\ issued' = issued
  BY DEF TickPrepare
<1>2. /\ bufs \in [BufferName -> SUBSET Request]
      /\ bufs["active"] = buffer["active"]
  BY RefreshedType DEF BufferName
<1>3. sb \in BufferName /\ q \in bufs[sb] /\ q \in Request
  BY Scheduled
<1>4. HasRoom(bufs["active"])
  BY <1>2, ActiveHasRoom
<1>5. CASE ~MovesToActive(q)
  BY <1>1, <1>5 DEF Stays
<1>6. CASE MovesToActive(q)
  <2>1. q.type \in {"Read", "Write"}
    BY <1>3, <1>6, OnlyAccessesMove
  <2>2. buffer' = [bufs EXCEPT ![sb] = @ \ {q}, !["active"] = @ \cup {q}]
    BY <1>1, <1>4, <1>6, <1>2, <1>3 DEF MovedToActive, BufferName
  <2>3. CASE sb = "active"
    <3> HIDE DEF bufs, sb
    <3>1. buffer' = [bufs EXCEPT !["active"] = (@ \ {q}) \cup {q}]
      BY <1>2, <2>2, <2>3
    <3>2. (bufs["active"] \ {q}) \cup {q} = bufs["active"]
      BY <1>3, <2>3
    <3>3. buffer' = bufs
      BY <1>2, <3>1, <3>2
    <3> QED BY <1>1, <3>3 DEF Stays, bufs
  <2>4. CASE sb # "active"
    BY <1>1, <1>3, <2>1, <2>2, <2>4 DEF Activates
  <2> QED BY <2>3, <2>4
<1> QED BY <1>5, <1>6

(* A tick, with the choices it makes.                                       *)
TickBy(departs, wdone, ready, refresh) ==
  \/ TickIdle(departs, wdone, ready, refresh)
  \/ TickBarrier(departs, wdone, ready, refresh)
  \/ TickMode(departs, wdone, ready, refresh)
  \/ TickFinal(departs, wdone, ready, refresh)
  \/ TickPrepare(departs, wdone, ready, refresh)

(* What every tick does to the requests: at most one of them is issued or   *)
(* moved to the active buffer.                                              *)
LEMMA TickShape ==
  ASSUME TypeOK, RowInv, KindInv, NEW departs \in BOOLEAN, NEW wdone \in SUBSET pending_writes,
         NEW refresh \in BOOLEAN, NEW ready, TickBy(departs, wdone, ready, refresh)
  PROVE  /\ TickCommon(departs, wdone, ready, refresh)
         /\ \/ Stays(departs, wdone, refresh)
            \/ \E b \in BufferName, q \in Request : Issues(q, b, departs, wdone, refresh)
            \/ \E b \in BufferName, q \in Request : Activates(q, b, departs, wdone, refresh)
<1> DEFINE sb == ServedBuffer(ready, refresh)
<1>1. TickCommon(departs, wdone, ready, refresh)
  BY DEF TickBy, TickIdle, TickBarrier, TickMode, TickFinal, TickPrepare
<1>2. CASE TickIdle(departs, wdone, ready, refresh) \/ TickMode(departs, wdone, ready, refresh)
  <2>1. Stays(departs, wdone, refresh)
    BY <1>2 DEF Stays, TickIdle, TickMode
  <2> QED BY <1>1, <2>1
<1>3. CASE TickBarrier(departs, wdone, ready, refresh)
  <2>1. PICK q \in schedule_request(ready, refresh) :
          /\ IsBarrier(q)
          /\ buffer' = [Refreshed(refresh) EXCEPT !["aim"] = @ \ {q}]
          /\ pending_reads' = Append(ReadsLeft(departs), [req |-> q, now |-> TRUE])
          /\ pending_writes' = pending_writes \ wdone
          /\ issued' = issued \cup {q}
    BY <1>3 DEF TickBarrier
  <2>2. sb \in BufferName /\ q \in Refreshed(refresh)[sb] /\ q \in Request
    BY Scheduled
  <2>3. q.opcode # "MIN"
    BY <2>1 DEF IsBarrier, BarrierOpcodes
  <2>4. \A b \in BufferName : b # "aim" => \A p \in Refreshed(refresh)[b] : p.opcode = "MIN"
    BY DEF Refreshed, RefreshRequest, KindInv, Conventional, TypeOK, BufferName
  <2>5. sb = "aim"
    BY <2>2, <2>3, <2>4
  <2>6. q.type = "AIM"
    BY <2>2, <2>5, RefreshedType DEF TypeOK, BufferName
  <2>7. is_reader(q)
    BY <2>1, <2>6 DEF is_reader, IsBarrier, BarrierOpcodes, AiM_DMA_blocking
  <2>8. q \in Oldest(buffer["aim"]) /\ Refreshed(refresh)["priority"] = {}
    BY <2>5, AiMServed
  <2>9. Issues(q, "aim", departs, wdone, refresh)
    BY <2>1, <2>2, <2>5, <2>7, <2>8 DEF Issues
  <2> QED BY <1>1, <2>2, <2>5, <2>9
<1>4. CASE TickFinal(departs, wdone, ready, refresh)
  <2>1. PICK q \in schedule_request(ready, refresh) :
          /\ buffer' = [Refreshed(refresh) EXCEPT ![sb] = @ \ {q}]
          /\ pending_reads' = IF is_reader(q)
                                THEN Append(ReadsLeft(departs), [req |-> q, now |-> FALSE])
                                ELSE ReadsLeft(departs)
          /\ pending_writes' = (pending_writes \ wdone) \cup (IF is_reader(q) THEN {} ELSE {q})
          /\ issued' = issued \cup {q}
    BY <1>4 DEF TickFinal
  <2>2. sb \in BufferName /\ q \in Refreshed(refresh)[sb] /\ q \in Request
    BY Scheduled
  <2>3. sb = "aim" => q \in Oldest(buffer["aim"]) /\ Refreshed(refresh)["priority"] = {}
    BY AiMServed
  <2>4. Issues(q, sb, departs, wdone, refresh)
    <3> HIDE DEF sb
    <3>1. CASE is_reader(q)
      BY <2>1, <2>2, <2>3, <3>1 DEF Issues
    <3>2. CASE ~is_reader(q)
      BY <2>1, <2>2, <2>3, <3>2 DEF Issues
    <3> QED BY <3>1, <3>2
  <2> QED BY <1>1, <2>2, <2>4
<1>5. CASE TickPrepare(departs, wdone, ready, refresh)
  BY <1>1, <1>5, PrepareShape
<1> QED BY <1>2, <1>3, <1>4, <1>5 DEF TickBy

-----------------------------------------------------------------------------
(* What serve_completed_reqs and the refresh manager do to the places *)

Reqs(s) == {s[i].req : i \in DOMAIN s}

(* Appending a pending read adds its request.                               *)
LEMMA AppendReqs ==
  ASSUME NEW R, NEW s \in Seq(R), NEW e \in R
  PROVE  /\ Reqs(Append(s, e)) = Reqs(s) \cup {e.req}
         /\ Len(Append(s, e)) = Len(s) + 1
         /\ \A i \in 1 .. Len(s) : Append(s, e)[i] = s[i]
         /\ Append(s, e)[Len(s) + 1] = e
<1>1. /\ Append(s, e) \in Seq(R)
      /\ Len(Append(s, e)) = Len(s) + 1
      /\ DOMAIN Append(s, e) = 1 .. (Len(s) + 1)
      /\ \A i \in 1 .. Len(s) : Append(s, e)[i] = s[i]
      /\ Append(s, e)[Len(s) + 1] = e
      /\ Len(s) \in Nat /\ DOMAIN s = 1 .. Len(s)
  OBVIOUS
<1>2. DOMAIN Append(s, e) = DOMAIN s \cup {Len(s) + 1}
  BY <1>1
<1>3. Reqs(Append(s, e)) \subseteq Reqs(s) \cup {e.req}
  BY <1>1, <1>2 DEF Reqs
<1>4. Reqs(s) \subseteq Reqs(Append(s, e)) /\ e.req \in Reqs(Append(s, e))
  BY <1>1, <1>2 DEF Reqs
<1> QED BY <1>1, <1>3, <1>4

(* Serving the head takes its request out of pending_reads, and no other.   *)
LEMMA LeftReqs ==
  ASSUME TypeOK, PendingOnce, NEW departs
  PROVE  /\ HeadServed(departs) =>
              /\ Head(pending_reads).req = pending_reads[1].req
              /\ Head(pending_reads).req \in InPendingReads
              /\ Reqs(ReadsLeft(departs)) = InPendingReads \ {Head(pending_reads).req}
         /\ ~HeadServed(departs) => Reqs(ReadsLeft(departs)) = InPendingReads
         /\ \E k \in {0, 1} :
              /\ DOMAIN ReadsLeft(departs) = 1 .. (Len(pending_reads) - k)
              /\ \A i \in DOMAIN ReadsLeft(departs) :
                   /\ i + k \in DOMAIN pending_reads
                   /\ ReadsLeft(departs)[i] = pending_reads[i + k]
<1> DEFINE R == [req : Request, now : BOOLEAN]
<1>1. pending_reads \in Seq(R)
  BY DEF TypeOK
<1> HIDE DEF R
<1>2. CASE ~HeadServed(departs)
  <2>1. Reqs(ReadsLeft(departs)) = InPendingReads
    BY <1>2 DEF Reqs, ReadsLeft, InPendingReads
  <2>2. /\ DOMAIN ReadsLeft(departs) = 1 .. (Len(pending_reads) - 0)
        /\ \A i \in DOMAIN ReadsLeft(departs) :
                   /\ i + 0 \in DOMAIN pending_reads
                   /\ ReadsLeft(departs)[i] = pending_reads[i + 0]
    BY <1>1, <1>2, SMTT(30) DEF ReadsLeft
  <2> QED BY <1>2, <2>1, <2>2
<1>3. CASE HeadServed(departs)
  <2>1. pending_reads # <<>>
    BY <1>3 DEF HeadServed
  <2>2. /\ Len(pending_reads) \in Nat \ {0} /\ DOMAIN pending_reads = 1 .. Len(pending_reads)
        /\ Head(pending_reads) = pending_reads[1]
        /\ Len(Tail(pending_reads)) = Len(pending_reads) - 1
        /\ DOMAIN Tail(pending_reads) = 1 .. (Len(pending_reads) - 1)
        /\ \A i \in 1 .. (Len(pending_reads) - 1) : Tail(pending_reads)[i] = pending_reads[i + 1]
    BY <1>1, <2>1
  <2>3. /\ DOMAIN ReadsLeft(departs) = 1 .. (Len(pending_reads) - 1)
        /\ \A i \in DOMAIN ReadsLeft(departs) :
                   /\ i + 1 \in DOMAIN pending_reads
                   /\ ReadsLeft(departs)[i] = pending_reads[i + 1]
    BY <1>3, <2>2 DEF ReadsLeft
  <2>4. 1 \in DOMAIN pending_reads /\ pending_reads[1].req \in InPendingReads
    BY <2>2 DEF InPendingReads
  <2>5. Reqs(ReadsLeft(departs)) \subseteq InPendingReads \ {pending_reads[1].req}
    BY <2>2, <2>3, <2>4 DEF Reqs, InPendingReads, PendingOnce
  <2>6. ASSUME NEW q \in InPendingReads, q # pending_reads[1].req
        PROVE  q \in Reqs(ReadsLeft(departs))
    <3>1. PICK j \in DOMAIN pending_reads : q = pending_reads[j].req
      BY DEF InPendingReads
    <3>2. j # 1 /\ j - 1 \in 1 .. (Len(pending_reads) - 1) /\ (j - 1) + 1 = j
      BY <2>2, <2>6, <3>1
    <3> QED BY <2>3, <3>1, <3>2 DEF Reqs
  <2> QED BY <1>3, <2>2, <2>3, <2>4, <2>5, <2>6
<1> QED BY <1>2, <1>3

(* The places once the tick has served what departs and refreshed.          *)
HeldMid(departs, wdone, refresh) ==
  [x \in PlaceName |->
     CASE x = "pending_reads"  -> Reqs(ReadsLeft(departs))
       [] x = "pending_writes" -> pending_writes \ wdone
       [] x = "served"         -> served \cup ServedNow(departs, wdone)
       [] OTHER                -> Refreshed(refresh)[x]]

ArrivedMid(refresh) == IF refresh THEN arrived + 1 ELSE arrived

(* Serving and refreshing keep every request in one place.                  *)
LEMMA MidPlaced ==
  ASSUME TypeOK, PendingOnce, Placed(Held, arrived),
         NEW departs \in BOOLEAN, NEW wdone \in SUBSET pending_writes, NEW refresh \in BOOLEAN
  PROVE  Placed(HeldMid(departs, wdone, refresh), ArrivedMid(refresh))
<1> DEFINE H1 == [Held EXCEPT !["pending_writes"] = @ \ wdone, !["served"] = @ \cup wdone]
           H2 == [H1 EXCEPT !["pending_reads"] = Reqs(ReadsLeft(departs)),
                            !["served"] = served \cup ServedNow(departs, wdone)]
           M  == HeldMid(departs, wdone, refresh)
<1>1. /\ "pending_writes" \in PlaceName /\ "served" \in PlaceName
      /\ "pending_reads" \in PlaceName /\ "priority" \in PlaceName
      /\ arrived \in Nat
  BY DEF PlaceName, BufferName, TypeOK
<1>2. Placed(H1, arrived)
  <2>1. wdone \in SUBSET Held["pending_writes"]
    BY <1>1 DEF Held
  <2>2. /\ H1["pending_writes"] = Held["pending_writes"] \ wdone
        /\ H1["served"] = Held["served"] \cup wdone
        /\ \A z \in PlaceName : z # "pending_writes" /\ z # "served" => H1[z] = Held[z]
    BY <1>1 DEF Held
  <2> HIDE DEF H1
  <2>3. Moves(Held, H1, wdone, "pending_writes", "served")
    BY <1>1, <2>1, <2>2 DEF Moves
  <2> QED BY <1>1, <2>3, MovePlaced
<1>3. Placed(H2, arrived)
  <2>1. /\ H1["pending_reads"] = InPendingReads
        /\ H1["served"] = served \cup wdone
        /\ H2["pending_reads"] = Reqs(ReadsLeft(departs))
        /\ H2["served"] = served \cup ServedNow(departs, wdone)
        /\ \A z \in PlaceName : z # "pending_reads" /\ z # "served" => H2[z] = H1[z]
    BY <1>1 DEF Held
  <2> DEFINE D == IF HeadServed(departs) THEN {Head(pending_reads).req} ELSE {}
  <2>2. /\ D \in SUBSET H1["pending_reads"]
        /\ H2["pending_reads"] = H1["pending_reads"] \ D
        /\ H2["served"] = H1["served"] \cup D
    BY <2>1, LeftReqs DEF ServedNow
  <2> HIDE DEF H1, H2, D
  <2>3. Moves(H1, H2, D, "pending_reads", "served")
    BY <1>1, <2>1, <2>2 DEF Moves
  <2> QED BY <1>1, <1>2, <2>3, MovePlaced
<1>4. /\ \A z \in PlaceName : z # "priority" => M[z] = H2[z]
      /\ M["priority"] = Refreshed(refresh)["priority"]
      /\ H2["priority"] = buffer["priority"]
  <2>1. \A b \in BufferName : b # "priority" => Refreshed(refresh)[b] = buffer[b]
    BY RefreshedType
  <2>2. \A b \in BufferName : b \notin {"pending_reads", "pending_writes", "served"}
    BY DEF BufferName
  <2> QED BY <1>1, <2>1, <2>2 DEF HeldMid, Held, PlaceName
<1> HIDE DEF H1, H2
<1>5. CASE ~refresh
  <2>1. M["priority"] = H2["priority"]
    BY <1>4, <1>5 DEF Refreshed
  <2>2. \A z \in PlaceName : M[z] = H2[z]
    BY <1>4, <2>1
  <2> HIDE DEF M
  <2>3. Placed(M, arrived)
    BY <1>3, <2>2 DEF Placed
  <2> QED BY <1>5, <2>3 DEF M, ArrivedMid
<1>6. CASE refresh
  <2>1. M["priority"] = H2["priority"] \cup {RefreshRequest}
    BY <1>4, <1>6 DEF Refreshed, TypeOK, BufferName
  <2>2. RefreshRequest.id = arrived + 1
    BY DEF RefreshRequest
  <2> HIDE DEF M
  <2>3. Arrives(H2, M, RefreshRequest, "priority")
    BY <1>1, <1>4, <2>1 DEF Arrives
  <2>4. Placed(M, arrived + 1)
    BY <1>1, <1>3, <2>2, <2>3, ArrivePlaced
  <2> QED BY <1>6, <2>4 DEF M, ArrivedMid
<1> QED BY <1>5, <1>6

(* Every place is one of the buffers or one of the three others.            *)
LEMMA HeldAt ==
  /\ \A b \in BufferName : b \in PlaceName /\ Held[b] = buffer[b]
  /\ Held["pending_reads"] = InPendingReads
  /\ Held["pending_writes"] = pending_writes
  /\ Held["served"] = served
  /\ {"pending_reads", "pending_writes", "served"} \subseteq PlaceName
  /\ \A b \in BufferName : b \notin {"pending_reads", "pending_writes", "served"}
BY DEF Held, PlaceName, BufferName

(* The same of the places after serving.                                    *)
LEMMA HeldMidAt ==
  ASSUME NEW departs, NEW wdone, NEW refresh
  PROVE  LET M == HeldMid(departs, wdone, refresh)
         IN  /\ \A b \in BufferName : M[b] = Refreshed(refresh)[b]
             /\ M["pending_reads"] = Reqs(ReadsLeft(departs))
             /\ M["pending_writes"] = pending_writes \ wdone
             /\ M["served"] = served \cup ServedNow(departs, wdone)
BY DEF HeldMid, PlaceName, BufferName

(* A tick keeps every request in one place.                                 *)
LEMMA TickPlaced ==
  ASSUME TypeOK, TypeOK', RowInv, KindInv, PendingOnce, Placed(Held, arrived),
         NEW departs \in BOOLEAN, NEW wdone \in SUBSET pending_writes,
         NEW refresh \in BOOLEAN, NEW ready, TickBy(departs, wdone, ready, refresh)
  PROVE  Placed(Held, arrived)'
<1> DEFINE M == HeldMid(departs, wdone, refresh)
           H == Held'
<1>1. arrived' = ArrivedMid(refresh) /\ served' = M["served"] /\ arrived' \in Nat
  <2>1. TickCommon(departs, wdone, ready, refresh)
    BY TickShape
  <2>2. arrived' \in Nat
    BY <2>1, TickCommonType
  <2>3. served' = M["served"]
    BY <2>1, HeldMidAt DEF TickCommon
  <2>4. arrived' = ArrivedMid(refresh)
    BY <2>1 DEF TickCommon, ArrivedMid
  <2> QED BY <2>2, <2>3, <2>4
<1>2. Placed(M, arrived')
  BY <1>1, MidPlaced
<1>3. /\ \A b \in BufferName : b \in PlaceName /\ H[b] = buffer'[b]
      /\ H["pending_reads"] = Reqs(pending_reads')
      /\ H["pending_writes"] = pending_writes'
      /\ H["served"] = served'
  BY DEF Held, PlaceName, BufferName, InPendingReads, Reqs
<1>4. /\ \A b \in BufferName : M[b] = Refreshed(refresh)[b]
      /\ M["pending_reads"] = Reqs(ReadsLeft(departs))
      /\ M["pending_writes"] = pending_writes \ wdone
  BY HeldMidAt
<1>5. PlaceName = BufferName \cup {"pending_reads", "pending_writes", "served"}
  BY DEF PlaceName
<1>6. Refreshed(refresh) \in [BufferName -> SUBSET Request]
  BY RefreshedType
<1>7. \A b \in BufferName : b # "pending_reads" /\ b # "pending_writes" /\ b # "served"
  BY DEF BufferName
<1> HIDE DEF M, H
<1>8. CASE Stays(departs, wdone, refresh)
  <2>1. \A z \in PlaceName : H[z] = M[z]
    BY <1>1, <1>3, <1>4, <1>5, <1>8 DEF Stays
  <2>2. Placed(H, arrived')
    BY <1>2, <2>1 DEF Placed
  <2> QED BY <2>2 DEF H, Placed, PlaceName, BufferName
<1>9. ASSUME NEW b \in BufferName, NEW q \in Request, Issues(q, b, departs, wdone, refresh)
      PROVE  Placed(H, arrived')
  <2>1. {q} \in SUBSET M[b] /\ H[b] = M[b] \ {q}
    BY <1>3, <1>4, <1>6, <1>9 DEF Issues
  <2>2. \A z \in BufferName : z # b => H[z] = M[z]
    BY <1>3, <1>4, <1>6, <1>9 DEF Issues
  <2>3. CASE is_reader(q)
    <3>1. PICK n \in BOOLEAN : pending_reads' = Append(ReadsLeft(departs), [req |-> q, now |-> n])
      BY <1>9, <2>3 DEF Issues
    <3>2. [req |-> q, now |-> n] \in [req : Request, now : BOOLEAN]
      OBVIOUS
    <3>3. H["pending_reads"] = M["pending_reads"] \cup {q}
      <4> DEFINE R == [req : Request, now : BOOLEAN]
                 e == [req |-> q, now |-> n]
      <4>1. ReadsLeft(departs) \in Seq(R) /\ e \in R
        BY <3>2, ReadsLeftType
      <4>2. Reqs(pending_reads') = Reqs(ReadsLeft(departs)) \cup {e.req}
        <5> HIDE DEF R, e
        <5>1. pending_reads' = Append(ReadsLeft(departs), e)
          BY <3>1 DEF e
        <5> QED BY <4>1, <5>1, AppendReqs
      <4> QED BY <1>3, <1>4, <4>2
    <3>4. H["pending_writes"] = M["pending_writes"]
      BY <1>3, <1>4, <1>9, <2>3 DEF Issues
    <3>5. \A z \in PlaceName : z # b /\ z # "pending_reads" => H[z] = M[z]
      BY <1>1, <1>3, <1>5, <2>2, <3>4
    <3>6. b # "pending_reads" /\ b \in PlaceName /\ "pending_reads" \in PlaceName
      BY <1>3, <1>5, <1>7
    <3>7. Moves(M, H, {q}, b, "pending_reads")
      BY <2>1, <3>3, <3>5, <3>6 DEF Moves
    <3> QED BY <1>1, <1>2, <3>7, MovePlaced
  <2>4. CASE ~is_reader(q)
    <3>1. H["pending_writes"] = M["pending_writes"] \cup {q}
      BY <1>3, <1>4, <1>9, <2>4 DEF Issues
    <3>2. H["pending_reads"] = M["pending_reads"]
      BY <1>3, <1>4, <1>9, <2>4 DEF Issues
    <3>3. \A z \in PlaceName : z # b /\ z # "pending_writes" => H[z] = M[z]
      BY <1>1, <1>3, <1>5, <2>2, <3>2
    <3>4. b # "pending_writes" /\ b \in PlaceName /\ "pending_writes" \in PlaceName
      BY <1>3, <1>5, <1>7
    <3>5. Moves(M, H, {q}, b, "pending_writes")
      BY <2>1, <3>1, <3>3, <3>4 DEF Moves
    <3> QED BY <1>1, <1>2, <3>5, MovePlaced
  <2> QED BY <2>3, <2>4
<1>10. ASSUME NEW b \in BufferName, NEW q \in Request, Activates(q, b, departs, wdone, refresh)
       PROVE  Placed(H, arrived')
  <2>1. /\ {q} \in SUBSET M[b] /\ b # "active" /\ "active" \in BufferName
        /\ H[b] = M[b] \ {q} /\ H["active"] = M["active"] \cup {q}
        /\ \A z \in BufferName : z # b /\ z # "active" => H[z] = M[z]
    BY <1>3, <1>4, <1>6, <1>10 DEF Activates, BufferName
  <2>2. \A z \in PlaceName : z # b /\ z # "active" => H[z] = M[z]
    BY <1>1, <1>3, <1>4, <1>5, <1>10, <2>1 DEF Activates
  <2>3. b \in PlaceName /\ "active" \in PlaceName
    BY <1>5, <2>1
  <2>4. Moves(M, H, {q}, b, "active")
    BY <2>1, <2>2, <2>3 DEF Moves
  <2> QED BY <1>1, <1>2, <2>4, MovePlaced
<1>11. Placed(H, arrived') => Placed(Held, arrived)'
  BY DEF H, Placed, PlaceName, BufferName
<1> QED BY <1>8, <1>9, <1>10, <1>11, TickShape

-----------------------------------------------------------------------------
(* The other parts of the invariant *)

(* The refresh manager's request is a conventional one.                     *)
LEMMA RefreshedKind ==
  ASSUME TypeOK, KindInv, NEW refresh \in BOOLEAN
  PROVE  /\ \A b \in BufferName : b # "aim" => \A q \in Refreshed(refresh)[b] : Conventional(q)
         /\ Refreshed(refresh)["aim"] = buffer["aim"]
         /\ \A q \in buffer["aim"] : q.type = "AIM"
         /\ \A b \in BufferName : \A q \in Refreshed(refresh)[b] :
              q \in buffer[b] \/ q.id = arrived + 1
BY DEF TypeOK, KindInv, Conventional, Refreshed, RefreshRequest, BufferName

(* No buffer but the active one gains a request in a tick that is not the   *)
(* refresh manager's.                                                       *)
LEMMA TickBuffers ==
  ASSUME TypeOK, RowInv, KindInv, NEW departs \in BOOLEAN, NEW wdone \in SUBSET pending_writes,
         NEW refresh \in BOOLEAN, NEW ready, TickBy(departs, wdone, ready, refresh)
  PROVE  /\ \A b \in BufferName : b # "active" => buffer'[b] \subseteq Refreshed(refresh)[b]
         /\ \A q \in buffer'["active"] : Conventional(q)
<1>1. Refreshed(refresh) \in [BufferName -> SUBSET Request] /\ "active" \in BufferName
  BY RefreshedType DEF BufferName
<1>2. \A q \in Refreshed(refresh)["active"] : Conventional(q)
  BY <1>1, RefreshedKind
<1>3. CASE Stays(departs, wdone, refresh)
  BY <1>2, <1>3 DEF Stays
<1>4. ASSUME NEW b \in BufferName, NEW q \in Request, Issues(q, b, departs, wdone, refresh)
      PROVE  \A c \in BufferName : buffer'[c] \subseteq Refreshed(refresh)[c]
  BY <1>1, <1>4 DEF Issues
<1>5. ASSUME NEW b \in BufferName, NEW q \in Request, Activates(q, b, departs, wdone, refresh)
      PROVE  /\ \A c \in BufferName : c # "active" => buffer'[c] \subseteq Refreshed(refresh)[c]
             /\ buffer'["active"] \subseteq Refreshed(refresh)["active"] \cup {q}
             /\ Conventional(q)
  <2>1. b # "aim"
    BY <1>5, RefreshedKind DEF Activates
  <2>2. Conventional(q)
    BY <1>5, <2>1, RefreshedKind DEF Activates
  <2>3. buffer' = [Refreshed(refresh) EXCEPT ![b] = @ \ {q}, !["active"] = @ \cup {q}]
    BY <1>5 DEF Activates
  <2> QED BY <1>1, <2>2, <2>3
<1> QED BY <1>1, <1>2, <1>3, <1>4, <1>5, TickShape

(* pending_reads after a tick: what is left of it and perhaps, at the end,  *)
(* the request that the tick has issued.                                    *)
LEMMA TickReads ==
  ASSUME TypeOK, RowInv, KindInv, NEW departs \in BOOLEAN, NEW wdone \in SUBSET pending_writes,
         NEW refresh \in BOOLEAN, NEW ready, TickBy(departs, wdone, ready, refresh)
  PROVE  \/ /\ pending_reads' = ReadsLeft(departs)
            /\ issued \subseteq issued'
         \/ \E b \in BufferName, q \in Request, n \in BOOLEAN :
              /\ Issues(q, b, departs, wdone, refresh)
              /\ is_reader(q)
              /\ pending_reads' = Append(ReadsLeft(departs), [req |-> q, now |-> n])
<1>1. CASE Stays(departs, wdone, refresh)
  BY <1>1 DEF Stays
<1>2. ASSUME NEW b \in BufferName, NEW q \in Request, Issues(q, b, departs, wdone, refresh)
      PROVE  \/ pending_reads' = ReadsLeft(departs) /\ issued \subseteq issued'
             \/ \E n \in BOOLEAN :
                  /\ is_reader(q)
                  /\ pending_reads' = Append(ReadsLeft(departs), [req |-> q, now |-> n])
  BY <1>2 DEF Issues
<1>3. ASSUME NEW b \in BufferName, NEW q \in Request, Activates(q, b, departs, wdone, refresh)
      PROVE  pending_reads' = ReadsLeft(departs) /\ issued \subseteq issued'
  BY <1>3 DEF Activates
<1> QED BY <1>1, <1>2, <1>3, TickShape

(* Appending keeps the positions before the last one.                       *)
LEMMA AppendRead ==
  ASSUME TypeOK, NEW departs, NEW q \in Request, NEW n \in BOOLEAN
  PROVE  LET left == ReadsLeft(departs)
             new  == Append(left, [req |-> q, now |-> n])
         IN  /\ Len(left) \in Nat /\ DOMAIN left = 1 .. Len(left)
             /\ DOMAIN new = 1 .. (Len(left) + 1)
             /\ \A i \in 1 .. Len(left) : new[i] = left[i]
             /\ new[Len(left) + 1].req = q
             /\ Reqs(new) = Reqs(left) \cup {q}
<1> DEFINE R == [req : Request, now : BOOLEAN]
           e == [req |-> q, now |-> n]
           left == ReadsLeft(departs)
<1>1. left \in Seq(R) /\ e \in R /\ e.req = q
  BY ReadsLeftType
<1> HIDE DEF R, e, left
<1>2. /\ Len(left) \in Nat /\ DOMAIN left = 1 .. Len(left)
      /\ DOMAIN Append(left, e) = 1 .. (Len(left) + 1)
      /\ \A i \in 1 .. Len(left) : Append(left, e)[i] = left[i]
      /\ Append(left, e)[Len(left) + 1].req = q
  BY <1>1
<1>3. Reqs(Append(left, e)) = Reqs(left) \cup {q}
  BY <1>1, AppendReqs
<1> QED BY <1>2, <1>3 DEF e, left

(* What a tick is assumed to start from.                                    *)
TickFrom(departs, wdone, ready, refresh) ==
  /\ TypeOK /\ TypeOK' /\ RowInv /\ DeliveryInv
  /\ departs \in BOOLEAN /\ wdone \in SUBSET pending_writes /\ refresh \in BOOLEAN
  /\ TickBy(departs, wdone, ready, refresh)

(* The issued request was not in pending_reads.                             *)
LEMMA IssuedIsNew ==
  ASSUME NEW departs, NEW wdone, NEW ready, NEW refresh,
         TickFrom(departs, wdone, ready, refresh),
         NEW b \in BufferName, NEW q \in Refreshed(refresh)[b]
  PROVE  q \notin Reqs(ReadsLeft(departs))
<1> DEFINE M == HeldMid(departs, wdone, refresh)
<1>1. Placed(M, ArrivedMid(refresh))
  BY MidPlaced DEF TickFrom, DeliveryInv
<1>2. q \in M[b] /\ M["pending_reads"] = Reqs(ReadsLeft(departs))
  BY HeldMidAt
<1>3. b \in PlaceName /\ "pending_reads" \in PlaceName /\ b # "pending_reads"
  BY HeldAt
<1> HIDE DEF M
<1> QED BY <1>1, <1>2, <1>3 DEF Placed

(* A tick puts no request into pending_reads a second time.                 *)
LEMMA TickOnce ==
  ASSUME NEW departs, NEW wdone, NEW ready, NEW refresh,
         TickFrom(departs, wdone, ready, refresh)
  PROVE  PendingOnce'
<1> DEFINE left == ReadsLeft(departs)
<1> USE DEF TickFrom, DeliveryInv
<1>1. \A i, j \in DOMAIN left : left[i].req = left[j].req => i = j
  <2>1. PICK k \in {0, 1} :
          /\ DOMAIN left = 1 .. (Len(pending_reads) - k)
          /\ \A i \in DOMAIN left : i + k \in DOMAIN pending_reads /\ left[i] = pending_reads[i + k]
    BY LeftReqs
  <2> HIDE DEF left
  <2>2. Len(pending_reads) \in Nat
    BY DEF TypeOK
  <2> QED BY <2>1, <2>2 DEF PendingOnce
<1>2. CASE pending_reads' = left
  BY <1>1, <1>2 DEF PendingOnce
<1>3. ASSUME NEW b \in BufferName, NEW q \in Request, NEW n \in BOOLEAN,
             Issues(q, b, departs, wdone, refresh),
             pending_reads' = Append(left, [req |-> q, now |-> n])
      PROVE  PendingOnce'
  <2>1. q \notin Reqs(left)
    BY <1>3, IssuedIsNew DEF Issues
  <2>2. /\ Len(left) \in Nat /\ DOMAIN left = 1 .. Len(left)
        /\ DOMAIN pending_reads' = 1 .. (Len(left) + 1)
        /\ \A i \in 1 .. Len(left) : pending_reads'[i] = left[i]
        /\ pending_reads'[Len(left) + 1].req = q
    BY <1>3, AppendRead
  <2>3. \A i \in 1 .. Len(left) : left[i].req # q
    BY <2>1, <2>2 DEF Reqs
  <2> HIDE DEF left
  <2> QED BY <1>1, <2>2, <2>3 DEF PendingOnce
<1> QED BY <1>2, <1>3, TickReads

(* A tick keeps the kinds of the requests where they belong.                *)
LEMMA TickKind ==
  ASSUME NEW departs, NEW wdone, NEW ready, NEW refresh,
         TickFrom(departs, wdone, ready, refresh)
  PROVE  KindInv'
<1> USE DEF TickFrom, DeliveryInv
<1>1. \A b \in BufferName : b # "aim" => \A q \in buffer'[b] : Conventional(q)
  BY TickBuffers, RefreshedKind
<1>2. \A q \in Reqs(ReadsLeft(departs)) : q.type = "AIM" \/ Conventional(q)
  BY LeftReqs DEF KindInv
<1>3. \A q \in InPendingReads' : q.type = "AIM" \/ Conventional(q)
  <2>1. CASE pending_reads' = ReadsLeft(departs)
    BY <1>2, <2>1 DEF InPendingReads, Reqs
  <2>2. ASSUME NEW b \in BufferName, NEW q \in Request, NEW n \in BOOLEAN,
               Issues(q, b, departs, wdone, refresh),
               pending_reads' = Append(ReadsLeft(departs), [req |-> q, now |-> n])
        PROVE  \A p \in InPendingReads' : p.type = "AIM" \/ Conventional(p)
    <3>1. InPendingReads' = Reqs(ReadsLeft(departs)) \cup {q}
      BY <2>2, AppendRead DEF InPendingReads, Reqs
    <3>2. q.type = "AIM" \/ Conventional(q)
      BY <2>2, RefreshedKind DEF Issues
    <3> QED BY <1>2, <3>1, <3>2
  <2> QED BY <2>1, <2>2, TickReads
<1>4. \A q \in pending_writes' : ~is_reader(q)
  <2>1. \A q \in pending_writes : ~is_reader(q)
    BY DEF KindInv
  <2>2. CASE \/ Stays(departs, wdone, refresh)
             \/ \E b \in BufferName, q \in Request : Activates(q, b, departs, wdone, refresh)
    BY <2>1, <2>2 DEF Stays, Activates
  <2>3. ASSUME NEW b \in BufferName, NEW q \in Request, Issues(q, b, departs, wdone, refresh)
        PROVE  \A p \in pending_writes' : ~is_reader(p)
    BY <2>1, <2>3 DEF Issues
  <2> QED BY <2>2, <2>3, TickShape
<1> QED BY <1>1, <1>3, <1>4 DEF KindInv, Conventional, is_reader

(* A tick makes no conventional request wait beside an AiM request.         *)
LEMMA TickExclusive ==
  ASSUME NEW departs, NEW wdone, NEW ready, NEW refresh,
         TickFrom(departs, wdone, ready, refresh)
  PROVE  Exclusive'
<1> USE DEF TickFrom, DeliveryInv
<1>1. \A b \in {"read", "write", "aim"} : buffer'[b] \subseteq buffer[b]
  BY TickBuffers, RefreshedType DEF BufferName
<1> QED BY <1>1 DEF Exclusive

(* A tick issues what it puts on its way, and nothing else.                 *)
LEMMA TickIssued ==
  ASSUME NEW departs, NEW wdone, NEW ready, NEW refresh,
         TickFrom(departs, wdone, ready, refresh)
  PROVE  IssuedInv'
<1> DEFINE left == ReadsLeft(departs)
<1> USE DEF TickFrom, DeliveryInv
<1>1. served' = served \cup ServedNow(departs, wdone)
  BY TickShape DEF TickCommon
<1>2. InPendingReads \subseteq Reqs(left) \cup served'
  BY <1>1, LeftReqs DEF ServedNow
<1>3. pending_writes \subseteq (pending_writes \ wdone) \cup served'
  BY <1>1 DEF ServedNow
<1>4. issued \subseteq Reqs(left) \cup (pending_writes \ wdone) \cup served'
  BY <1>1, <1>2, <1>3 DEF IssuedInv
<1>5. \A q \in Reqs(left) : q.type = "AIM" => q \in issued
  BY LeftReqs DEF IssuedInv
<1>6. InPendingReads' = Reqs(pending_reads')
  BY DEF InPendingReads, Reqs
<1>7. CASE Stays(departs, wdone, refresh)
         \/ \E b \in BufferName, q \in Request : Activates(q, b, departs, wdone, refresh)
  <2>1. pending_reads' = left /\ pending_writes' = pending_writes \ wdone /\ issued' = issued
    BY <1>7 DEF Stays, Activates
  <2> QED BY <1>4, <1>5, <1>6, <2>1 DEF IssuedInv
<1>8. ASSUME NEW b \in BufferName, NEW q \in Request, Issues(q, b, departs, wdone, refresh)
      PROVE  IssuedInv'
  <2>1. issued' = issued \cup {q}
    BY <1>8 DEF Issues
  <2>2. CASE is_reader(q)
    <3>1. PICK n \in BOOLEAN : pending_reads' = Append(left, [req |-> q, now |-> n])
      BY <1>8, <2>2 DEF Issues
    <3>2. InPendingReads' = Reqs(left) \cup {q}
      BY <1>6, <3>1, AppendRead
    <3>3. pending_writes' = pending_writes \ wdone
      BY <1>8, <2>2 DEF Issues
    <3> QED BY <1>4, <1>5, <2>1, <3>2, <3>3 DEF IssuedInv
  <2>3. CASE ~is_reader(q)
    <3>1. InPendingReads' = Reqs(left) /\ pending_writes' = (pending_writes \ wdone) \cup {q}
      BY <1>6, <1>8, <2>3 DEF Issues
    <3> QED BY <1>4, <1>5, <2>1, <3>1 DEF IssuedInv
  <2> QED BY <2>2, <2>3
<1> QED BY <1>7, <1>8, TickShape

(* A tick issues AiM requests in the order of their ids.                    *)
LEMMA TickOrder ==
  ASSUME NEW departs, NEW wdone, NEW ready, NEW refresh,
         TickFrom(departs, wdone, ready, refresh)
  PROVE  OrderInv'
<1> DEFINE left == ReadsLeft(departs)
           Behind(q) == \A b \in BufferName : b # "active" =>
                          \A p \in Refreshed(refresh)[b] : q.id < p.id
<1> USE DEF TickFrom, DeliveryInv
<1>1. \A b \in BufferName : b # "active" => buffer'[b] \subseteq Refreshed(refresh)[b]
  BY TickBuffers
<1>2. /\ \A q \in issued : q.id \in 1 .. arrived
      /\ \A b \in BufferName : \A q \in buffer[b] : q.id \in 1 .. arrived
      /\ \A b \in BufferName : \A p, q \in buffer[b] : q.id = p.id => q = p
  BY HeldAt DEF Placed, IssuedInv
<1>3. ASSUME NEW q \in issued, q.type = "AIM"
      PROVE  Behind(q)
  <2> SUFFICES ASSUME NEW b \in BufferName, b # "active", NEW p \in Refreshed(refresh)[b]
               PROVE  q.id < p.id
    OBVIOUS
  <2>1. CASE p \in buffer[b]
    BY <1>3, <2>1 DEF OrderInv
  <2>2. CASE p.id = arrived + 1
    BY <1>2, <2>2 DEF TypeOK
  <2> QED BY <2>1, <2>2, RefreshedKind
<1>4. ASSUME NEW b \in BufferName, NEW q \in Request, Issues(q, b, departs, wdone, refresh),
             q.type = "AIM"
      PROVE  \A c \in BufferName : c # "active" => \A p \in buffer'[c] : q.id < p.id
  <2>1. b = "aim"
    BY <1>4, RefreshedKind DEF Issues, Conventional
  <2>2. q \in Oldest(buffer["aim"]) /\ Refreshed(refresh)["priority"] = {}
    BY <1>4, <2>1 DEF Issues
  <2>3. q \in buffer["aim"] /\ \A p \in buffer["aim"] : q.id <= p.id
    BY <2>2 DEF Oldest
  <2>4. buffer["read"] = {} /\ buffer["write"] = {}
    BY <2>3 DEF Exclusive
  <2>5. buffer'["read"] = {} /\ buffer'["write"] = {} /\ buffer'["priority"] = {}
    BY <1>1, <2>2, <2>4, RefreshedType DEF BufferName
  <2>6. Refreshed(refresh) \in [BufferName -> SUBSET Request]
    BY RefreshedType
  <2>7. buffer'["aim"] = buffer["aim"] \ {q}
    BY <1>4, <2>1, <2>6, RefreshedKind DEF Issues
  <2>8. ASSUME NEW p \in buffer'["aim"] PROVE q.id < p.id
    <3>1. p \in buffer["aim"] /\ p # q /\ "aim" \in BufferName
      BY <2>7 DEF BufferName
    <3>2. q.id \in 1 .. arrived /\ p.id \in 1 .. arrived /\ q.id # p.id
      BY <1>2, <2>3, <3>1
    <3> QED BY <2>3, <3>1, <3>2
  <2> QED BY <2>5, <2>8 DEF BufferName
<1>5. ASSUME NEW q \in issued', q.type = "AIM", NEW b \in BufferName, b # "active",
             NEW p \in buffer'[b]
      PROVE  q.id < p.id
  <2>1. CASE q \in issued
    BY <1>1, <1>3, <1>5, <2>1
  <2>2. ASSUME q \notin issued
        PROVE  \E c \in BufferName : q \in Request /\ Issues(q, c, departs, wdone, refresh)
    <3>1. issued' # issued
      BY <1>5, <2>2
    <3>2. ~Stays(departs, wdone, refresh)
      BY <3>1 DEF Stays
    <3>3. \A c \in BufferName, p1 \in Request : ~Activates(p1, c, departs, wdone, refresh)
      BY <3>1 DEF Activates
    <3>4. PICK c \in BufferName, p1 \in Request : Issues(p1, c, departs, wdone, refresh)
      BY <3>2, <3>3, TickShape
    <3>5. issued' = issued \cup {p1}
      BY <3>4 DEF Issues
    <3> QED BY <1>5, <2>2, <3>4, <3>5
  <2> QED BY <1>4, <1>5, <2>1, <2>2
<1>6. ASSUME NEW i \in DOMAIN left, NEW j \in DOMAIN left, i < j,
             left[i].req.type = "AIM", left[j].req.type = "AIM"
      PROVE  left[i].req.id < left[j].req.id
  <2>1. PICK k \in {0, 1} :
          /\ DOMAIN left = 1 .. (Len(pending_reads) - k)
          /\ \A n \in DOMAIN left : n + k \in DOMAIN pending_reads /\ left[n] = pending_reads[n + k]
    BY LeftReqs
  <2> HIDE DEF left
  <2>2. i + k < j + k
    BY <1>6, <2>1 DEF TypeOK
  <2> QED BY <1>6, <2>1, <2>2 DEF OrderInv
<1>7. ASSUME NEW i \in DOMAIN pending_reads', NEW j \in DOMAIN pending_reads', i < j,
             pending_reads'[i].req.type = "AIM", pending_reads'[j].req.type = "AIM"
      PROVE  pending_reads'[i].req.id < pending_reads'[j].req.id
  <2>1. CASE pending_reads' = left
    BY <1>6, <1>7, <2>1
  <2>2. ASSUME NEW b \in BufferName, NEW q \in Request, NEW n \in BOOLEAN,
               Issues(q, b, departs, wdone, refresh),
               pending_reads' = Append(left, [req |-> q, now |-> n])
        PROVE  pending_reads'[i].req.id < pending_reads'[j].req.id
    <3>1. /\ Len(left) \in Nat /\ DOMAIN left = 1 .. Len(left)
          /\ DOMAIN pending_reads' = 1 .. (Len(left) + 1)
          /\ \A m \in 1 .. Len(left) : pending_reads'[m] = left[m]
          /\ pending_reads'[Len(left) + 1].req = q
      BY <2>2, AppendRead
    <3>2. \A m \in 1 .. Len(left) : left[m].req \in Reqs(left)
      BY <3>1 DEF Reqs
    <3>3. \A p \in Reqs(left) : p.type = "AIM" => p \in issued
      BY LeftReqs DEF IssuedInv
    <3>4. q \in Refreshed(refresh)[b] /\ (q.type = "AIM" => b # "active")
      BY <2>2, RefreshedKind DEF Issues, Conventional, BufferName
    <3>5. CASE j \in 1 .. Len(left)
      <4>1. i \in 1 .. Len(left)
        BY <1>7, <3>1, <3>5
      <4> QED BY <1>6, <1>7, <3>1, <3>5, <4>1
    <3>6. CASE j = Len(left) + 1
      <4>1. i \in 1 .. Len(left) /\ pending_reads'[j].req = q /\ pending_reads'[i] = left[i]
        BY <1>7, <3>1, <3>6
      <4>2. left[i].req \in issued
        BY <1>7, <3>2, <3>3, <4>1
      <4> QED BY <1>3, <1>7, <3>4, <4>1, <4>2
    <3> QED BY <3>1, <3>5, <3>6
  <2> QED BY <2>1, <2>2, TickReads
<1> QED BY <1>5, <1>7 DEF OrderInv

(* An accepted request joins the others.                                    *)
LEMMA SendDelivers ==
  ASSUME TypeOK, DeliveryInv, NEW t \in Inputs, send(t)
  PROVE  DeliveryInv'
<1> DEFINE r == NewRequest(t)
           H == Held'
           R == [req : Request, now : BOOLEAN]
           e == [req |-> r, now |-> TRUE]
           b == BufferOf(t)
<1> USE DEF DeliveryInv
<1>1. /\ r \in Request /\ r.id = arrived + 1 /\ r.type = t.type
      /\ t.type \in {"Read", "Write", "AIM"}
      /\ r.type = "AIM" \/ Conventional(r)
      /\ b \in {"read", "write", "aim"}
      /\ b = "aim" <=> r.type = "AIM"
      /\ arrived \in Nat /\ b \in BufferName
  BY NewRequestType, ControllerAssumption DEF NewRequest, Conventional, BufferOf, TypeOK, BufferName
<1>2. /\ arrived' = arrived + 1 /\ served' = served
      /\ pending_writes' = pending_writes /\ issued' = issued
  BY DEF send
<1>3. /\ \A c \in BufferName : c \in PlaceName /\ H[c] = buffer'[c]
      /\ H["pending_reads"] = Reqs(pending_reads')
      /\ H["pending_writes"] = pending_writes'
      /\ H["served"] = served'
      /\ PlaceName = BufferName \cup {"pending_reads", "pending_writes", "served"}
  BY DEF Held, PlaceName, BufferName, InPendingReads, Reqs
<1>4. InPendingReads = Reqs(pending_reads) /\ InPendingReads' = Reqs(pending_reads')
  BY DEF InPendingReads, Reqs
<1>5. Placed(H, arrived') => Placed(Held, arrived)'
  BY DEF H, Placed, PlaceName, BufferName
<1>6. /\ \A q \in InPendingReads : q.id \in 1 .. arrived
      /\ \A q \in issued : q.id \in 1 .. arrived
  BY HeldAt DEF Placed, IssuedInv
<1> HIDE DEF H
<1>7. CASE Forwarded(t)
  <2>1. buffer' = buffer /\ pending_reads' = Append(pending_reads, e)
    BY <1>7 DEF send
  <2>2. pending_reads \in Seq(R) /\ e \in R /\ e.req = r
    BY <1>1 DEF TypeOK
  <2> HIDE DEF R, e, r
  <2>3. /\ Reqs(pending_reads') = InPendingReads \cup {r}
        /\ Len(pending_reads') = Len(pending_reads) + 1
        /\ \A i \in 1 .. Len(pending_reads) : pending_reads'[i] = pending_reads[i]
        /\ pending_reads'[Len(pending_reads) + 1].req = r
        /\ DOMAIN pending_reads' = 1 .. (Len(pending_reads) + 1)
        /\ DOMAIN pending_reads = 1 .. Len(pending_reads)
        /\ Len(pending_reads) \in Nat
    <3>1. pending_reads' \in Seq(R)
      BY <2>1, <2>2
    <3> QED BY <1>4, <2>1, <2>2, <3>1, AppendReqs
  <2>4. Placed(H, arrived')
    <3>1. Arrives(Held, H, r, "pending_reads")
      BY <1>2, <1>3, <2>1, <2>3, HeldAt DEF Arrives
    <3> QED BY <1>1, <1>2, <3>1, ArrivePlaced
  <2>5. r.type # "AIM"
    BY <1>1, <1>7 DEF Forwarded
  <2>6. \A i \in DOMAIN pending_reads : pending_reads[i].req \in InPendingReads
    BY DEF InPendingReads
  <2>7. \A i \in DOMAIN pending_reads : pending_reads[i].req # r
    BY <1>1, <1>6, <2>6
  <2>8. PendingOnce'
    BY <2>3, <2>7 DEF PendingOnce
  <2>9. KindInv'
    BY <1>1, <1>2, <1>4, <2>1, <2>3 DEF KindInv, Conventional, is_reader
  <2>10. IssuedInv'
    BY <1>2, <1>4, <2>3, <2>5 DEF IssuedInv
  <2>11. OrderInv'
    <3>1. ASSUME NEW i \in DOMAIN pending_reads', NEW j \in DOMAIN pending_reads', i < j,
                 pending_reads'[i].req.type = "AIM", pending_reads'[j].req.type = "AIM"
          PROVE  pending_reads'[i].req.id < pending_reads'[j].req.id
      <4>1. i \in 1 .. Len(pending_reads) /\ j \in 1 .. Len(pending_reads)
        BY <2>3, <2>5, <3>1
      <4> QED BY <2>3, <3>1, <4>1 DEF OrderInv
    <3> QED BY <1>2, <2>1, <3>1 DEF OrderInv
  <2>12. Exclusive'
    BY <2>1 DEF Exclusive
  <2> QED BY <1>5, <2>4, <2>8, <2>9, <2>10, <2>11, <2>12
<1>8. CASE ~Forwarded(t)
  <2>1. buffer' = [buffer EXCEPT ![b] = @ \cup {r}] /\ pending_reads' = pending_reads
    BY <1>8 DEF send
  <2>2. buffer \in [BufferName -> SUBSET Request]
    BY DEF TypeOK
  <2> HIDE DEF r, b
  <2>3. buffer'[b] = buffer[b] \cup {r} /\ \A c \in BufferName : c # b => buffer'[c] = buffer[c]
    BY <1>1, <2>1, <2>2
  <2>4. Placed(H, arrived')
    <3>1. Arrives(Held, H, r, b)
      BY <1>1, <1>2, <1>3, <1>4, <2>1, <2>3, HeldAt DEF Arrives
    <3> QED BY <1>1, <1>2, <3>1, ArrivePlaced
  <2>5. PendingOnce'
    BY <2>1 DEF PendingOnce
  <2>6. KindInv'
    <3>1. \A c \in BufferName : c # "aim" => \A q \in buffer'[c] : Conventional(q)
      BY <1>1, <2>3 DEF KindInv
    <3> QED BY <1>2, <1>4, <2>1, <3>1 DEF KindInv, Conventional, is_reader
  <2>7. Exclusive'
    <3>1. CASE b = "aim"
      <4>1. buffer["read"] = {} /\ buffer["write"] = {}
        BY <1>1, <3>1 DEF send, Refuses, OppositeTypeWaiting
      <4> QED BY <2>3, <3>1, <4>1 DEF Exclusive, BufferName
    <3>2. CASE b # "aim"
      <4>1. buffer["aim"] = {}
        BY <1>1, <3>2 DEF send, Refuses, OppositeTypeWaiting
      <4> QED BY <2>3, <3>2, <4>1 DEF Exclusive, BufferName
    <3> QED BY <3>1, <3>2
  <2>8. IssuedInv'
    BY <1>2, <1>4, <2>1 DEF IssuedInv
  <2>9. OrderInv'
    <3>1. ASSUME NEW q \in issued, q.type = "AIM", NEW c \in BufferName, c # "active",
                 NEW p \in buffer'[c]
          PROVE  q.id < p.id
      <4>1. CASE p \in buffer[c]
        BY <3>1, <4>1 DEF OrderInv
      <4>2. CASE p = r
        BY <1>1, <1>6, <4>2
      <4> QED BY <2>3, <4>1, <4>2
    <3> QED BY <1>2, <2>1, <3>1 DEF OrderInv
  <2> QED BY <1>5, <2>4, <2>5, <2>6, <2>7, <2>8, <2>9
<1> QED BY <1>7, <1>8

(* Every action keeps the invariant.                                        *)
LEMMA DeliveryStep ==
  ASSUME TypeOK, TypeOK', RowInv, DeliveryInv, [Next]_vars
  PROVE  DeliveryInv'
<1>1. CASE UNCHANGED vars
  <2>1. Held' = Held /\ arrived' = arrived
    BY <1>1 DEF vars, Held, InPendingReads
  <2>2. Placed(Held, arrived)'
    BY <2>1 DEF DeliveryInv, Placed, PlaceName, BufferName
  <2>3. /\ PendingOnce' /\ KindInv' /\ Exclusive' /\ IssuedInv' /\ OrderInv'
    BY <1>1 DEF vars, DeliveryInv, PendingOnce, KindInv, Conventional, Exclusive, IssuedInv,
                OrderInv, InPendingReads, is_reader
  <2> QED BY <2>2, <2>3 DEF DeliveryInv
<1>2. ASSUME NEW t \in Inputs, send(t)
      PROVE  DeliveryInv'
  BY <1>2, SendDelivers
<1>3. ASSUME NEW departs \in BOOLEAN, NEW wdone \in SUBSET pending_writes,
             NEW refresh \in BOOLEAN, NEW ready \in SUBSET WaitingKeys(refresh),
             TickBy(departs, wdone, ready, refresh)
      PROVE  DeliveryInv'
  <2>1. TickFrom(departs, wdone, ready, refresh)
    BY <1>3 DEF TickFrom
  <2>2. Placed(Held, arrived)'
    BY <1>3, TickPlaced DEF DeliveryInv
  <2>3. PendingOnce' /\ KindInv' /\ Exclusive' /\ IssuedInv' /\ OrderInv'
    BY <2>1, TickOnce, TickKind, TickExclusive, TickIssued, TickOrder
  <2> QED BY <2>2, <2>3 DEF DeliveryInv
<1> QED BY <1>1, <1>2, <1>3 DEF Next, tick, TickBy

-----------------------------------------------------------------------------
(* Theorems *)

(* The inductive invariant holds of every controller.                       *)
THEOREM DeliveryInvariant == Spec => [](TypeOK /\ RowInv /\ DeliveryInv)
<1>1. Init => DeliveryInv
  <2> SUFFICES ASSUME Init PROVE DeliveryInv
    OBVIOUS
  <2>1. /\ \A b \in BufferName : buffer[b] = {}
        /\ InPendingReads = {} /\ pending_writes = {} /\ served = {}
        /\ issued = {} /\ arrived = 0 /\ DOMAIN pending_reads = {}
    BY DEF Init, InPendingReads, BufferName
  <2>2. \A x \in PlaceName : Held[x] = {}
    BY <2>1, HeldAt DEF PlaceName
  <2>3. Placed(Held, arrived)
    BY <2>1, <2>2 DEF Placed
  <2> QED BY <2>1, <2>3 DEF DeliveryInv, PendingOnce, KindInv, Exclusive, IssuedInv, OrderInv, BufferName
<1>2. TypeOK /\ RowInv /\ TypeOK' /\ DeliveryInv /\ [Next]_vars => DeliveryInv'
  BY DeliveryStep
<1> QED BY <1>1, <1>2, RowInvariant, PTL DEF Spec

(* The place of an accepted request is unique.                              *)
LEMMA OnePlace ==
  ASSUME DeliveryInv, NEW id \in 1 .. arrived
  PROVE  \E x \in PlaceName : Places(id) = {x}
<1>1. \A x \in PlaceName : x \in Places(id) <=> \E q \in Held[x] : q.id = id
  BY HeldAt DEF Places, PlaceName
<1>2. Places(id) \subseteq PlaceName
  BY DEF Places, PlaceName
<1>3. PICK x \in PlaceName : \E q \in Held[x] : q.id = id
  BY DEF DeliveryInv, Placed
<1>4. \A y \in PlaceName : (\E q \in Held[y] : q.id = id) => y = x
  BY <1>3 DEF DeliveryInv, Placed
<1> QED BY <1>1, <1>2, <1>3, <1>4

(* No request is lost and none is served twice: it is always in exactly one *)
(* of the buffers, the pending queues and what was served.                  *)
THEOREM NothingLost == Spec => []NoRequestLost
<1>1. DeliveryInv => NoRequestLost
  BY OnePlace, FS_Singleton DEF NoRequestLost
<1> QED BY <1>1, DeliveryInvariant, PTL

(* The channel issues AiM requests in the order it accepted them, whatever  *)
(* is activated, refreshed or precharged between them.                      *)
THEOREM IssuedInOrder == Spec => []AiMIssuedInOrder
<1>1. DeliveryInv => AiMIssuedInOrder
  BY DEF DeliveryInv, OrderInv, AiMIssuedInOrder, BufferName
<1> QED BY <1>1, DeliveryInvariant, PTL

(* A request that a tick calls back from pending_reads was its head.        *)
LEMMA CalledBackIsHead ==
  ASSUME TypeOK, RowInv, DeliveryInv, NEW departs \in BOOLEAN,
         NEW wdone \in SUBSET pending_writes, NEW refresh \in BOOLEAN, NEW ready,
         TickBy(departs, wdone, ready, refresh),
         NEW q \in InPendingReads, q \in served', q \notin served
  PROVE  HeadServed(departs) /\ q = Head(pending_reads).req
<1>1. served' = served \cup ServedNow(departs, wdone)
  BY TickShape DEF TickCommon, DeliveryInv
<1>2. q \notin wdone
  BY HeldAt DEF DeliveryInv, Placed
<1> QED BY <1>1, <1>2 DEF ServedNow

(* The head of pending_reads is older than every other AiM request in it.   *)
LEMMA HeadIsOldest ==
  ASSUME TypeOK, DeliveryInv, pending_reads # <<>>, Head(pending_reads).req.type = "AIM",
         NEW p \in InPendingReads, p.type = "AIM"
  PROVE  p = Head(pending_reads).req \/ Head(pending_reads).req.id < p.id
<1> DEFINE R == [req : Request, now : BOOLEAN]
<1>1. pending_reads \in Seq(R)
  BY DEF TypeOK
<1> HIDE DEF R
<1>2. Head(pending_reads) = pending_reads[1] /\ 1 \in DOMAIN pending_reads
      /\ DOMAIN pending_reads \subseteq Nat \ {0}
  BY <1>1
<1>3. PICK j \in DOMAIN pending_reads : p = pending_reads[j].req
  BY DEF InPendingReads
<1>4. j = 1 \/ 1 < j
  BY <1>2
<1> QED BY <1>2, <1>3, <1>4 DEF DeliveryInv, OrderInv

(* SYNC and EOC drain the channel of all that was accepted before them, but *)
(* for the accesses whose rows were being opened when they passed.          *)
THEOREM BarriersDrain == Spec => BarrierDrainsAllButActive
<1> DEFINE Drains(q) ==
             /\ \A p \in issued : p.type = "AIM" /\ p.id < q.id => p \in served
             /\ \A id \in 1 .. (q.id - 1) :
                  Places(id) \subseteq {"served", "active", "pending_reads"}
<1>1. ASSUME TypeOK, RowInv, DeliveryInv, NEW departs \in BOOLEAN,
             NEW wdone \in SUBSET pending_writes, NEW refresh \in BOOLEAN, NEW ready,
             TickBy(departs, wdone, ready, refresh), NEW q \in InPendingReads, CallsBack(q)
      PROVE  Drains(q)
  <2>1. HeadServed(departs) /\ q = Head(pending_reads).req
    BY <1>1, CalledBackIsHead DEF CallsBack
  <2>2. pending_reads # <<>> /\ pending_writes = {}
    BY <1>1, <2>1 DEF HeadServed, CallsBack
  <2>3. q.opcode # "MIN"
    BY <1>1 DEF CallsBack, IsBarrier, BarrierOpcodes
  <2>4. q.type = "AIM" /\ q \in issued
    BY <1>1, <2>3 DEF DeliveryInv, KindInv, Conventional, IssuedInv
  <2>5. q.id \in Nat /\ \A p \in InPendingReads : p.id \in Nat
    BY <1>1, HeldAt DEF DeliveryInv, Placed
  <2>6. ASSUME NEW p \in issued, p.type = "AIM", p.id < q.id
        PROVE  p \in served
    <3>1. p \notin InPendingReads
      <4> SUFFICES ASSUME p \in InPendingReads PROVE FALSE
        OBVIOUS
      <4>1. p = q \/ q.id < p.id
        BY <1>1, <2>1, <2>2, <2>4, <2>6, HeadIsOldest
      <4> QED BY <2>5, <2>6, <4>1
    <3> QED BY <1>1, <2>2, <2>6, <3>1 DEF DeliveryInv, IssuedInv
  <2>7. ASSUME NEW id \in 1 .. (q.id - 1)
        PROVE  Places(id) \subseteq {"served", "active", "pending_reads"}
    <3>1. \A b \in BufferName : b # "active" => \A p \in buffer[b] : q.id < p.id
      BY <1>1, <2>4 DEF DeliveryInv, OrderInv
    <3>2. id < q.id
      BY <2>5
    <3>3. \A b \in BufferName : b # "active" => \A p \in buffer[b] : p.id # id
      <4> SUFFICES ASSUME NEW b \in BufferName, b # "active", NEW p \in buffer[b], p.id = id
                   PROVE  FALSE
        OBVIOUS
      <4>1. q.id < id
        BY <3>1
      <4> QED BY <2>5, <3>2, <4>1
    <3> QED BY <2>2, <3>3 DEF Places
  <2> QED BY <2>6, <2>7
<1>2. ASSUME TypeOK, RowInv, DeliveryInv, [Next]_vars, NEW q \in InPendingReads, CallsBack(q)
      PROVE  Drains(q)
  <2>1. served' # served
    BY <1>2 DEF CallsBack
  <2>2. ~UNCHANGED vars /\ \A t \in Inputs : ~send(t)
    BY <2>1 DEF vars, send
  <2> QED BY <1>1, <1>2, <2>2 DEF Next, tick, TickBy
<1>3. TypeOK /\ RowInv /\ DeliveryInv /\ [Next]_vars =>
        [\A q \in InPendingReads : CallsBack(q) => Drains(q)]_vars
  BY <1>2
<1> QED BY <1>3, DeliveryInvariant, PTL DEF Spec, BarrierDrainsAllButActive

-----------------------------------------------------------------------------
(* The refinement of AiMChannel *)

Awaiting == Blocking(buffer["aim"] \cup InPendingReads)

CalledBack == Blocking(served)

(* Accepting a request adds it to those that wait, if the host blocks.      *)
LEMMA SendMaps ==
  ASSUME TypeOK, DeliveryInv, NEW t \in Inputs, send(t)
  PROVE  Channel!Accept \/ UNCHANGED <<Awaiting, CalledBack>>
<1> DEFINE r == NewRequest(t)
           R == [req : Request, now : BOOLEAN]
<1>1. /\ r \in Request /\ r.id = arrived + 1 /\ r.type = t.type
      /\ t.type \in {"Read", "Write", "AIM"} /\ arrived \in Nat
  BY NewRequestType DEF NewRequest, TypeOK
<1>2. CalledBack' = CalledBack
  BY DEF send, CalledBack, Blocking
<1>3. \A p \in Awaiting \cup CalledBack : p.id < r.id
  <2>1. \A p \in Awaiting \cup CalledBack : p.id \in 1 .. arrived
    BY HeldAt DEF DeliveryInv, Placed, Awaiting, CalledBack, Blocking, BufferName
  <2> QED BY <1>1, <2>1
<1>4. /\ InPendingReads = Reqs(pending_reads) /\ InPendingReads' = Reqs(pending_reads')
      /\ "aim" \in BufferName
  BY DEF InPendingReads, Reqs, BufferName
<1>5. CASE Forwarded(t)
  <2>1. buffer' = buffer /\ pending_reads' = Append(pending_reads, [req |-> r, now |-> TRUE])
    BY <1>5 DEF send
  <2>2. InPendingReads' = InPendingReads \cup {r}
    <3>1. pending_reads \in Seq(R) /\ [req |-> r, now |-> TRUE] \in R
      BY <1>1 DEF TypeOK
    <3> HIDE DEF R
    <3> QED BY <1>4, <2>1, <3>1, AppendReqs
  <2>3. r.type # "AIM"
    BY <1>1, <1>5 DEF Forwarded
  <2>4. Awaiting' = Awaiting
    BY <2>1, <2>2, <2>3 DEF Awaiting, Blocking
  <2> QED BY <1>2, <2>4
<1>6. CASE ~Forwarded(t)
  <2>1. buffer' = [buffer EXCEPT ![BufferOf(t)] = @ \cup {r}] /\ pending_reads' = pending_reads
    BY <1>6 DEF send
  <2>2. BufferOf(t) = "aim" <=> r.type = "AIM"
    BY <1>1 DEF BufferOf
  <2>3. InPendingReads' = InPendingReads
    BY <1>4, <2>1
  <2>4. CASE r.type = "AIM" /\ AiM_DMA_blocking(r.opcode)
    <3>1. buffer'["aim"] = buffer["aim"] \cup {r}
      BY <1>4, <2>1, <2>2, <2>4 DEF TypeOK
    <3>2. Awaiting' = Awaiting \cup {r}
      BY <2>3, <2>4, <3>1 DEF Awaiting, Blocking
    <3> QED BY <1>2, <1>3, <3>2 DEF Channel!Accept, Awaiting, CalledBack
  <2>5. CASE ~(r.type = "AIM" /\ AiM_DMA_blocking(r.opcode))
    <3>1. buffer'["aim"] = buffer["aim"] \/ buffer'["aim"] = buffer["aim"] \cup {r}
      BY <1>4, <2>1 DEF TypeOK
    <3>2. Awaiting' = Awaiting
      BY <2>3, <2>5, <3>1 DEF Awaiting, Blocking
    <3> QED BY <1>2, <3>2
  <2> QED BY <2>4, <2>5
<1> QED BY <1>5, <1>6

(* Issuing, activating and preparing leave the blocking requests that wait  *)
(* where they count, so only the head that is served stops waiting.         *)
LEMMA TickAwaiting ==
  ASSUME NEW departs, NEW wdone, NEW ready, NEW refresh,
         TickFrom(departs, wdone, ready, refresh)
  PROVE  Awaiting' = Blocking(buffer["aim"] \cup Reqs(ReadsLeft(departs)))
<1> DEFINE left == ReadsLeft(departs)
<1> USE DEF TickFrom, DeliveryInv
<1>1. /\ Refreshed(refresh)["aim"] = buffer["aim"] /\ "aim" \in BufferName
      /\ Refreshed(refresh) \in [BufferName -> SUBSET Request]
  BY RefreshedKind, RefreshedType DEF BufferName
<1>2. InPendingReads' = Reqs(pending_reads')
  BY DEF InPendingReads, Reqs
<1>3. CASE Stays(departs, wdone, refresh)
  BY <1>1, <1>2, <1>3 DEF Stays, Awaiting, Blocking
<1>4. ASSUME NEW b \in BufferName, NEW q \in Request, Issues(q, b, departs, wdone, refresh)
      PROVE  Awaiting' = Blocking(buffer["aim"] \cup Reqs(left))
  <2>1. /\ q \in Refreshed(refresh)[b]
        /\ buffer' = [Refreshed(refresh) EXCEPT ![b] = @ \ {q}]
    BY <1>4 DEF Issues
  <2>2. CASE is_reader(q)
    <3>1. PICK n \in BOOLEAN : pending_reads' = Append(left, [req |-> q, now |-> n])
      BY <1>4, <2>2 DEF Issues
    <3>2. InPendingReads' = Reqs(left) \cup {q}
      BY <1>2, <3>1, AppendRead
    <3>3. CASE b = "aim"
      <4>1. q \in buffer["aim"] /\ buffer'["aim"] = buffer["aim"] \ {q}
        BY <1>1, <2>1, <3>3
      <4> QED BY <3>2, <4>1 DEF Awaiting, Blocking
    <3>4. CASE b # "aim"
      <4>1. q.type # "AIM" /\ buffer'["aim"] = buffer["aim"]
        BY <1>1, <2>1, <3>4, RefreshedKind DEF Conventional
      <4> QED BY <3>2, <4>1 DEF Awaiting, Blocking
    <3> QED BY <3>3, <3>4
  <2>3. CASE ~is_reader(q)
    <3>1. pending_reads' = left /\ ~(q.type = "AIM" /\ AiM_DMA_blocking(q.opcode))
      BY <1>4, <2>3 DEF Issues, is_reader
    <3>2. buffer'["aim"] = buffer["aim"] \/ buffer'["aim"] = buffer["aim"] \ {q}
      BY <1>1, <2>1
    <3> QED BY <1>2, <3>1, <3>2 DEF Awaiting, Blocking
  <2> QED BY <2>2, <2>3
<1>5. ASSUME NEW b \in BufferName, NEW q \in Request, Activates(q, b, departs, wdone, refresh)
      PROVE  Awaiting' = Blocking(buffer["aim"] \cup Reqs(left))
  <2>1. pending_reads' = left /\ q.type # "AIM"
    BY <1>5 DEF Activates
  <2>2. buffer'["aim"] = buffer["aim"] \/ buffer'["aim"] = buffer["aim"] \ {q}
    BY <1>1, <1>5 DEF Activates
  <2> QED BY <1>2, <2>1, <2>2 DEF Awaiting, Blocking
<1> QED BY <1>3, <1>4, <1>5, TickShape

(* A tick calls back the oldest blocking request, or none.                  *)
LEMMA TickMaps ==
  ASSUME NEW departs, NEW wdone, NEW ready, NEW refresh,
         TickFrom(departs, wdone, ready, refresh)
  PROVE  Channel!CallBack \/ UNCHANGED <<Awaiting, CalledBack>>
<1> USE DEF TickFrom
<1>1. Awaiting' = Blocking(buffer["aim"] \cup Reqs(ReadsLeft(departs)))
  BY TickAwaiting
<1>2. served' = served \cup ServedNow(departs, wdone)
  BY TickShape DEF TickCommon, DeliveryInv
<1>3. Blocking(wdone) = {}
  BY DEF DeliveryInv, KindInv, is_reader, Blocking
<1>4. CASE ~HeadServed(departs)
  <2>1. Awaiting' = Awaiting
    BY <1>1, <1>4, LeftReqs DEF Awaiting, DeliveryInv
  <2>2. CalledBack' = CalledBack
    BY <1>2, <1>3, <1>4 DEF CalledBack, ServedNow, Blocking
  <2> QED BY <2>1, <2>2
<1>5. CASE HeadServed(departs)
  <2> DEFINE h == Head(pending_reads).req
  <2>1. /\ pending_reads # <<>> /\ h \in InPendingReads
        /\ Reqs(ReadsLeft(departs)) = InPendingReads \ {h}
        /\ served' = served \cup wdone \cup {h}
    BY <1>2, <1>5, LeftReqs DEF DeliveryInv, HeadServed, ServedNow
  <2>2. h \notin buffer["aim"]
    BY <2>1, HeldAt DEF DeliveryInv, Placed, BufferName
  <2>3. CASE h \in Blocking(InPendingReads)
    <3>1. h.type = "AIM" /\ h \in Awaiting
      BY <2>3 DEF Blocking, Awaiting
    <3>2. \A p \in Awaiting : p.id \in Nat
      BY HeldAt DEF DeliveryInv, Placed, Awaiting, Blocking, BufferName
    <3>3. ASSUME NEW p \in Awaiting PROVE h.id <= p.id
      <4>1. CASE p \in InPendingReads
        <5>1. p.type = "AIM"
          BY <3>3 DEF Awaiting, Blocking
        <5>2. p = h \/ h.id < p.id
          BY <2>1, <3>1, <4>1, <5>1, HeadIsOldest
        <5> QED BY <3>1, <3>2, <5>2
      <4>2. CASE p \in buffer["aim"]
        <5>1. h \in issued
          BY <2>1, <3>1 DEF DeliveryInv, IssuedInv
        <5>2. h.id < p.id
          BY <3>1, <4>2, <5>1 DEF DeliveryInv, OrderInv, BufferName
        <5> QED BY <3>1, <3>2, <5>2
      <4> QED BY <4>1, <4>2 DEF Awaiting, Blocking
    <3>4. Awaiting' = Awaiting \ {h}
      BY <1>1, <2>1, <2>2 DEF Awaiting, Blocking
    <3>5. CalledBack' = CalledBack \cup {h}
      BY <1>3, <2>1, <2>3 DEF CalledBack, Blocking
    <3> QED BY <3>1, <3>3, <3>4, <3>5 DEF Channel!CallBack, Awaiting, CalledBack
  <2>4. CASE h \notin Blocking(InPendingReads)
    <3>1. ~(h.type = "AIM" /\ AiM_DMA_blocking(h.opcode))
      BY <2>1, <2>4 DEF Blocking
    <3>2. Awaiting' = Awaiting
      BY <1>1, <2>1, <3>1 DEF Awaiting, Blocking
    <3>3. CalledBack' = CalledBack
      BY <1>3, <2>1, <3>1 DEF CalledBack, Blocking
    <3> QED BY <3>2, <3>3
  <2> QED BY <2>3, <2>4
<1> QED BY <1>4, <1>5

(* The controller keeps the contract of AiMChannel: every blocking request  *)
(* is called back once, in order and one a tick, whatever the timing and    *)
(* whatever travels with it.                                                *)
THEOREM RefinesChannel == Spec => ImplementsChannel
<1>1. Init => Channel!Init
  BY DEF Init, Channel!Init, Blocking, InPendingReads, BufferName
<1>2. TypeOK /\ TypeOK' /\ RowInv /\ DeliveryInv /\ [Next]_vars
        => [Channel!Next]_(Channel!channelVars)
  <2> SUFFICES ASSUME TypeOK, TypeOK', RowInv, DeliveryInv, [Next]_vars
               PROVE  [Channel!Next]_(Channel!channelVars)
    OBVIOUS
  <2>1. ASSUME UNCHANGED <<Awaiting, CalledBack>>
        PROVE  UNCHANGED Channel!channelVars
    BY <2>1 DEF Channel!channelVars, Awaiting, CalledBack
  <2>2. CASE UNCHANGED vars
    BY <2>1, <2>2 DEF vars, Awaiting, CalledBack, Blocking, InPendingReads
  <2>3. ASSUME NEW t \in Inputs, send(t)
        PROVE  [Channel!Next]_(Channel!channelVars)
    BY <2>1, <2>3, SendMaps DEF Channel!Next
  <2>4. ASSUME NEW departs \in BOOLEAN, NEW wdone \in SUBSET pending_writes,
               NEW refresh \in BOOLEAN, NEW ready \in SUBSET WaitingKeys(refresh),
               TickBy(departs, wdone, ready, refresh)
        PROVE  [Channel!Next]_(Channel!channelVars)
    <3>1. TickFrom(departs, wdone, ready, refresh)
      BY <2>4 DEF TickFrom
    <3> QED BY <2>1, <3>1, TickMaps DEF Channel!Next
  <2> QED BY <2>2, <2>3, <2>4 DEF Next, tick, TickBy
<1> QED BY <1>1, <1>2, DeliveryInvariant, PTL DEF Spec, ImplementsChannel, Channel!Spec
=============================================================================
