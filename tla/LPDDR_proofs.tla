---------------------------- MODULE LPDDR_proofs ----------------------------
(***************************************************************************)
(* Proofs about the LPDDR devices, for any set of banks and of rows: the    *)
(* states of the banks agree with the rows recorded for them, and no chain  *)
(* of prerequisites leads back to itself.                                   *)
(***************************************************************************)
EXTENDS LPDDR, TLAPS

(* The states of the device that its commands lead to.                      *)
Channels ==
  [state : [Banks -> {"Closed", "Pre-Opened", "Opened"}],
   rows : [Banks -> SUBSET Rows], synced : BOOLEAN]

Sound(c) ==
  /\ c \in Channels
  /\ \A b \in Banks : c.state[b] = "Closed" <=> c.rows[b] = {}

(* The request is at its own command.                                       *)
Own(c, q) == get_preq_command(c, q) = q.cmd

-----------------------------------------------------------------------------
(* Types *)

(* Whatever command is issued for a request, the states of the banks and    *)
(* their rows go on agreeing.                                               *)
LEMMA IssueSound ==
  ASSUME NEW c, Sound(c), NEW q \in Requests, NEW cmd
  PROVE  Sound(issue_command(c, cmd, q))
<1> DEFINE d == issue_command(c, cmd, q)
           to == StateAfter(cmd)
<1>1. q.row \in Rows
  BY DEF Requests
<1>2. c.state \in [Banks -> {"Closed", "Pre-Opened", "Opened"}] /\ c.rows \in [Banks -> SUBSET Rows]
      /\ c.synced \in BOOLEAN
  BY DEF Sound, Channels
<1>3. to \in {"Closed", "Pre-Opened", "Opened", "unchanged"}
  BY DEF StateAfter
<1>4. /\ d.state = [b \in Banks |-> IF to # "unchanged" /\ b \in Targets(cmd, q)
                                    THEN to ELSE c.state[b]]
      /\ d.rows = [b \in Banks |-> IF b \in Targets(cmd, q) THEN RowsAfter(c.rows[b], cmd, q)
                                   ELSE c.rows[b]]
      /\ d.synced = (c.synced \/ cmd \in Syncing)
      /\ d = [state |-> d.state, rows |-> d.rows, synced |-> d.synced]
  BY DEF issue_command
<1> HIDE DEF d
<1>5. ASSUME NEW b \in Banks
      PROVE  /\ d.state[b] \in {"Closed", "Pre-Opened", "Opened"}
             /\ d.rows[b] \in SUBSET Rows
             /\ d.state[b] = "Closed" <=> d.rows[b] = {}
  <2>1. c.state[b] \in {"Closed", "Pre-Opened", "Opened"} /\ c.rows[b] \in SUBSET Rows
        /\ (c.state[b] = "Closed" <=> c.rows[b] = {})
    BY <1>2 DEF Sound
  <2>2. CASE b \notin Targets(cmd, q)
    BY <1>4, <2>1, <2>2
  <2>3. CASE b \in Targets(cmd, q) /\ to = "unchanged"
    BY <1>4, <2>1, <2>3 DEF RowsAfter
  <2>4. CASE b \in Targets(cmd, q) /\ to = "Closed"
    BY <1>4, <2>1, <2>4 DEF RowsAfter
  <2>5. CASE b \in Targets(cmd, q) /\ to \in {"Pre-Opened", "Opened"}
    BY <1>1, <1>4, <2>1, <2>5 DEF RowsAfter
  <2>6. QED
    BY <1>3, <2>2, <2>3, <2>4, <2>5
<1>6. d.state \in [Banks -> {"Closed", "Pre-Opened", "Opened"}]
  BY <1>4, <1>5
<1>7. d.rows \in [Banks -> SUBSET Rows]
  BY <1>4, <1>5
<1>8. d.synced \in BOOLEAN
  BY <1>2, <1>4
<1>9. d \in Channels
  BY <1>4, <1>6, <1>7, <1>8 DEF Channels
<1>10. QED
  BY <1>5, <1>9 DEF Sound, d

(* Which prerequisite function a request is given.                          *)
LEMMA Prerequisites ==
  ASSUME NEW c, NEW q
  PROVE  /\ q.cmd \in SingleBank => get_preq_command(c, q) = PreqBank(c, q)
         /\ q.cmd \in AllBanks => get_preq_command(c, q) = PreqRank(c, q)
         /\ q.cmd = "REFab" => get_preq_command(c, q) = RequireAllBanksClosed(c, q.cmd)
         /\ q.cmd \in Registers \cup {"WRA16"} => get_preq_command(c, q) = Synced(c, q.cmd)
<1>1. ASSUME q.cmd \in SingleBank
      PROVE  q.cmd \notin AllBanks \cup Registers \cup {"WRA16", "REFab"}
  BY <1>1 DEF SingleBank, AllBanks, Registers
<1>2. ASSUME q.cmd \in AllBanks
      PROVE  q.cmd \notin SingleBank \cup Registers \cup {"WRA16", "REFab"}
  BY <1>2 DEF SingleBank, AllBanks, Registers
<1>3. ASSUME q.cmd = "REFab"
      PROVE  q.cmd \notin SingleBank \cup AllBanks \cup Registers \cup {"WRA16"}
  BY <1>3 DEF SingleBank, AllBanks, Registers
<1>4. ASSUME q.cmd \in Registers \cup {"WRA16"}
      PROVE  q.cmd \notin SingleBank \cup AllBanks \cup {"REFab"}
  BY <1>4 DEF SingleBank, AllBanks, Registers
<1>5. QED
  BY <1>1, <1>2, <1>3, <1>4 DEF get_preq_command

LEMMA ServedSound ==
  ASSUME NEW c, Sound(c), NEW q \in Requests
  PROVE  Sound(Served(c, q))
BY IssueSound DEF Served

LEMMA SoundInvariance == Spec => []Sound(chan)
<1>1. Init => Sound(chan)
  BY DEF Init, Sound, Channels
<1>2. Sound(chan) /\ [Next]_chan => Sound(chan)'
  <2> SUFFICES ASSUME Sound(chan), [Next]_chan PROVE Sound(chan)'
    OBVIOUS
  <2>1. CASE Expire
    BY <2>1 DEF Expire, Sound, Channels
  <2>2. ASSUME NEW q \in Requests, Issue(q) PROVE Sound(chan)'
    BY <2>2, ServedSound DEF Issue
  <2>3. CASE UNCHANGED chan
    BY <2>3
  <2>4. QED
    BY <2>1, <2>2, <2>3 DEF Next
<1>3. QED
  BY <1>1, <1>2, PTL DEF Spec

(* The types of the device: a bank is closed exactly when no row is         *)
(* recorded for it, though a precharge and an activation set the state and  *)
(* the rows one after the other (Lambdas::Action of LPDDR5.cpp).            *)
THEOREM Types == Spec => []TypeOK
<1>1. Sound(chan) => TypeOK
  BY DEF Sound, Channels, TypeOK
<1>2. QED
  BY <1>1, SoundInvariance, PTL

-----------------------------------------------------------------------------
(* Chains of prerequisites *)

(* A request to a bank whose row is open is at its command, or a CAS away.  *)
LEMMA OpenBank ==
  ASSUME NEW c, Sound(c), NEW q \in Requests, q.cmd \in SingleBank,
         c.state[q.bank] = "Opened", q.row \in c.rows[q.bank]
  PROVE  Own(c, q) \/ Own(Served(c, q), q)
<1> DEFINE cas == CASOf[q.cmd]
           d == Served(c, q)
<1>1. q.bank \in Banks
  BY DEF Requests, SingleBank, AllBanks, Registers
<1>2. get_preq_command(c, q) = Opened(c, q.cmd)
  BY Prerequisites DEF PreqBank
<1>3. CASE q.cmd \notin {"RD", "WR"} \/ c.synced
  BY <1>2, <1>3 DEF Own, Opened, Synced
<1>4. CASE q.cmd \in {"RD", "WR"} /\ ~c.synced
  <2>1. get_preq_command(c, q) = cas /\ cas \in {"CASRD", "CASWR"}
    BY <1>2, <1>4 DEF Opened, Synced, CASOf
  <2>2. cas \in Syncing
    BY <1>4 DEF Syncing, CASOf
  <2>3. StateAfter(cas) = "unchanged"
    BY <2>1 DEF StateAfter
  <2>4. d.state[q.bank] = "Opened" /\ d.rows[q.bank] = c.rows[q.bank] /\ d.synced
    BY <1>1, <2>1, <2>2, <2>3 DEF Served, issue_command, RowsAfter
  <2>5. get_preq_command(d, q) = Opened(d, q.cmd)
    BY <2>4, Prerequisites DEF PreqBank
  <2>6. QED
    BY <2>4, <2>5 DEF Own, Opened, Synced
<1>5. QED
  BY <1>3, <1>4

(* One command brings a bank on: from half open to open, from closed to     *)
(* half open, and from another row to closed.                               *)
LEMMA BankSteps ==
  ASSUME NEW c, Sound(c), NEW q \in Requests, q.cmd \in SingleBank
  PROVE  LET d == Served(c, q)
         IN  /\ c.state[q.bank] = "Pre-Opened" =>
                  d.state[q.bank] = "Opened" /\ q.row \in d.rows[q.bank]
             /\ c.state[q.bank] = "Closed" => d.state[q.bank] = "Pre-Opened"
             /\ (c.state[q.bank] = "Opened" /\ q.row \notin c.rows[q.bank]) =>
                  d.state[q.bank] = "Closed"
<1> DEFINE d == Served(c, q)
           cmd == get_preq_command(c, q)
<1>1. q.bank \in Banks
  BY DEF Requests, SingleBank, AllBanks, Registers
<1>2. cmd = PreqBank(c, q)
  BY Prerequisites
<1>3. /\ q.bank \in Targets(cmd, q) /\ StateAfter(cmd) # "unchanged" =>
           d.state[q.bank] = StateAfter(cmd)
      /\ q.bank \in Targets(cmd, q) => d.rows[q.bank] = RowsAfter(c.rows[q.bank], cmd, q)
  BY <1>1 DEF Served, issue_command
<1> HIDE DEF d, cmd
<1>4. ASSUME c.state[q.bank] = "Pre-Opened"
      PROVE  d.state[q.bank] = "Opened" /\ q.row \in d.rows[q.bank]
  <2>1. cmd = "ACT-2"
    BY <1>2, <1>4 DEF PreqBank
  <2>2. QED
    BY <1>3, <2>1 DEF Targets, StateAfter, RowsAfter
<1>5. ASSUME c.state[q.bank] = "Closed" PROVE d.state[q.bank] = "Pre-Opened"
  <2>1. cmd = "ACT-1"
    BY <1>2, <1>5 DEF PreqBank
  <2>2. QED
    BY <1>3, <2>1 DEF Targets, StateAfter
<1>6. ASSUME c.state[q.bank] = "Opened", q.row \notin c.rows[q.bank]
      PROVE  d.state[q.bank] = "Closed"
  <2>1. cmd = "PRE"
    BY <1>2, <1>6 DEF PreqBank
  <2>2. QED
    BY <1>3, <2>1 DEF Targets, StateAfter
<1>7. QED
  BY <1>4, <1>5, <1>6 DEF d

(* A request to a bank: PRE, ACT-1, ACT-2 and CAS at most.                  *)
LEMMA BankChain ==
  ASSUME NEW c, Sound(c), NEW q \in Requests, q.cmd \in SingleBank
  PROVE  LET c1 == Served(c, q)
             c2 == Served(c1, q)
             c3 == Served(c2, q)
             c4 == Served(c3, q)
         IN  \E e \in {c, c1, c2, c3, c4} : Own(e, q)
<1> DEFINE c1 == Served(c, q)
           c2 == Served(c1, q)
           c3 == Served(c2, q)
           c4 == Served(c3, q)
<1>1. Sound(c1) /\ Sound(c2) /\ Sound(c3) /\ Sound(c4)
  BY ServedSound
<1> DEFINE Hit(e) == e.state[q.bank] = "Opened" /\ q.row \in e.rows[q.bank]
<1>2. ASSUME NEW e, Sound(e)
      PROVE  /\ Hit(e) => Own(e, q) \/ Own(Served(e, q), q)
             /\ e.state[q.bank] = "Pre-Opened" => Hit(Served(e, q))
             /\ e.state[q.bank] = "Closed" => Served(e, q).state[q.bank] = "Pre-Opened"
             /\ e.state[q.bank] = "Opened" =>
                  Hit(e) \/ Served(e, q).state[q.bank] = "Closed"
  BY <1>2, OpenBank, BankSteps
<1>3. c.state[q.bank] \in {"Closed", "Pre-Opened", "Opened"}
  BY DEF Sound, Channels, Requests, SingleBank, AllBanks, Registers
<1> HIDE DEF Hit
<1>4. CASE Hit(c)
  BY <1>2, <1>4
<1>5. CASE c.state[q.bank] = "Pre-Opened"
  BY <1>1, <1>2, <1>5
<1>6. CASE c.state[q.bank] = "Closed"
  <2>1. Hit(c2)
    BY <1>1, <1>2, <1>6
  <2>2. QED
    BY <1>1, <1>2, <2>1
<1>7. CASE c.state[q.bank] = "Opened" /\ ~Hit(c)
  <2>1. c2.state[q.bank] = "Pre-Opened"
    BY <1>1, <1>2, <1>7
  <2>2. Hit(c3)
    BY <1>1, <1>2, <2>1
  <2>3. QED
    BY <1>1, <1>2, <2>2
<1>8. QED
  BY <1>3, <1>4, <1>5, <1>6, <1>7

(* One command to all banks leaves them all in one state: closed if the     *)
(* row was missing from an open one, half open if one was closed, open if   *)
(* one was half open.                                                       *)
LEMMA RankSteps ==
  ASSUME NEW c, Sound(c), NEW q \in Requests, q.cmd \in AllBanks, ~Own(c, q)
  PROVE  LET d == Served(c, q)
             all(s) == \A b \in Banks : d.state[b] = s
         IN  \/ all("Closed")
             \/ /\ all("Pre-Opened")
                /\ \E b \in Banks : c.state[b] = "Closed"
             \/ /\ all("Opened") /\ (\A b \in Banks : q.row \in d.rows[b])
                /\ \A b \in Banks : c.state[b] # "Closed"
<1> DEFINE d == Served(c, q)
           cmd == get_preq_command(c, q)
<1>1. cmd = PreqRank(c, q)
  BY Prerequisites
<1>2. ASSUME Targets(cmd, q) = Banks, StateAfter(cmd) # "unchanged", NEW b \in Banks
      PROVE  d.state[b] = StateAfter(cmd) /\ d.rows[b] = RowsAfter(c.rows[b], cmd, q)
  BY <1>2 DEF Served, issue_command
<1>3. cmd # q.cmd
  BY DEF Own
<1> HIDE DEF d, cmd
<1>4. cmd \in {"PREA", "ACT16-1", "ACT16-2"}
  BY <1>1, <1>3 DEF PreqRank
<1>5. Targets(cmd, q) = Banks
  BY <1>4 DEF Targets
<1>6. CASE cmd = "PREA"
  <2>1. StateAfter(cmd) = "Closed"
    BY <1>6 DEF StateAfter
  <2>2. \A b \in Banks : d.state[b] = "Closed"
    BY <1>2, <1>5, <2>1
  <2>3. QED
    BY <2>2 DEF d
<1>7. CASE cmd = "ACT16-1"
  <2>1. StateAfter(cmd) = "Pre-Opened"
    BY <1>7 DEF StateAfter
  <2>2. \A b \in Banks : d.state[b] = "Pre-Opened"
    BY <1>2, <1>5, <2>1
  <2>3. \E b \in Banks : c.state[b] = "Closed"
    BY <1>1, <1>7 DEF PreqRank, AllBanks
  <2>4. QED
    BY <2>2, <2>3 DEF d
<1>8. CASE cmd = "ACT16-2"
  <2>1. StateAfter(cmd) = "Opened"
    BY <1>8 DEF StateAfter
  <2>2. \A b \in Banks : d.state[b] = "Opened" /\ d.rows[b] = RowsAfter(c.rows[b], cmd, q)
    BY <1>2, <1>5, <2>1
  <2>3. \A b \in Banks : q.row \in d.rows[b]
    BY <2>1, <2>2 DEF RowsAfter
  <2>4. \A b \in Banks : c.state[b] # "Closed"
    BY <1>1, <1>8 DEF PreqRank, AllBanks
  <2>5. QED
    BY <2>2, <2>3, <2>4 DEF d
<1>9. QED
  BY <1>4, <1>6, <1>7, <1>8

(* A request to all banks: PREA, ACT16-1 and ACT16-2 at most.               *)
LEMMA RankChain ==
  ASSUME NEW c, Sound(c), NEW q \in Requests, q.cmd \in AllBanks
  PROVE  LET c1 == Served(c, q)
             c2 == Served(c1, q)
             c3 == Served(c2, q)
         IN  \E e \in {c, c1, c2, c3} : Own(e, q)
<1> DEFINE c1 == Served(c, q)
           c2 == Served(c1, q)
           c3 == Served(c2, q)
           All(e, s) == \A b \in Banks : e.state[b] = s
           Open(e) == All(e, "Opened") /\ \A b \in Banks : q.row \in e.rows[b]
<1>1. Sound(c1) /\ Sound(c2)
  BY ServedSound
<1>2. ASSUME NEW e, Open(e) PROVE Own(e, q)
  BY <1>2, Prerequisites DEF Own, PreqRank
<1>3. ASSUME NEW e, Sound(e), ~Own(e, q)
      PROVE  LET d == Served(e, q)
             IN  \/ All(d, "Closed")
                 \/ All(d, "Pre-Opened") /\ \E b \in Banks : e.state[b] = "Closed"
                 \/ Open(d) /\ \A b \in Banks : e.state[b] # "Closed"
  BY <1>3, RankSteps, SMTT(30)
<1>4. ASSUME NEW e, Sound(e), All(e, "Closed"), ~Own(e, q)
      PROVE  All(Served(e, q), "Pre-Opened")
  <2>1. PreqRank(e, q) = "ACT16-1"
    BY <1>4, Prerequisites DEF PreqRank, Own
  <2>2. get_preq_command(e, q) = "ACT16-1"
    BY <2>1, Prerequisites
  <2>3. QED
    BY <2>2, SMTT(60) DEF Served, issue_command, Targets, StateAfter
<1>5. ASSUME NEW e, Sound(e), All(e, "Pre-Opened"), ~Own(e, q)
      PROVE  Open(Served(e, q))
  <2>1. PreqRank(e, q) = "ACT16-2"
    BY <1>5, Prerequisites DEF PreqRank, Own
  <2>2. get_preq_command(e, q) = "ACT16-2"
    BY <2>1, Prerequisites
  <2>3. /\ Served(e, q).state = [b \in Banks |-> "Opened"]
        /\ Served(e, q).rows = [b \in Banks |-> e.rows[b] \cup {q.row}]
    <3>1. StateAfter("ACT16-2") = "Opened" /\ Targets("ACT16-2", q) = Banks
      BY DEF StateAfter, Targets
    <3>2. \A b \in Banks : RowsAfter(e.rows[b], "ACT16-2", q) = e.rows[b] \cup {q.row}
      BY <3>1 DEF RowsAfter
    <3>3. QED
      BY <2>2, <3>1, <3>2 DEF Served, issue_command
  <2>4. QED
    BY <2>3
<1> HIDE DEF Open, All
<1>6. SUFFICES ASSUME ~Own(c, q), ~Own(c1, q), ~Own(c2, q) PROVE Own(c3, q)
  OBVIOUS
<1>7. All(c1, "Closed") \/ All(c1, "Pre-Opened") \/ Open(c1)
  BY <1>3, <1>6
<1>8. All(c1, "Closed")
  <2>1. ~Open(c1)
    BY <1>2, <1>6
  <2>2. ~All(c1, "Pre-Opened")
    BY <1>1, <1>2, <1>5, <1>6
  <2>3. QED
    BY <1>7, <2>1, <2>2
<1>9. All(c2, "Pre-Opened")
  BY <1>1, <1>4, <1>6, <1>8
<1>10. Open(c3)
  BY <1>1, <1>5, <1>6, <1>9
<1>11. QED
  BY <1>2, <1>10

(* An access to the registers needs a CAS at most, WRA16 among them.        *)
LEMMA RegisterChain ==
  ASSUME NEW c, NEW q \in Requests, q.cmd \in Registers \cup {"WRA16"}
  PROVE  Own(c, q) \/ Own(Served(c, q), q)
<1>1. ASSUME NEW e PROVE get_preq_command(e, q) = Synced(e, q.cmd)
  BY DEF get_preq_command, SingleBank, AllBanks, Registers
<1>2. CASE c.synced
  BY <1>1, <1>2 DEF Own, Synced
<1>3. CASE ~c.synced
  <2>1. get_preq_command(c, q) = CASOf[q.cmd]
    BY <1>1, <1>3 DEF Synced
  <2>2. CASOf[q.cmd] \in Syncing
    BY DEF Syncing, CASOf, Registers
  <2>3. Served(c, q).synced
    BY <2>1, <2>2 DEF Served, issue_command
  <2>4. QED
    BY <1>1, <2>3 DEF Own, Synced
<1>4. QED
  BY <1>2, <1>3

(* A refresh needs a PREA at most.                                          *)
LEMMA RefreshChain ==
  ASSUME NEW c, NEW q \in Requests, q.cmd = "REFab"
  PROVE  Own(c, q) \/ Own(Served(c, q), q)
<1>1. ASSUME NEW e PROVE get_preq_command(e, q) = RequireAllBanksClosed(e, q.cmd)
  BY DEF get_preq_command, SingleBank, AllBanks, Registers
<1>2. CASE \A b \in Banks : c.state[b] = "Closed"
  BY <1>1, <1>2 DEF Own, RequireAllBanksClosed
<1>3. CASE ~\A b \in Banks : c.state[b] = "Closed"
  <2>1. get_preq_command(c, q) = "PREA"
    BY <1>1, <1>3 DEF RequireAllBanksClosed
  <2>2. \A b \in Banks : Served(c, q).state[b] = "Closed"
    BY <2>1 DEF Served, issue_command, Targets, StateAfter
  <2>3. QED
    BY <1>1, <2>2 DEF Own, RequireAllBanksClosed
<1>4. QED
  BY <1>2, <1>3

(* Whatever half-activated and open rows others have left behind, a request *)
(* that is served alone comes to its own command after four others at most: *)
(* the prerequisites of LPDDR5.cpp (PREQ_BANK_ACT_DEF, PREQ_RANK_ACT_DEF,   *)
(* the CAS commands) form no cycle, for any number of banks and rows.       *)
THEOREM NoCycle == Spec => []ServedAlone
<1>1. ASSUME Sound(chan) PROVE ServedAlone
  <2>1. ASSUME NEW q \in Requests
        PROVE  LET c1 == Served(chan, q)
                   c2 == Served(c1, q)
                   c3 == Served(c2, q)
                   c4 == Served(c3, q)
               IN  \E c \in {chan, c1, c2, c3, c4} : Own(c, q)
    <3>1. q.cmd \in SingleBank \cup AllBanks \cup Registers \cup {"WRA16", "REFab"}
      BY DEF Requests
    <3>2. CASE q.cmd \in SingleBank
      BY <1>1, <3>2, BankChain
    <3>3. CASE q.cmd \in AllBanks
      BY <1>1, <3>3, RankChain
    <3>4. CASE q.cmd \in Registers \cup {"WRA16"}
      BY <3>4, RegisterChain
    <3>5. CASE q.cmd = "REFab"
      BY <3>5, RefreshChain
    <3>6. QED
      BY <3>1, <3>2, <3>3, <3>4, <3>5
  <2>2. QED
    BY <2>1 DEF ServedAlone, Own
<1>2. QED
  BY <1>1, SoundInvariance, PTL
=============================================================================
