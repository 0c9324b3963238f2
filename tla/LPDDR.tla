-------------------------------- MODULE LPDDR --------------------------------
(***************************************************************************)
(* The LPDDR5-AiM and LPDDR4-AiM devices (dram/impl/LPDDR5.cpp, LPDDR4.cpp; *)
(* the two differ in names only, ACT16-1 being ACT8-1 in the latter): a     *)
(* rank whose rows are activated in two halves, ACT-1 and ACT-2, and whose  *)
(* data accesses need a CAS command unless the clocks are still synchronous. *)
(*                                                                          *)
(* At any time the controller may choose any request, ask for its           *)
(* prerequisite and issue it: ACT-1 is not an opening command, so requests  *)
(* in different buffers take turns between the halves.  Timing is left out  *)
(* but for the synchronisation, which may expire at any time.               *)
(***************************************************************************)
EXTENDS Naturals, FiniteSets

CONSTANTS Banks, Rows

VARIABLE chan   \* m_state and m_row_state of the banks; synced: whether the
                \* clock has not passed m_final_synced_cycle

SingleBank == {"RD", "WR", "RDCP", "WRCP", "MAC"}
AllBanks   == {"MAC16", "AF16", "EWMUL16"}
Registers  == {"WRGB", "WRMAC16", "RDMAC16", "RDAF16"}

(* The requests, by their final command: to a bank, to all banks, to        *)
(* registers of the device, and a refresh.                                  *)
Requests ==
  [cmd : SingleBank, bank : Banks, row : Rows]
    \cup [cmd : AllBanks \cup Registers \cup {"WRA16", "REFab"}, row : Rows]

-----------------------------------------------------------------------------
(* Prerequisites *)

(* The accesses that need the clocks synchronous, with their CAS commands.  *)
CASOf ==
  [RD |-> "CASRD", WR |-> "CASWR", WRGB |-> "CASWRGB", WRMAC16 |-> "CASWRMAC16",
   RDMAC16 |-> "CASRDMAC16", RDAF16 |-> "CASRDAF16", WRA16 |-> "CASWRA16"]

Synced(c, cmd) == IF c.synced THEN cmd ELSE CASOf[cmd]

Opened(c, cmd) == IF cmd \in {"RD", "WR"} THEN Synced(c, cmd) ELSE cmd

(* PREQ_BANK_ACT_DEF, PREQ_BANK_ACT_SYNC_DEF.                               *)
PreqBank(c, q) ==
  CASE c.state[q.bank] = "Closed"     -> "ACT-1"
    [] c.state[q.bank] = "Pre-Opened" -> "ACT-2"
    [] c.state[q.bank] = "Opened"     ->
         IF q.row \in c.rows[q.bank] THEN Opened(c, q.cmd) ELSE "PRE"

(* PREQ_RANK_ACT_DEF.                                                       *)
PreqRank(c, q) ==
  IF \E b \in Banks : c.state[b] = "Opened" /\ q.row \notin c.rows[b] THEN "PREA"
  ELSE IF \E b \in Banks : c.state[b] = "Closed" THEN "ACT16-1"
  ELSE IF \E b \in Banks : c.state[b] = "Pre-Opened" THEN "ACT16-2"
  ELSE q.cmd

RequireAllBanksClosed(c, cmd) ==
  IF \E b \in Banks : c.state[b] # "Closed" THEN "PREA" ELSE cmd

(* WRA16 is given a prerequisite twice: the second one, of the registers,   *)
(* replaces that of PREQ_RANK_ACT_DEF.                                      *)
get_preq_command(c, q) ==
  CASE q.cmd \in SingleBank -> PreqBank(c, q)
    [] q.cmd \in AllBanks -> PreqRank(c, q)
    [] q.cmd = "REFab" -> RequireAllBanksClosed(c, q.cmd)
    [] q.cmd \in Registers \cup {"WRA16"} -> Synced(c, q.cmd)

-----------------------------------------------------------------------------
(* Actions *)

(* The banks a command acts on.                                             *)
Targets(cmd, q) == IF cmd \in {"ACT-1", "ACT-2", "PRE"} THEN {q.bank} ELSE Banks

(* The state in which a command leaves them.                                *)
StateAfter(cmd) ==
  CASE cmd \in {"ACT-1", "ACT16-1"} -> "Pre-Opened"
    [] cmd \in {"ACT-2", "ACT16-2"} -> "Opened"
    [] cmd \in {"PRE", "PREA"}      -> "Closed"
    [] OTHER                        -> "unchanged"

RowsAfter(rows, cmd, q) ==
  CASE StateAfter(cmd) = "Closed" -> {}
    [] StateAfter(cmd) \in {"Pre-Opened", "Opened"} -> rows \cup {q.row}
    [] OTHER -> rows

(* ACTION_DEF: the CAS commands and the accesses that keep the clocks       *)
(* synchronous.  The same macro replaces WRA16's action, a precharge.       *)
Syncing == DOMAIN CASOf \cup {CASOf[cmd] : cmd \in DOMAIN CASOf}

issue_command(c, cmd, q) ==
  [state  |-> [b \in Banks |-> IF StateAfter(cmd) # "unchanged" /\ b \in Targets(cmd, q)
                               THEN StateAfter(cmd) ELSE c.state[b]],
   rows   |-> [b \in Banks |-> IF b \in Targets(cmd, q) THEN RowsAfter(c.rows[b], cmd, q)
                               ELSE c.rows[b]],
   synced |-> c.synced \/ cmd \in Syncing]

-----------------------------------------------------------------------------
Init ==
  chan = [state |-> [b \in Banks |-> "Closed"], rows |-> [b \in Banks |-> {}],
          synced |-> FALSE]

(* A request is asked for its prerequisite, which is issued.                *)
Served(c, q) == issue_command(c, get_preq_command(c, q), q)

Issue(q) == chan' = Served(chan, q)

(* The cycle up to which the clocks are synchronous has passed.             *)
Expire ==
  /\ chan.synced
  /\ chan' = [chan EXCEPT !.synced = FALSE]

Next == Expire \/ \E q \in Requests : Issue(q)

Spec == Init /\ [][Next]_chan

-----------------------------------------------------------------------------
(* Properties *)

(* LPDDR5.cpp: types; a bank is closed exactly when no row is recorded.     *)
TypeOK ==
  /\ chan.state \in [Banks -> {"Closed", "Pre-Opened", "Opened"}]
  /\ \A b \in Banks : chan.state[b] = "Closed" <=> chan.rows[b] = {}
  /\ chan.rows \in [Banks -> SUBSET Rows]

(* Whatever half-activated and open rows others have left, a request that   *)
(* is served alone comes to its own command, after four others at most: no  *)
(* chain of prerequisites leads back to itself.                             *)
ServedAlone ==
  \A q \in Requests :
    LET c1 == Served(chan, q)
        c2 == Served(c1, q)
        c3 == Served(c2, q)
        c4 == Served(c3, q)
    IN  \E c \in {chan, c1, c2, c3, c4} : get_preq_command(c, q) = q.cmd
=============================================================================
