-------------------------------- MODULE GDDR6 --------------------------------
(***************************************************************************)
(* One GDDR6-AiM channel (dram/impl/GDDR6.cpp with the lambdas of           *)
(* dram/lambdas/): which command a request needs next, given the rows that  *)
(* are open, and what an issued command does to them.                       *)
(*                                                                          *)
(* m_row_state maps a bank to the set of rows recorded as open in it; the   *)
(* code's m_state is Closed exactly when that set is empty, since every     *)
(* action sets both.  A request is a record with the fields type, opcode,   *)
(* bank and row; a request to no particular bank has bank NoBank.           *)
(***************************************************************************)
EXTENDS Integers, AiMISRInfo

CONSTANT Banks

ASSUME BanksAssumption == Banks \subseteq Nat

NoBank == -1

(* m_request_translations and m_aim_request_translations.                   *)
m_request_translations ==
  [Read |-> "RD", Write |-> "WR", RefAllBank |-> "REFab"]

m_aim_request_translations ==
  [ISR_WR_GB     |-> "WRGB",    ISR_WR_BIAS   |-> "WRMAC16",
   ISR_RD_MAC    |-> "RDMAC16", ISR_RD_AF     |-> "RDAF16",
   ISR_COPY_BKGB |-> "RDCP",    ISR_COPY_GBBK |-> "WRCP",
   ISR_MAC_SBK   |-> "MAC",     ISR_MAC_ABK   |-> "MAC16",
   ISR_AF        |-> "AF16",    ISR_EWMUL     |-> "EWMUL16",
   ISR_WR_ABK    |-> "WRA16",   ISR_SYNC      |-> "SYNC",
   ISR_EOC       |-> "EOC"]

final_command(q) ==
  IF q.type = "AIM" THEN m_aim_request_translations[q.opcode]
                    ELSE m_request_translations[q.type]

(* m_command_meta: the commands that open rows, and those that close them.  *)
is_opening(cmd) == cmd \in {"ACT", "ACT4", "ACT16"}

is_closing(cmd) == cmd \in {"PREA", "PRE", "RDA", "WRA", "PRE4", "WRA16"}

(* m_command_scopes: the commands that reach a single bank; the others act  *)
(* on the channel as a whole.                                               *)
BankCommands == {"ACT", "PRE", "RD", "WR", "MAC", "RDCP", "WRCP"}

-----------------------------------------------------------------------------
(* Prerequisites *)

(* Mutant: a bank with another row open is activated, not precharged.       *)
RowOpenWithoutPRE(m_row_state, cmd, q) ==
  IF q.row \in m_row_state[q.bank] THEN cmd ELSE "ACT"

RequireRowOpen(m_row_state, cmd, q) ==
  CASE m_row_state[q.bank] = {}         -> "ACT"
    [] q.row \in m_row_state[q.bank]    -> cmd
    [] OTHER                            -> "PRE"

(* Mutant: a closed bank is noticed before a bank with another row.         *)
AllRowsClosedFirst(m_row_state, cmd, q) ==
  IF \E b \in Banks : m_row_state[b] = {} THEN "ACT16"
  ELSE IF \E b \in Banks : q.row \notin m_row_state[b] THEN "PREA"
  ELSE cmd

RequireAllRowsOpen(m_row_state, cmd, q) ==
  IF \E b \in Banks : m_row_state[b] # {} /\ q.row \notin m_row_state[b] THEN "PREA"
  ELSE IF \E b \in Banks : m_row_state[b] = {} THEN "ACT16"
  ELSE cmd

RequireAllBanksClosed(m_row_state, cmd) ==
  IF \E b \in Banks : m_row_state[b] # {} THEN "PREA" ELSE cmd

(* set_preqs: a command without a prerequisite function is returned as is.  *)
get_preq_command(m_row_state, q) ==
  LET cmd == final_command(q)
  IN  CASE cmd \in {"RD", "WR", "RDCP", "WRCP", "MAC"} ->
             RequireRowOpen(m_row_state, cmd, q)
        [] cmd \in {"WRA16", "MAC16", "AF16", "EWMUL16"} ->
             RequireAllRowsOpen(m_row_state, cmd, q)
        [] cmd = "REFab" -> RequireAllBanksClosed(m_row_state, cmd)
        [] OTHER -> cmd

-----------------------------------------------------------------------------
(* set_actions: what a command does to the rows.  Opening a row records it  *)
(* beside whatever is recorded already.                                     *)
update_states(m_row_state, cmd, q) ==
  [b \in Banks |->
     CASE cmd = "ACT" /\ b = q.bank   -> m_row_state[b] \cup {q.row}
       [] cmd = "ACT16"               -> m_row_state[b] \cup {q.row}
       [] cmd = "PRE" /\ b = q.bank   -> {}
       [] cmd \in {"PREA", "WRA16"}   -> {}
       [] OTHER                       -> m_row_state[b]]
=============================================================================
