-------------------------------- MODULE TWiCe --------------------------------
(***************************************************************************)
(* The plugin TWiCe (dram_controller/impl/plugin/twice.cpp): a table per    *)
(* bank of the rows activated lately.  Every refresh command ends a pruning *)
(* interval, in which rows that were activated too seldom are forgotten.    *)
(*                                                                          *)
(* acts and refreshes are history: activations of a row since the last      *)
(* refresh of its victims, and intervals so far.                            *)
(***************************************************************************)
EXTENDS RowHammer

CONSTANTS m_twice_pruning_interval_threshold,
          MaxRefreshes,   \* bound on the number of refreshes
          MaxActs         \* bound on the activations between two refreshes

TWiCeAssumption ==
  m_twice_pruning_interval_threshold \in Nat /\ MaxRefreshes \in Nat /\ MaxActs \in Nat

VARIABLES m_twice_table,  \* flat bank -> row -> act_count (0: no entry), life
          acts, refreshes, recent

vars == <<m_twice_table, acts, refreshes, recent>>

NoEntry == [act_count |-> 0, life |-> 0]

Init ==
  /\ m_twice_table = [t \in Tables |-> [r \in Rows |-> NoEntry]]
  /\ acts = [b \in Banks |-> [r \in Rows |-> 0]]
  /\ refreshes = 0
  /\ recent = 0

Pruned(e) == e.act_count < e.life * m_twice_pruning_interval_threshold

AfterInterval(e) ==
  IF e = NoEntry \/ Pruned(e) THEN NoEntry ELSE [e EXCEPT !.life = @ + 1]

(* A refresh of any rank ends an interval for the tables of all ranks.      *)
Refresh ==
  /\ refreshes < MaxRefreshes
  /\ m_twice_table' = [t \in Tables |-> [r \in Rows |-> AfterInterval(m_twice_table[t][r])]]
  /\ refreshes' = refreshes + 1
  /\ recent' = 0
  /\ UNCHANGED acts

(* A new row is entered; the entry of a row that reaches the threshold is   *)
(* erased and its victims are refreshed.                                    *)
AfterActivation(e) ==
  IF e # NoEntry /\ e.act_count + 1 >= Threshold THEN NoEntry
  ELSE [e EXCEPT !.act_count = @ + 1]

Activate(b, r) ==
  LET t == flat_bank_id(b)
      e == AfterActivation(m_twice_table[t][r])
  IN  /\ recent < MaxActs
      /\ recent' = recent + 1
      /\ m_twice_table' = [m_twice_table EXCEPT ![t][r] = e]
      /\ acts' = [acts EXCEPT ![b][r] = IF e = NoEntry THEN 0 ELSE @ + 1]
      /\ UNCHANGED refreshes

Next == Refresh \/ \E b \in Banks, r \in Rows : Activate(b, r)

Spec == Init /\ [][Next]_vars

-----------------------------------------------------------------------------
(* Properties *)

(* twice.cpp: types; no count in the table reaches the threshold.           *)
TypeOK ==
  /\ \A t \in Tables, r \in Rows :
       m_twice_table[t][r].act_count \in 0..(Threshold - 1) /\ m_twice_table[t][r].life \in 0..refreshes
  /\ acts \in [Banks -> [Rows -> Nat]]
  /\ refreshes \in 0..MaxRefreshes /\ recent \in 0..MaxActs

(* What pruning may forget of a row is bounded by the pruning threshold for *)
(* every interval but one in which the row was not in the table, however    *)
(* often it is entered, forgotten and entered again.                        *)
PruningBounded ==
  \A b \in Banks, r \in Rows :
    LET e == m_twice_table[flat_bank_id(b)][r]
        away == refreshes - e.life - 1
    IN  acts[b][r] - e.act_count <=
          IF away > 0 THEN away * m_twice_pruning_interval_threshold ELSE 0
=============================================================================
