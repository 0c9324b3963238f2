------------------------------ MODULE OracleRH ------------------------------
(***************************************************************************)
(* The plugin OracleRH (dram_controller/impl/plugin/oracle_rh.cpp): an      *)
(* exact count of every row's activations since the last refresh of its     *)
(* rank or of its victims.                                                  *)
(*                                                                          *)
(* acts is history: that number, kept per bank instead of per table.        *)
(***************************************************************************)
EXTENDS RowHammer

VARIABLES m_table,   \* flat bank -> row -> count (0: no entry)
          acts

vars == <<m_table, acts>>

Init ==
  /\ m_table = [t \in Tables |-> [r \in Rows |-> 0]]
  /\ acts = [b \in Banks |-> [r \in Rows |-> 0]]

(* A row that is entered is not compared with the threshold.                *)
Wrapped(count) == IF count > 1 /\ count >= Threshold THEN 0 ELSE count

Activate(b, r) ==
  LET t == flat_bank_id(b)
      count == Wrapped(m_table[t][r] + 1)
  IN  /\ m_table' = [m_table EXCEPT ![t][r] = count]
      /\ acts' = [acts EXCEPT ![b][r] = IF count = 0 THEN 0 ELSE @ + 1]

TablesOf(rank) ==
  (rank * m_num_banks_per_rank)..((rank + 1) * m_num_banks_per_rank - 1)

Refresh(rank) ==
  /\ m_table' = [t \in Tables |-> IF t \in TablesOf(rank) THEN [r \in Rows |-> 0] ELSE m_table[t]]
  /\ acts' = [b \in Banks |-> IF b[1] = rank THEN [r \in Rows |-> 0] ELSE acts[b]]

Next == (\E b \in Banks, r \in Rows : Activate(b, r)) \/ \E k \in 0..(Ranks - 1) : Refresh(k)

Spec == Init /\ [][Next]_vars

-----------------------------------------------------------------------------
(* Properties *)

(* oracle_rh.cpp: the index of a bank's table and the range of a rank's     *)
(* tables agree: a refresh forgets the activations of its own rank's banks, *)
(* and nobody else's.                                                       *)
CountExact == \A b \in Banks, r \in Rows : m_table[flat_bank_id(b)][r] = acts[b][r]

(* What the oracle is for: no row is activated Threshold times without a    *)
(* refresh of its rank or of its victims.                                   *)
HammerBound == \A b \in Banks, r \in Rows : acts[b][r] < Threshold
=============================================================================
