------------------------------- MODULE Graphene -------------------------------
(***************************************************************************)
(* The plugin Graphene (dram_controller/impl/plugin/graphene.cpp): a table  *)
(* of a few rows per bank with a spillover counter, emptied periodically.   *)
(*                                                                          *)
(* acts and total are history: how often every row was activated since the  *)
(* last reset or the last refresh of its victims, and how often every bank  *)
(* was since the last reset.                                                *)
(***************************************************************************)
EXTENDS RowHammer

CONSTANTS m_num_table_entries,
          m_reset_period_clk

(* Enough entries for the activations that fit in a period, as the authors  *)
(* of Graphene require.                                                     *)
GrapheneAssumption ==
  /\ m_num_table_entries \in Nat \ {0} /\ m_reset_period_clk \in Nat \ {0}
  /\ m_reset_period_clk < (Threshold - 1) * (m_num_table_entries + 1)

VARIABLES m_clk,        \* modulo the period
          table,        \* m_activation_count_table: flat bank -> row -> count
          m_spillover_counter,
          acts, total

vars == <<m_clk, table, m_spillover_counter, acts, total>>

(* Keys of the fresh table: no row has such a number.                       *)
NoRows == (-m_num_table_entries)..(-1)

EmptyTables == [t \in Tables |-> [e \in NoRows |-> 0]]

Init ==
  /\ m_clk = m_reset_period_clk - 1
  /\ table = EmptyTables
  /\ m_spillover_counter = [t \in Tables |-> 0]
  /\ acts = [b \in Banks |-> [r \in Rows |-> 0]]
  /\ total = [b \in Banks |-> 0]

Now == (m_clk + 1) % m_reset_period_clk

(* The state with which an update starts: reset at the end of a period.     *)
Counts == IF Now = 0 THEN [t \in Tables |-> [e \in DOMAIN table[t] |-> 0]] ELSE table
Spills == IF Now = 0 THEN [t \in Tables |-> 0] ELSE m_spillover_counter
Acts   == IF Now = 0 THEN [b \in Banks |-> [r \in Rows |-> 0]] ELSE acts
Total  == IF Now = 0 THEN [b \in Banks |-> 0] ELSE total

Idle ==
  /\ m_clk' = Now
  /\ table' = Counts /\ m_spillover_counter' = Spills
  /\ acts' = Acts /\ total' = Total

(* The entries that a new row may replace; which of them is up to the order *)
(* of the hash table.                                                       *)
Replaceable(t) == {e \in DOMAIN Counts[t] : Counts[t][e] = Spills[t]}

(* Mutant: the old entry is not erased.                                     *)
ReplacedWithoutErase(counts, e, r, spill) ==
  [x \in DOMAIN counts \cup {r} |-> IF x = r THEN spill + 1 ELSE counts[x]]

Replaced(counts, e, r, spill) ==
  [x \in (DOMAIN counts \ {e}) \cup {r} |-> IF x = r THEN spill + 1 ELSE counts[x]]

(* The row is not in the table.                                             *)
ActivateNew(b, r) ==
  LET t == flat_bank_id(b)
  IN  /\ r \notin DOMAIN Counts[t]
      /\ \/ \E e \in Replaceable(t) :
              /\ table' = [Counts EXCEPT ![t] = Replaced(@, e, r, Spills[t])]
              /\ m_spillover_counter' = Spills
         \/ /\ Replaceable(t) = {}
            /\ table' = Counts
            /\ m_spillover_counter' = [Spills EXCEPT ![t] = @ + 1]
      /\ acts' = [Acts EXCEPT ![b][r] = @ + 1]

Due(count) == count >= Threshold

(* The row is in the table: its victims are refreshed if it is time.        *)
ActivateKnown(b, r) ==
  LET t == flat_bank_id(b)
      count == Counts[t][r] + 1
  IN  /\ r \in DOMAIN Counts[t]
      /\ table' = [Counts EXCEPT ![t][r] = IF Due(count) THEN Spills[t] ELSE count]
      /\ acts' = [Acts EXCEPT ![b][r] = IF Due(count) THEN 0 ELSE @ + 1]
      /\ m_spillover_counter' = Spills

Activate(b, r) ==
  /\ m_clk' = Now
  /\ total' = [Total EXCEPT ![b] = @ + 1]
  /\ ActivateNew(b, r) \/ ActivateKnown(b, r)

update == Idle \/ \E b \in Banks, r \in Rows : Activate(b, r)

Spec == Init /\ [][update]_vars

-----------------------------------------------------------------------------
(* Properties *)

(* graphene.cpp: types; the table keeps its size whatever it replaces.      *)
TypeOK ==
  /\ m_clk \in 0..(m_reset_period_clk - 1)
  /\ \A t \in Tables :
       /\ DOMAIN table[t] \subseteq NoRows \cup Rows
       /\ Cardinality(DOMAIN table[t]) = m_num_table_entries
       /\ \A e \in DOMAIN table[t] : table[t][e] \in Nat
  /\ m_spillover_counter \in [Tables -> Nat]
  /\ acts \in [Banks -> [Rows -> Nat]] /\ total \in [Banks -> Nat]

(* The estimate of a row, its count or else the spillover counter, is never *)
(* below the number of its activations, through replacements and refreshes. *)
EstimateCovers ==
  \A b \in Banks, r \in Rows :
    LET t == flat_bank_id(b)
    IN  acts[b][r] <= IF r \in DOMAIN table[t] THEN table[t][r] ELSE m_spillover_counter[t]

(* No entry is below the spillover counter, so the counter stays below the  *)
(* average: activations of one bank never wear out the tables of another.   *)
SpilloverBounded ==
  \A b \in Banks :
    LET t == flat_bank_id(b)
    IN  /\ \A e \in DOMAIN table[t] : table[t][e] >= m_spillover_counter[t]
        /\ (m_num_table_entries + 1) * m_spillover_counter[t] <= total[b]

(* What Graphene is for: no row is activated Threshold times in a period    *)
(* without a refresh of its victims.                                        *)
HammerBound == \A b \in Banks, r \in Rows : acts[b][r] < Threshold
=============================================================================
