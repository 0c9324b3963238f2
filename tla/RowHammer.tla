------------------------------ MODULE RowHammer ------------------------------
(***************************************************************************)
(* What the RowHammer plugins of dram_controller/impl/plugin/ share.  The   *)
(* controller calls update once per cycle with the command it is about to   *)
(* issue; a plugin counts the activations of each row, in a table per bank, *)
(* and asks for a refresh of a row's victims (VRR) when its count reaches a *)
(* threshold.                                                               *)
(***************************************************************************)
EXTENDS Integers, FiniteSets

CONSTANTS Ranks, BankGroups, BanksPerGroup,  \* m_organization.count of the levels
          Rows,                              \* the rows that are activated
          Threshold                          \* activations after which victims are refreshed

(* A plugin that inserts a row into its table does not look at the          *)
(* threshold, so a threshold of 1 would be missed.                          *)
RowHammerAssumption ==
  /\ Ranks \in Nat \ {0} /\ BankGroups \in Nat \ {0} /\ BanksPerGroup \in Nat \ {0}
  /\ Rows \subseteq Nat /\ IsFiniteSet(Rows)
  /\ Threshold \in Nat \ {0, 1}

Banks == (0..Ranks - 1) \X (0..BankGroups - 1) \X (0..BanksPerGroup - 1)

m_num_banks_per_rank == BankGroups * BanksPerGroup

(* Indices of the tables, one per bank of the channel.                      *)
Tables == 0..(Ranks * m_num_banks_per_rank - 1)

flat_bank_id(b) == b[3] + b[2] * BanksPerGroup + b[1] * BanksPerGroup * BankGroups
=============================================================================
