------------------------------- MODULE MCPlugins -------------------------------
(***************************************************************************)
(* The RowHammer plugins, each in a setup of its own; RRS has two: "swaps", *)
(* in which the tracker holds one row and a period is too short for a row   *)
(* to be swapped twice, and "epoch", in which it may be.                    *)
(***************************************************************************)
EXTENDS Integers

VARIABLES
  setup,
  m_clk, acts,                                     \* of several plugins
  table, m_spillover_counter, total,               \* Graphene (the second one of RRS, too)
  m_twice_table, refreshes, recent,                \* TWiCe
  m_table,                                         \* OracleRH
  m_rcc_policy, group_count_table, row_count_table, row_count_cache,
  rct_count_table, sent,                           \* Hydra
  m_hot_row_tracker, m_row_indirection_table, exited, contents,  \* RRS
  waiting, astray, twins, parted

grapheneonly == <<table, total>>
twiceonly    == <<m_twice_table, refreshes, recent>>
hydraonly    == <<m_rcc_policy, group_count_table, row_count_table, row_count_cache,
                  rct_count_table, sent>>
rrsonly      == <<m_hot_row_tracker, m_row_indirection_table, exited, contents,
                  waiting, astray, twins, parted>>

allvars == <<setup, m_clk, acts, m_spillover_counter, m_table, grapheneonly, twiceonly,
             hydraonly, rrsonly>>

G == INSTANCE Graphene WITH
  Ranks <- 2, BankGroups <- 1, BanksPerGroup <- 1, Rows <- 0..2, Threshold <- 4,
  m_num_table_entries <- 2, m_reset_period_clk <- 8

H == INSTANCE Hydra WITH
  Ranks <- 1, BankGroups <- 2, BanksPerGroup <- 1, Rows <- {0, 4, 6}, Threshold <- 3,
  m_group_threshold <- 1, m_row_group_size <- 4, m_reset_period_clk <- 9,
  m_num_rows_per_bank <- 8, m_num_cls <- 2, m_counter_bits <- 8, LineBits <- 16,
  Ways <- 2, m_rcc_set_num <- 2

W == INSTANCE TWiCe WITH
  Ranks <- 2, BankGroups <- 1, BanksPerGroup <- 1, Rows <- {0}, Threshold <- 6,
  m_twice_pruning_interval_threshold <- 2, MaxRefreshes <- 5, MaxActs <- 4

O == INSTANCE OracleRH WITH
  Ranks <- 2, BankGroups <- 2, BanksPerGroup <- 1, Rows <- {0, 1}, Threshold <- 3

Swaps == INSTANCE RRS WITH
  Ranks <- 1, BankGroups <- 1, BanksPerGroup <- 1, Rows <- 0..4, Threshold <- 2,
  m_num_hrt_entries <- 1, m_num_rit_entries <- 4, m_reset_period_clk <- 3,
  m_num_cls <- 1, max_size <- 7

Epoch == INSTANCE RRS WITH
  Ranks <- 1, BankGroups <- 1, BanksPerGroup <- 1, Rows <- 0..2, Threshold <- 2,
  m_num_hrt_entries <- 2, m_num_rit_entries <- 4, m_reset_period_clk <- 5,
  m_num_cls <- 1, max_size <- 12

ASSUME PluginsAssumption ==
  /\ G!RowHammerAssumption /\ G!GrapheneAssumption
  /\ H!RowHammerAssumption /\ H!HydraAssumption
  /\ W!RowHammerAssumption /\ W!TWiCeAssumption
  /\ O!RowHammerAssumption
  /\ Swaps!RowHammerAssumption /\ Swaps!RRSAssumption /\ Swaps!RITAssumption
  /\ Epoch!RowHammerAssumption /\ Epoch!RRSAssumption /\ Epoch!RITAssumption

(* What Hydra is assumed of besides, where counters are stored.             *)
ASSUME PlacesAssumption == H!CountersFill

-----------------------------------------------------------------------------
(* What a setup does not use is 0.                                          *)
NoGraphene == table = 0 /\ total = 0
NoTWiCe    == m_twice_table = 0 /\ refreshes = 0 /\ recent = 0
NoHydra    == /\ m_rcc_policy = 0 /\ group_count_table = 0 /\ row_count_table = 0
              /\ row_count_cache = 0 /\ rct_count_table = 0 /\ sent = 0
NoRRS      == /\ m_hot_row_tracker = 0 /\ m_row_indirection_table = 0 /\ exited = 0
              /\ contents = 0 /\ waiting = 0 /\ astray = 0 /\ twins = 0 /\ parted = 0
NoOracle   == m_table = 0
NoSpills   == m_spillover_counter = 0
NoClock    == m_clk = 0

MCInit ==
  \/ setup = "Graphene" /\ G!Init /\ NoTWiCe /\ NoHydra /\ NoRRS /\ NoOracle
  \/ setup = "Hydra" /\ H!Init /\ NoGraphene /\ NoTWiCe /\ NoRRS /\ NoOracle /\ NoSpills
  \/ setup = "TWiCe" /\ W!Init /\ NoGraphene /\ NoHydra /\ NoRRS /\ NoOracle /\ NoSpills /\ NoClock
  \/ setup = "OracleRH" /\ O!Init /\ NoGraphene /\ NoTWiCe /\ NoHydra /\ NoRRS /\ NoSpills /\ NoClock
  \/ setup = "swaps" /\ Swaps!Init /\ NoGraphene /\ NoTWiCe /\ NoHydra /\ NoOracle
  \/ setup = "epoch" /\ Epoch!Init /\ NoGraphene /\ NoTWiCe /\ NoHydra /\ NoOracle

MCNext ==
  \/ setup = "Graphene" /\ G!update /\ UNCHANGED <<setup, m_table, twiceonly, hydraonly, rrsonly>>
  \/ setup = "Hydra" /\ H!update
     /\ UNCHANGED <<setup, m_spillover_counter, m_table, grapheneonly, twiceonly, rrsonly>>
  \/ setup = "TWiCe" /\ W!Next
     /\ UNCHANGED <<setup, m_clk, m_spillover_counter, m_table, grapheneonly, hydraonly, rrsonly>>
  \/ setup = "OracleRH" /\ O!Next
     /\ UNCHANGED <<setup, m_clk, m_spillover_counter, grapheneonly, twiceonly, hydraonly, rrsonly>>
  \/ setup = "swaps" /\ Swaps!Next /\ UNCHANGED <<setup, m_table, grapheneonly, twiceonly, hydraonly>>
  \/ setup = "epoch" /\ Epoch!Next /\ UNCHANGED <<setup, m_table, grapheneonly, twiceonly, hydraonly>>

MCSpec == MCInit /\ [][MCNext]_allvars

(* No property of RRS depends on what is found in place of lost rows.       *)
MCView ==
  CASE setup = "swaps" -> <<setup, Swaps!Followed>>
    [] setup = "epoch" -> <<setup, Epoch!Followed>>
    [] OTHER           -> <<setup, allvars>>

-----------------------------------------------------------------------------
(* The properties of the plugins; see the modules that state them.          *)

(* Tables and counters keep their sizes and ranges.                         *)
PluginsTypeOK ==
  CASE setup = "Graphene" -> G!TypeOK
    [] setup = "Hydra"    -> H!TypeOK
    [] setup = "TWiCe"    -> W!TypeOK
    [] setup = "OracleRH" -> TRUE
    [] setup = "swaps"    -> Swaps!TypeOK
    [] setup = "epoch"    -> Epoch!TypeOK

(* No row is activated up to the threshold without a refresh of its victims *)
(* or, in RRS, a swap, whatever moves in and out of the tables.             *)
HammerBound ==
  CASE setup = "Graphene" -> G!HammerBound
    [] setup = "Hydra"    -> H!HammerBound
    [] setup = "TWiCe"    -> TRUE
    [] setup = "OracleRH" -> O!HammerBound
    [] setup = "swaps"    -> Swaps!HammerBound
    [] setup = "epoch"    -> Epoch!HammerBound

(* What a plugin counts is what happened: Graphene's estimates cover the    *)
(* activations and its spillover counter stays below the average, what      *)
(* TWiCe's pruning forgets is bounded, the oracle is exact, and Hydra's     *)
(* counters agree between cache and table and are kept in reserved rows.    *)
CountsKept ==
  CASE setup = "Graphene" -> G!EstimateCovers /\ G!SpilloverBounded
    [] setup = "Hydra"    -> H!CacheCoherent /\ H!CountersInReservedRows
    [] setup = "TWiCe"    -> W!PruningBounded
    [] setup = "OracleRH" -> O!CountExact
    [] OTHER              -> TRUE

(* RRS: the indirection leads to the row's own data, but for the rows that  *)
(* second swaps draw, and the program stops only for want of room.          *)
IndirectionSound ==
  CASE setup = "swaps" -> Swaps!DataFollows /\ Swaps!ExitsForWantOfRoom
    [] setup = "epoch" -> Epoch!DataFollows /\ Epoch!ExitsForWantOfRoom
    [] OTHER           -> TRUE
=============================================================================
