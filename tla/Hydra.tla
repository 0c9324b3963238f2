-------------------------------- MODULE Hydra --------------------------------
(***************************************************************************)
(* The plugin Hydra (dram_controller/impl/plugin/hydra.cpp).  Rows are      *)
(* counted by groups until a group is hot (GCT); from then on every row has *)
(* a counter in a table that is stored in reserved rows of its own bank     *)
(* (RCT) and cached in the controller (RCC).  Activations of the reserved   *)
(* rows are counted apart.                                                  *)
(*                                                                          *)
(* Shifts are divisions by powers of two.  acts is history: activations     *)
(* since the last reset or the last refresh of the row's victims.           *)
(***************************************************************************)
EXTENDS RowHammer

CONSTANTS m_group_threshold, m_row_group_size, m_reset_period_clk,
          m_num_rows_per_bank, m_num_cls, m_counter_bits,
          LineBits,       \* bits of a cache line (512 in the code)
          Ways,           \* entries of a cache set (16 in the code)
          m_rcc_set_num

(* The counts are powers of two, and groups are counted to less than the    *)
(* threshold of a row.                                                      *)
HydraAssumption ==
  /\ m_group_threshold \in 1..(Threshold - 1)
  /\ {m_row_group_size, m_num_rows_per_bank, m_num_cls, m_counter_bits, LineBits, m_rcc_set_num}
       \subseteq Nat \ {0}
  /\ m_num_rows_per_bank % m_row_group_size = 0
  /\ m_num_rows_per_bank % m_rcc_set_num = 0
  /\ m_reset_period_clk \in Nat \ {0} /\ Ways \in Nat \ {0}
  /\ \A r \in Rows : r < m_num_rows_per_bank

(* Lines are filled by counters, which are of 8 or 16 bits for thresholds   *)
(* up to 2^16, and those of a bank fill whole lines.                        *)
CountersFill ==
  /\ LineBits % m_counter_bits = 0
  /\ (m_num_rows_per_bank * m_counter_bits) % LineBits = 0

VARIABLES m_clk,              \* modulo the period
          m_rcc_policy,
          group_count_table,  \* flat bank -> group -> count, initialized
          row_count_table,    \* flat bank -> row -> count
          row_count_cache,    \* rank -> set -> tag -> count
          rct_count_table,    \* flat bank -> reserved row -> count
          sent,               \* the requests sent by the last update
          acts

vars == <<m_clk, m_rcc_policy, group_count_table, row_count_table, row_count_cache,
          rct_count_table, sent, acts>>

m_rct_per_row == (m_num_cls * LineBits) \div m_counter_bits
m_rct_per_cl  == LineBits \div m_counter_bits
m_total_rct_cl_size == (m_num_rows_per_bank * m_counter_bits) \div LineBits
m_total_rct_row_size == (m_total_rct_cl_size + m_num_cls - 1) \div m_num_cls
m_group_rct_cl_size == (m_row_group_size * m_counter_bits) \div LineBits

AllRows == 0..(m_num_rows_per_bank - 1)
Groups  == 0..(m_num_rows_per_bank \div m_row_group_size - 1)
Sets    == 0..(m_rcc_set_num - 1)
TagRows == m_num_rows_per_bank \div m_rcc_set_num

gct_index(r) == r \div m_row_group_size

rcc_index(r) == r % m_rcc_set_num

bank_id(b) == flat_bank_id(b) % m_num_banks_per_rank

rcc_tag(b, r) == r \div m_rcc_set_num + bank_id(b) * TagRows

(* generate_row_col_id: where the counter of a row is stored.               *)
generate_row_col_id(r) ==
  [row |-> r \div m_rct_per_row,
   col |-> (((r % m_rct_per_row) * m_counter_bits) \div LineBits) * 8]

(* A request for the stored counter of row r of bank b.                     *)
CounterRequest(type, b, r) == [type |-> type, bank |-> b, at |-> generate_row_col_id(r)]

VictimRefresh(b, r) == [type |-> "victim-row-refresh", bank |-> b, at |-> [row |-> r, col |-> 0]]

(* The cleared tables: absent entries count as 0.                           *)
NoGroups == [t \in Tables |-> [g \in Groups |-> [count |-> 0, initialized |-> FALSE]]]
NoCounts == [t \in Tables |-> [r \in AllRows |-> 0]]
NoCache  == [k \in 0..(Ranks - 1) |-> [s \in Sets |-> [e \in {} |-> 0]]]
NoActs   == [b \in Banks |-> [r \in Rows |-> 0]]

Init ==
  /\ m_clk = m_reset_period_clk - 1
  /\ m_rcc_policy \in {"RANDOM", "MIN_COUNT"}
  /\ group_count_table = NoGroups
  /\ row_count_table = NoCounts
  /\ row_count_cache = NoCache
  /\ rct_count_table = NoCounts
  /\ sent = {}
  /\ acts = NoActs

-----------------------------------------------------------------------------
(* update *)

Now == (m_clk + 1) % m_reset_period_clk

(* The tables with which an update starts: cleared at the end of a period.  *)
GCT  == IF Now = 0 THEN NoGroups ELSE group_count_table
RCT  == IF Now = 0 THEN NoCounts ELSE row_count_table
RCC  == IF Now = 0 THEN NoCache ELSE row_count_cache
RCTC == IF Now = 0 THEN NoCounts ELSE rct_count_table
Acts == IF Now = 0 THEN NoActs ELSE acts

Clocked == m_clk' = Now /\ UNCHANGED m_rcc_policy

Idle ==
  /\ Clocked
  /\ group_count_table' = GCT /\ row_count_table' = RCT /\ row_count_cache' = RCC
  /\ rct_count_table' = RCTC /\ sent' = {} /\ acts' = Acts

(* Counting an activation of row r of bank b, up to the threshold.          *)
Counted(b, r, count) ==
  acts' = [Acts EXCEPT ![b][r] = IF count >= Threshold THEN 0 ELSE @ + 1]

Wrapped(count) == IF count >= Threshold THEN 0 ELSE count

VictimRefreshes(b, r, count) == IF count >= Threshold THEN {VictimRefresh(b, r)} ELSE {}

(* A row that stores counters.                                              *)
ActivateReserved(b, r) ==
  LET t == flat_bank_id(b)
      count == RCTC[t][r] + 1
  IN  /\ r < m_total_rct_row_size
      /\ rct_count_table' = [RCTC EXCEPT ![t][r] = Wrapped(count)]
      /\ sent' = VictimRefreshes(b, r, count)
      /\ Counted(b, r, count)
      /\ group_count_table' = GCT /\ row_count_table' = RCT /\ row_count_cache' = RCC

(* A row of a group that is not hot yet.                                    *)
ActivateCold(b, r) ==
  LET t == flat_bank_id(b)
  IN  /\ r >= m_total_rct_row_size
      /\ GCT[t][gct_index(r)].count < m_group_threshold
      /\ group_count_table' = [GCT EXCEPT ![t][gct_index(r)].count = @ + 1]
      /\ sent' = {}
      /\ acts' = [Acts EXCEPT ![b][r] = @ + 1]
      /\ row_count_table' = RCT /\ row_count_cache' = RCC /\ rct_count_table' = RCTC

(* Mutant: the counters of a hot group start at 0.                          *)
InitializedFromZero(t, g) ==
  IF GCT[t][g].initialized THEN RCT[t]
  ELSE [r \in AllRows |-> IF gct_index(r) = g THEN 0 ELSE RCT[t][r]]

(* The counters of a bank once the group is initialized.                    *)
Initialized(t, g) ==
  IF GCT[t][g].initialized THEN RCT[t]
  ELSE [r \in AllRows |-> IF gct_index(r) = g THEN m_group_threshold ELSE RCT[t][r]]

InitWrites(b, g) ==
  IF GCT[flat_bank_id(b)][g].initialized THEN {}
  ELSE {CounterRequest("write", b, g * m_row_group_size + i * m_rct_per_cl) :
          i \in 0..(m_group_rct_cl_size - 1)}

Full(rank, s) == Cardinality(DOMAIN RCC[rank][s]) = Ways

(* The entries that get_tag_to_evict may pick.                              *)
get_tag_to_evict(rank, s) ==
  {e \in DOMAIN RCC[rank][s] :
     m_rcc_policy = "MIN_COUNT" => \A f \in DOMAIN RCC[rank][s] : RCC[rank][s][e] <= RCC[rank][s][f]}

(* The write of an evicted entry, its bank and row found from its tag.      *)
EvictedWrite(rank, s, tag) ==
  CounterRequest("write",
                 <<rank, (tag \div TagRows) \div BanksPerGroup, (tag \div TagRows) % BanksPerGroup>>,
                 (tag % TagRows) * m_rcc_set_num + s)

(* Mutant: a hit updates the cache only.                                    *)
HitInCacheOnly(rows, r, count) == rows

(* The counters of the bank after a hit that makes the cached count so.     *)
TableAfterHit(rows, r, count) ==
  [rows EXCEPT ![r] = IF count >= Threshold THEN 0 ELSE @ + 1]

(* A row of a hot group whose counter is cached.                            *)
ActivateHit(b, r) ==
  LET t == flat_bank_id(b)
      s == rcc_index(r)
      tag == rcc_tag(b, r)
      count == RCC[b[1]][s][tag] + 1
      rows == Initialized(t, gct_index(r))
  IN  /\ r >= m_total_rct_row_size
      /\ GCT[t][gct_index(r)].count >= m_group_threshold
      /\ tag \in DOMAIN RCC[b[1]][s]
      /\ group_count_table' = [GCT EXCEPT ![t][gct_index(r)].initialized = TRUE]
      /\ row_count_cache' = [RCC EXCEPT ![b[1]][s][tag] = Wrapped(count)]
      /\ row_count_table' = [RCT EXCEPT ![t] = TableAfterHit(rows, r, count)]
      /\ sent' = InitWrites(b, gct_index(r)) \cup VictimRefreshes(b, r, count)
      /\ Counted(b, r, count)
      /\ rct_count_table' = RCTC

(* One whose counter is not: evicted is the entry that makes room, if any.  *)
ActivateMissEvicting(b, r, evicted) ==
  LET t == flat_bank_id(b)
      s == rcc_index(r)
      tag == rcc_tag(b, r)
      rows == Initialized(t, gct_index(r))
      count == rows[r] + 1
      kept == DOMAIN RCC[b[1]][s] \ evicted
  IN  /\ row_count_cache' =
           [RCC EXCEPT ![b[1]][s] =
              [e \in kept \cup {tag} |-> IF e = tag THEN Wrapped(count) ELSE RCC[b[1]][s][e]]]
      /\ row_count_table' = [RCT EXCEPT ![t] = [rows EXCEPT ![r] = Wrapped(count)]]
      /\ sent' = InitWrites(b, gct_index(r)) \cup {EvictedWrite(b[1], s, e) : e \in evicted}
                 \cup {CounterRequest("read", b, r)} \cup VictimRefreshes(b, r, count)
      /\ Counted(b, r, count)

ActivateMiss(b, r) ==
  LET t == flat_bank_id(b)
      s == rcc_index(r)
  IN  /\ r >= m_total_rct_row_size
      /\ GCT[t][gct_index(r)].count >= m_group_threshold
      /\ rcc_tag(b, r) \notin DOMAIN RCC[b[1]][s]
      /\ group_count_table' = [GCT EXCEPT ![t][gct_index(r)].initialized = TRUE]
      /\ rct_count_table' = RCTC
      /\ \/ ~Full(b[1], s) /\ ActivateMissEvicting(b, r, {})
         \/ Full(b[1], s) /\ \E e \in get_tag_to_evict(b[1], s) : ActivateMissEvicting(b, r, {e})

Activate(b, r) ==
  /\ Clocked
  /\ ActivateReserved(b, r) \/ ActivateCold(b, r) \/ ActivateHit(b, r) \/ ActivateMiss(b, r)

update == Idle \/ \E b \in Banks, r \in Rows : Activate(b, r)

Spec == Init /\ [][update]_vars

-----------------------------------------------------------------------------
(* Properties *)

Cached(rcc, b, r) == rcc_tag(b, r) \in DOMAIN rcc[b[1]][rcc_index(r)]

(* hydra.cpp: types; no set of the cache grows beyond its ways.             *)
TypeOK ==
  /\ m_clk \in 0..(m_reset_period_clk - 1)
  /\ \A t \in Tables, g \in Groups : group_count_table[t][g].count \in 0..m_group_threshold
  /\ row_count_table \in [Tables -> [AllRows -> 0..(Threshold - 1)]]
  /\ rct_count_table \in [Tables -> [AllRows -> 0..(Threshold - 1)]]
  /\ \A k \in 0..(Ranks - 1), s \in Sets : Cardinality(DOMAIN row_count_cache[k][s]) <= Ways

(* What the cache says of a row is what its table would say, so that an     *)
(* entry can be evicted and read again without losing activations.          *)
CacheCoherent ==
  \A b \in Banks, r \in Rows :
    Cached(row_count_cache, b, r) =>
      row_count_cache[b[1]][rcc_index(r)][rcc_tag(b, r)] = row_count_table[flat_bank_id(b)][r]

(* Counters are stored in the rows that reserve_rows_for_rct keeps free of  *)
(* data.                                                                    *)
CountersInReservedRows ==
  \A q \in sent : q.type \in {"read", "write"} => q.at.row < m_total_rct_row_size

(* What Hydra is for: no row is activated Threshold times in a period       *)
(* without a refresh of its victims, whether counted by its group, in the   *)
(* cache or in the table.                                                   *)
HammerBound == \A b \in Banks, r \in Rows : acts[b][r] < Threshold
=============================================================================
