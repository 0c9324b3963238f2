--------------------------- MODULE RowHammer_proofs ---------------------------
(***************************************************************************)
(* Proofs about the RowHammer plugins, for any numbers of ranks, groups,    *)
(* banks and rows, any threshold and any table sizes: their tables are not  *)
(* mixed up, their counts are what happened, and no row is activated up to  *)
(* the threshold without a refresh of its victims.                          *)
(***************************************************************************)
EXTENDS RowHammer, FiniteSetTheorems, TLAPS

CONSTANTS m_num_table_entries, m_reset_period_clk,                          \* Graphene
          m_twice_pruning_interval_threshold, MaxRefreshes, MaxActs,        \* TWiCe
          m_group_threshold, m_row_group_size, m_num_rows_per_bank,         \* Hydra
          m_num_cls, m_counter_bits, LineBits, Ways, m_rcc_set_num,
          m_num_hrt_entries, m_num_rit_entries, max_size                    \* RRS

VARIABLES acts,                                                             \* of all of them
          m_clk, table, m_spillover_counter, total,                         \* Graphene
          m_twice_table, refreshes, recent,                                 \* TWiCe
          m_table,                                                          \* OracleRH
          m_rcc_policy, group_count_table, row_count_table,                 \* Hydra
          row_count_cache, rct_count_table, sent,
          m_hot_row_tracker, m_row_indirection_table, exited, contents,     \* RRS
          waiting, astray, twins, parted

G == INSTANCE Graphene

W == INSTANCE TWiCe

O == INSTANCE OracleRH

H == INSTANCE Hydra

R == INSTANCE RRS

-----------------------------------------------------------------------------
(* The tables of the banks *)

LEMMA Monotone ==
  ASSUME NEW x \in Int, NEW y \in Int, NEW n \in Nat, x <= y
  PROVE  x * n <= y * n
BY SMT

(* Numbers with digits below n are equal when their digits are.             *)
LEMMA DigitsUnique ==
  ASSUME NEW n \in Nat, NEW p \in Nat, NEW q \in Nat, NEW x \in 0..(n - 1), NEW y \in 0..(n - 1),
         p * n + x = q * n + y
  PROVE  p = q /\ x = y
<1>1. ASSUME NEW u \in Nat, NEW v \in Nat, u < v PROVE u * n + n <= v * n
  <2>1. (u + 1) * n <= v * n
    BY <1>1, Monotone
  <2>2. (u + 1) * n = u * n + n
    OBVIOUS
  <2> QED BY <2>1, <2>2
<1>2. ~(p < q)
  BY <1>1
<1>3. ~(q < p)
  BY <1>1
<1>4. p = q
  BY <1>2, <1>3
<1> QED BY <1>4

(* The index of a table has the rank, the group and the bank as digits, so  *)
(* that every bank has a table of its own and the tables of a rank are      *)
(* those of its banks.                                                      *)
LEMMA TableOfBank ==
  ASSUME RowHammerAssumption
  PROVE  /\ \A b \in Banks : flat_bank_id(b) \in Tables
         /\ \A a, b \in Banks : flat_bank_id(a) = flat_bank_id(b) => a = b
         /\ \A b \in Banks, rank \in 0..(Ranks - 1) :
              flat_bank_id(b) \in (rank * m_num_banks_per_rank)..((rank + 1) * m_num_banks_per_rank - 1)
                <=> b[1] = rank
<1> DEFINE M == m_num_banks_per_rank
           Within(b) == b[2] * BanksPerGroup + b[3]
<1>1. M \in Nat \ {0} /\ Ranks \in Nat \ {0} /\ BankGroups \in Nat \ {0} /\ BanksPerGroup \in Nat \ {0}
  BY SMT DEF RowHammerAssumption, m_num_banks_per_rank
<1>2. ASSUME NEW b \in Banks
      PROVE  /\ b[1] \in 0..(Ranks - 1) /\ b[2] \in 0..(BankGroups - 1) /\ b[3] \in 0..(BanksPerGroup - 1)
             /\ b = <<b[1], b[2], b[3]>>
             /\ Within(b) \in 0..(M - 1) /\ flat_bank_id(b) = b[1] * M + Within(b)
  <2>1. /\ b[1] \in 0..(Ranks - 1) /\ b[2] \in 0..(BankGroups - 1) /\ b[3] \in 0..(BanksPerGroup - 1)
        /\ b = <<b[1], b[2], b[3]>>
    BY DEF Banks
  <2>2. (b[2] + 1) * BanksPerGroup <= BankGroups * BanksPerGroup
    BY <1>1, <2>1, Monotone
  <2>3. (b[2] + 1) * BanksPerGroup = b[2] * BanksPerGroup + BanksPerGroup
    BY <1>1, <2>1
  <2>4. 0 * BanksPerGroup <= b[2] * BanksPerGroup
    BY <1>1, <2>1, Monotone
  <2>5. Within(b) \in 0..(M - 1)
    BY <1>1, <2>1, <2>2, <2>3, <2>4 DEF m_num_banks_per_rank
  <2>6. flat_bank_id(b) = b[1] * M + Within(b)
    BY <1>1, <2>1 DEF flat_bank_id, m_num_banks_per_rank
  <2> QED BY <2>1, <2>5, <2>6
<1>3. ASSUME NEW b \in Banks PROVE flat_bank_id(b) \in Tables
  <2> HIDE DEF M, Within
  <2>1. (b[1] + 1) * M <= Ranks * M /\ 0 * M <= b[1] * M
    <3>1. M \in Nat /\ b[1] \in Int /\ Ranks \in Int /\ b[1] + 1 <= Ranks /\ 0 <= b[1]
      BY <1>1, <1>2
    <3> QED BY <3>1, Monotone
  <2>2. (b[1] + 1) * M = b[1] * M + M
    BY <1>1, <1>2
  <2>3. Tables = 0..(Ranks * M - 1)
    BY DEF Tables, M
  <2>4. b[1] * M \in Int /\ Ranks * M \in Int
    BY <1>1, <1>2
  <2>5. 0 <= b[1] * M /\ b[1] * M + M <= Ranks * M
    BY <1>1, <2>1, <2>2
  <2>6. Within(b) \in 0..(M - 1) /\ flat_bank_id(b) = b[1] * M + Within(b)
    BY <1>2
  <2> DEFINE low == b[1] * M
             high == Ranks * M
  <2> HIDE DEF low, high
  <2>7. low \in Int /\ high \in Int /\ 0 <= low /\ low + M <= high
        /\ flat_bank_id(b) = low + Within(b) /\ Tables = 0..(high - 1)
    BY <2>3, <2>4, <2>5, <2>6 DEF low, high
  <2> QED BY <1>1, <2>6, <2>7
<1> HIDE DEF M
<1>4. ASSUME NEW a \in Banks, NEW b \in Banks, flat_bank_id(a) = flat_bank_id(b) PROVE a = b
  <2>1. a[1] \in Nat /\ b[1] \in Nat /\ Within(a) \in 0..(M - 1) /\ Within(b) \in 0..(M - 1)
        /\ a[1] * M + Within(a) = b[1] * M + Within(b)
    BY <1>2, <1>4
  <2>2. a[1] = b[1] /\ Within(a) = Within(b)
    <3> HIDE DEF Within
    <3> QED BY <1>1, <2>1, DigitsUnique
  <2>3. a[2] = b[2] /\ a[3] = b[3]
    BY <1>1, <1>2, <2>2, DigitsUnique
  <2> QED BY <1>2, <2>2, <2>3
<1>5. ASSUME NEW b \in Banks, NEW rank \in 0..(Ranks - 1)
      PROVE  flat_bank_id(b) \in (rank * M)..((rank + 1) * M - 1) <=> b[1] = rank
  <2>1. (rank + 1) * M = rank * M + M /\ rank * M \in Int /\ b[1] * M \in Int
    BY <1>1, <1>2
  <2>2. CASE b[1] = rank
    BY <1>1, <1>2, <2>1, <2>2
  <2>3. CASE b[1] # rank
    <3>1. ASSUME flat_bank_id(b) \in (rank * M)..((rank + 1) * M - 1) PROVE FALSE
      <4> DEFINE x == flat_bank_id(b) - rank * M
      <4>1. x \in 0..(M - 1) /\ rank * M + x = b[1] * M + Within(b)
        BY <1>1, <1>2, <2>1, <3>1
      <4> QED BY <1>1, <1>2, <2>3, <4>1, DigitsUnique
    <3> QED BY <2>3, <3>1
  <2> QED BY <2>2, <2>3
<1> QED BY <1>3, <1>4, <1>5 DEF M

-----------------------------------------------------------------------------
(* OracleRH *)

LEMMA OracleNames ==
  /\ O!Banks = Banks /\ O!Tables = Tables /\ O!m_num_banks_per_rank = m_num_banks_per_rank
  /\ \A b : O!flat_bank_id(b) = flat_bank_id(b)
BY DEF O!Banks, Banks, O!Tables, Tables, O!m_num_banks_per_rank, m_num_banks_per_rank,
       O!flat_bank_id, flat_bank_id

OracleInv ==
  /\ m_table \in [Tables -> [Rows -> 0..(Threshold - 1)]]
  /\ acts \in [Banks -> [Rows -> Nat]]
  /\ O!CountExact

LEMMA OracleInvariance ==
  ASSUME RowHammerAssumption
  PROVE  O!Spec => []OracleInv
<1>1. Threshold \in Nat \ {0, 1}
  BY DEF RowHammerAssumption
<1>2. O!Init => OracleInv
  BY <1>1, TableOfBank, OracleNames DEF O!Init, OracleInv, O!CountExact
<1>3. OracleInv /\ [O!Next]_O!vars => OracleInv'
  <2> SUFFICES ASSUME OracleInv, [O!Next]_O!vars PROVE OracleInv'
    OBVIOUS
  <2> USE DEF OracleInv
  <2>1. ASSUME NEW b \in Banks, NEW r \in Rows, O!Activate(b, r) PROVE OracleInv'
    <3> DEFINE t == flat_bank_id(b)
               count == O!Wrapped(m_table[t][r] + 1)
    <3>1. /\ m_table' = [m_table EXCEPT ![t][r] = count]
          /\ acts' = [acts EXCEPT ![b][r] = IF count = 0 THEN 0 ELSE @ + 1]
      BY <2>1, OracleNames DEF O!Activate
    <3>2. t \in Tables /\ m_table[t][r] \in 0..(Threshold - 1) /\ m_table[t][r] = acts[b][r]
      BY TableOfBank, OracleNames DEF O!CountExact
    <3>3. count \in 0..(Threshold - 1) /\ (count # 0 => count = acts[b][r] + 1)
      BY <1>1, <3>2 DEF O!Wrapped
    <3> HIDE DEF count
    <3>4. m_table' \in [Tables -> [Rows -> 0..(Threshold - 1)]] /\ acts' \in [Banks -> [Rows -> Nat]]
      <4>1. acts[b] \in [Rows -> Nat] /\ acts[b][r] + 1 \in Nat
        OBVIOUS
      <4> HIDE DEF t
      <4> QED BY <3>1, <3>2, <3>3, <4>1
    <3>5. ASSUME NEW a \in Banks, NEW q \in Rows PROVE m_table'[flat_bank_id(a)][q] = acts'[a][q]
      <4>1. m_table[flat_bank_id(a)][q] = acts[a][q] /\ flat_bank_id(a) \in Tables
        BY TableOfBank, OracleNames DEF O!CountExact
      <4>2. a = b <=> flat_bank_id(a) = t
        BY TableOfBank
      <4> HIDE DEF t
      <4> QED BY <3>1, <3>2, <3>3, <4>1, <4>2
    <3> QED BY <3>4, <3>5, OracleNames DEF O!CountExact
  <2>2. ASSUME NEW k \in 0..(Ranks - 1), O!Refresh(k) PROVE OracleInv'
    <3>1. /\ m_table' = [t \in Tables |-> IF t \in O!TablesOf(k) THEN [r \in Rows |-> 0] ELSE m_table[t]]
          /\ acts' = [b \in Banks |-> IF b[1] = k THEN [r \in Rows |-> 0] ELSE acts[b]]
      BY <2>2, OracleNames DEF O!Refresh
    <3>2. \A a \in Banks : flat_bank_id(a) \in O!TablesOf(k) <=> a[1] = k
      BY TableOfBank, OracleNames DEF O!TablesOf
    <3>3. m_table' \in [Tables -> [Rows -> 0..(Threshold - 1)]] /\ acts' \in [Banks -> [Rows -> Nat]]
      BY <1>1, <3>1
    <3>4. ASSUME NEW a \in Banks, NEW q \in Rows PROVE m_table'[flat_bank_id(a)][q] = acts'[a][q]
      BY <3>1, <3>2, TableOfBank, OracleNames DEF O!CountExact
    <3> QED BY <3>3, <3>4, OracleNames DEF O!CountExact
  <2>3. CASE UNCHANGED O!vars
    BY <2>3 DEF O!vars, O!CountExact
  <2> QED BY <2>1, <2>2, <2>3, OracleNames DEF O!Next
<1> QED BY <1>2, <1>3, PTL DEF O!Spec

(* Activations of a row are counted at the row of its own bank, and a       *)
(* refresh clears the counts of its own rank and of no other.               *)
THEOREM OracleExact ==
  ASSUME RowHammerAssumption
  PROVE  O!Spec => []O!CountExact
<1>1. OracleInv => O!CountExact
  BY DEF OracleInv
<1> QED BY <1>1, OracleInvariance, PTL

(* The oracle lets no row be activated Threshold times without a refresh.   *)
THEOREM OracleBound ==
  ASSUME RowHammerAssumption
  PROVE  O!Spec => []O!HammerBound
<1>1. OracleInv => O!HammerBound
  BY TableOfBank, OracleNames DEF OracleInv, O!CountExact, O!HammerBound, RowHammerAssumption
<1> QED BY <1>1, OracleInvariance, PTL

-----------------------------------------------------------------------------
(* TWiCe *)

LEMMA TWiCeNames ==
  /\ W!Banks = Banks /\ W!Tables = Tables
  /\ \A b : W!flat_bank_id(b) = flat_bank_id(b)
BY DEF W!Banks, Banks, W!Tables, Tables, W!m_num_banks_per_rank, m_num_banks_per_rank,
       W!flat_bank_id, flat_bank_id

(* An entry of the table, and what is forgotten of a row with that entry    *)
(* after n intervals: see PruningBounded.                                   *)
Entry == [act_count : 0..(Threshold - 1), life : Nat]

Forgotten(n, e) ==
  IF n - e.life - 1 > 0 THEN (n - e.life - 1) * m_twice_pruning_interval_threshold ELSE 0

TWiCeInv ==
  /\ m_twice_table \in [Tables -> [Rows -> Entry]]
  /\ acts \in [Banks -> [Rows -> Nat]]
  /\ refreshes \in 0..MaxRefreshes /\ recent \in 0..MaxActs
  /\ \A t \in Tables, r \in Rows : m_twice_table[t][r].life <= refreshes
  /\ \A b \in Banks, r \in Rows :
       LET e == m_twice_table[flat_bank_id(b)][r]
       IN  acts[b][r] - e.act_count <= Forgotten(refreshes, e)

(* An interval forgets an entry of fewer activations than the threshold for *)
(* each interval of its life; these, too, are intervals in which the row    *)
(* will have been away.                                                     *)
LEMMA IntervalForgets ==
  ASSUME W!TWiCeAssumption, NEW n \in Nat, NEW e \in Entry, e.life <= n, NEW a \in Nat,
         a - e.act_count <= Forgotten(n, e), Threshold \in Nat
  PROVE  /\ W!AfterInterval(e) \in Entry /\ W!AfterInterval(e).life <= n + 1
         /\ a - W!AfterInterval(e).act_count <= Forgotten(n + 1, W!AfterInterval(e))
<1> DEFINE th == m_twice_pruning_interval_threshold
           d == W!AfterInterval(e)
           Holds == d \in Entry /\ d.life <= n + 1 /\ a - d.act_count <= Forgotten(n + 1, d)
<1>1. th \in Nat /\ e.life \in Nat /\ e.act_count \in 0..(Threshold - 1) /\ e \in Entry
  BY DEF W!TWiCeAssumption, Entry
<1>2. Forgotten(n, e) = IF n - e.life - 1 > 0 THEN (n - e.life - 1) * th ELSE 0
  BY DEF Forgotten
<1>3. ASSUME a <= n * th, n > 0 \/ a = 0, d = W!NoEntry PROVE Holds
  <2>1. d.life = 0 /\ d.act_count = 0 /\ d \in Entry
    BY <1>1, <1>3 DEF W!NoEntry, Entry
  <2>2. Forgotten(n + 1, d) = IF n > 0 THEN n * th ELSE 0
    BY <2>1 DEF Forgotten
  <2> QED BY <1>3, <2>1, <2>2
<1> HIDE DEF th
<1>4. \A x, y \in Int : x <= y => x * th <= y * th
  BY <1>1, Monotone
<1>5. CASE e = W!NoEntry
  <2>1. d = W!NoEntry /\ e.life = 0 /\ e.act_count = 0
    BY <1>5 DEF W!AfterInterval, W!NoEntry
  <2>2. 0 * th <= n * th /\ (n - 1) * th <= n * th /\ n * th \in Int /\ (n - 1) * th \in Int
    BY <1>1, <1>4
  <2>3. n - e.life - 1 = n - 1 /\ 0 * th = 0 /\ a - e.act_count = a
    BY <1>1, <2>1
  <2>4. a <= (IF n - 1 > 0 THEN (n - 1) * th ELSE 0)
    BY <1>2, <2>3
  <2>5. a <= n * th /\ (n > 0 \/ a = 0)
    BY <2>2, <2>3, <2>4
  <2> QED BY <1>3, <2>1, <2>5
<1>6. CASE e # W!NoEntry /\ W!Pruned(e)
  <2>1. d = W!NoEntry
    BY <1>6 DEF W!AfterInterval
  <2>2. e.act_count < e.life * th
    BY <1>6 DEF W!Pruned, th
  <2>3. e.life # 0
    BY <1>1, <2>2
  <2>4. e.life * th <= n * th /\ (n - 1) * th <= n * th /\ e.life * th \in Int /\ n * th \in Int
    BY <1>1, <1>4
  <2>5. (n - e.life - 1) * th + e.life * th = (n - 1) * th
    BY <1>1
  <2>6. (n - e.life - 1) * th \in Int /\ (n - 1) * th \in Int
    BY <1>1
  <2>7. a <= n * th
    BY <1>1, <1>2, <2>2, <2>4, <2>5, <2>6
  <2> QED BY <1>1, <1>3, <2>1, <2>3, <2>7
<1>7. CASE e # W!NoEntry /\ ~W!Pruned(e)
  <2>1. d = [e EXCEPT !.life = @ + 1]
    BY <1>7 DEF W!AfterInterval
  <2>2. d \in Entry /\ d.life = e.life + 1 /\ d.act_count = e.act_count
    BY <1>1, <2>1 DEF Entry
  <2>3. Forgotten(n + 1, d) = Forgotten(n, e)
    <3>1. (n + 1) - d.life - 1 = n - e.life - 1
      BY <1>1, <2>2
    <3> QED BY <3>1 DEF Forgotten
  <2> QED BY <1>1, <2>2, <2>3
<1> QED BY <1>5, <1>6, <1>7

LEMMA TWiCeInvariance ==
  ASSUME RowHammerAssumption, W!TWiCeAssumption
  PROVE  W!Spec => []TWiCeInv
<1>1. Threshold \in Nat \ {0, 1}
  BY DEF RowHammerAssumption
<1>2. MaxRefreshes \in Nat /\ MaxActs \in Nat /\ m_twice_pruning_interval_threshold \in Nat
  BY DEF W!TWiCeAssumption
<1>3. W!Init => TWiCeInv
  <2> SUFFICES ASSUME W!Init PROVE TWiCeInv
    OBVIOUS
  <2>1. /\ m_twice_table = [t \in Tables |-> [r \in Rows |-> W!NoEntry]]
        /\ acts = [b \in Banks |-> [r \in Rows |-> 0]] /\ refreshes = 0 /\ recent = 0
    BY TWiCeNames DEF W!Init
  <2>2. W!NoEntry \in Entry /\ W!NoEntry.life = 0 /\ W!NoEntry.act_count = 0
    BY <1>1 DEF W!NoEntry, Entry
  <2> QED BY <1>2, <2>1, <2>2, TableOfBank DEF TWiCeInv, Forgotten
<1>4. TWiCeInv /\ [W!Next]_W!vars => TWiCeInv'
  <2> SUFFICES ASSUME TWiCeInv, [W!Next]_W!vars PROVE TWiCeInv'
    OBVIOUS
  <2>1. CASE W!Refresh
    <3>1. /\ refreshes < MaxRefreshes /\ refreshes' = refreshes + 1 /\ recent' = 0 /\ acts' = acts
          /\ m_twice_table' = [t \in Tables |-> [r \in Rows |-> W!AfterInterval(m_twice_table[t][r])]]
      BY <2>1, TWiCeNames DEF W!Refresh
    <3>2. ASSUME NEW t \in Tables, NEW r \in Rows
          PROVE  W!AfterInterval(m_twice_table[t][r]) \in Entry
                 /\ W!AfterInterval(m_twice_table[t][r]).life <= refreshes + 1
                 /\ \A a \in Nat :
                      a - m_twice_table[t][r].act_count <= Forgotten(refreshes, m_twice_table[t][r])
                      => a - W!AfterInterval(m_twice_table[t][r]).act_count
                           <= Forgotten(refreshes + 1, W!AfterInterval(m_twice_table[t][r]))
      <4> DEFINE e == m_twice_table[t][r]
      <4>1. e \in Entry /\ e.life <= refreshes /\ refreshes \in Nat
        BY <1>2 DEF TWiCeInv
      <4>2. 0 - e.act_count <= Forgotten(refreshes, e)
        BY <1>1, <1>2, <4>1 DEF Entry, Forgotten
      <4> HIDE DEF e
      <4> QED BY <1>1, <4>1, <4>2, IntervalForgets DEF e
    <3>3. ASSUME NEW b \in Banks, NEW r \in Rows
          PROVE  acts[b][r] - W!AfterInterval(m_twice_table[flat_bank_id(b)][r]).act_count
                   <= Forgotten(refreshes + 1, W!AfterInterval(m_twice_table[flat_bank_id(b)][r]))
      <4>1. flat_bank_id(b) \in Tables /\ acts[b][r] \in Nat
            /\ acts[b][r] - m_twice_table[flat_bank_id(b)][r].act_count
                 <= Forgotten(refreshes, m_twice_table[flat_bank_id(b)][r])
        BY TableOfBank DEF TWiCeInv
      <4> QED BY <3>2, <4>1
    <3> QED BY <1>2, <3>1, <3>2, <3>3, TableOfBank DEF TWiCeInv
  <2>2. ASSUME NEW b \in Banks, NEW r \in Rows, W!Activate(b, r) PROVE TWiCeInv'
    <3> DEFINE t == flat_bank_id(b)
               old == m_twice_table[t][r]
               e == W!AfterActivation(old)
    <3>1. /\ recent < MaxActs /\ recent' = recent + 1 /\ refreshes' = refreshes
          /\ m_twice_table' = [m_twice_table EXCEPT ![t][r] = e]
          /\ acts' = [acts EXCEPT ![b][r] = IF e = W!NoEntry THEN 0 ELSE @ + 1]
      BY <2>2, TWiCeNames DEF W!Activate
    <3>2. t \in Tables /\ old \in Entry /\ old.life <= refreshes /\ acts[b] \in [Rows -> Nat]
          /\ acts[b][r] \in Nat /\ acts[b][r] - old.act_count <= Forgotten(refreshes, old)
          /\ refreshes \in Nat
      BY <1>2, TableOfBank DEF TWiCeInv
    <3> HIDE DEF t, old
    <3>3. /\ e \in Entry /\ e.life <= refreshes
          /\ (IF e = W!NoEntry THEN 0 ELSE acts[b][r] + 1) - e.act_count <= Forgotten(refreshes, e)
      <4>1. CASE e = W!NoEntry
        <5>1. e \in Entry /\ e.life = 0 /\ e.act_count = 0
          BY <1>1, <4>1 DEF W!NoEntry, Entry
        <5>2. Forgotten(refreshes, e) >= 0
          BY <1>2, <3>2, <5>1 DEF Forgotten
        <5> QED BY <3>2, <4>1, <5>1, <5>2
      <4>2. CASE e # W!NoEntry
        <5>1. e = [old EXCEPT !.act_count = @ + 1] /\ ~(old # W!NoEntry /\ old.act_count + 1 >= Threshold)
          BY <4>2 DEF W!AfterActivation
        <5>2. e.act_count = old.act_count + 1 /\ e.life = old.life
          BY <3>2, <5>1 DEF Entry
        <5>3. old.act_count + 1 < Threshold
          BY <1>1, <3>2, <5>1 DEF W!NoEntry, Entry
        <5>4. e \in Entry
          BY <1>1, <3>2, <5>1, <5>3 DEF Entry
        <5>5. Forgotten(refreshes, e) = Forgotten(refreshes, old)
          BY <5>2 DEF Forgotten
        <5>6. Forgotten(refreshes, old) \in Int /\ old.act_count \in Int
          BY <1>2, <3>2 DEF Forgotten, Entry
        <5> QED BY <3>2, <4>2, <5>2, <5>4, <5>5, <5>6
      <4> QED BY <4>1, <4>2
    <3> DEFINE new == IF e = W!NoEntry THEN 0 ELSE acts[b][r] + 1
    <3>4. new \in Nat /\ acts' = [acts EXCEPT ![b][r] = new]
      BY <3>1, <3>2
    <3> HIDE DEF e, new
    <3>5. /\ m_twice_table' \in [Tables -> [Rows -> Entry]] /\ acts' \in [Banks -> [Rows -> Nat]]
          /\ recent' \in 0..MaxActs /\ refreshes' \in 0..MaxRefreshes
          /\ \A u \in Tables, q \in Rows : m_twice_table'[u][q].life <= refreshes'
      BY <1>2, <3>1, <3>2, <3>3, <3>4 DEF TWiCeInv
    <3>6. ASSUME NEW a \in Banks, NEW q \in Rows
          PROVE  acts'[a][q] - m_twice_table'[flat_bank_id(a)][q].act_count
                   <= Forgotten(refreshes', m_twice_table'[flat_bank_id(a)][q])
      <4>1. flat_bank_id(a) \in Tables
            /\ acts[a][q] - m_twice_table[flat_bank_id(a)][q].act_count
                 <= Forgotten(refreshes, m_twice_table[flat_bank_id(a)][q])
        BY TableOfBank DEF TWiCeInv
      <4>2. CASE a = b /\ q = r
        BY <3>1, <3>2, <3>3, <3>4, <4>2 DEF t, new, TWiCeInv
      <4>3. CASE ~(a = b /\ q = r)
        <5>1. ~(flat_bank_id(a) = t /\ q = r)
          BY <4>3, TableOfBank DEF t
        <5>2. m_twice_table'[flat_bank_id(a)][q] = m_twice_table[flat_bank_id(a)][q]
          BY <3>1, <3>2, <4>1, <5>1 DEF TWiCeInv
        <5>3. acts'[a][q] = acts[a][q]
          BY <3>4, <4>3 DEF TWiCeInv
        <5> QED BY <3>1, <4>1, <5>2, <5>3
      <4> QED BY <4>2, <4>3
    <3> QED BY <3>5, <3>6 DEF TWiCeInv
  <2>3. CASE UNCHANGED W!vars
    BY <2>3 DEF W!vars, TWiCeInv
  <2> QED BY <2>1, <2>2, <2>3, TWiCeNames DEF W!Next
<1> QED BY <1>3, <1>4, PTL DEF W!Spec

(* The table of TWiCe keeps its ranges.                                     *)
THEOREM TWiCeTypes ==
  ASSUME RowHammerAssumption, W!TWiCeAssumption
  PROVE  W!Spec => []W!TypeOK
<1>1. TWiCeInv => W!TypeOK
  BY TWiCeNames DEF TWiCeInv, W!TypeOK, Entry
<1> QED BY <1>1, TWiCeInvariance, PTL

(* What pruning forgets of a row is bounded, however often it is entered,   *)
(* forgotten and entered again.                                             *)
THEOREM TWiCePruning ==
  ASSUME RowHammerAssumption, W!TWiCeAssumption
  PROVE  W!Spec => []W!PruningBounded
<1>1. TWiCeInv => W!PruningBounded
  BY TWiCeNames DEF TWiCeInv, W!PruningBounded, Forgotten
<1> QED BY <1>1, TWiCeInvariance, PTL

-----------------------------------------------------------------------------
(* Graphene *)

LEMMA GrapheneNames ==
  /\ G!Banks = Banks /\ G!Tables = Tables
  /\ \A b : G!flat_bank_id(b) = flat_bank_id(b)
BY DEF G!Banks, Banks, G!Tables, Tables, G!m_num_banks_per_rank, m_num_banks_per_rank,
       G!flat_bank_id, flat_bank_id

(* A table of a bank, with rows or keys that no row has.                    *)
Keys == G!NoRows \cup Rows

Shape(f) ==
  /\ DOMAIN f \subseteq Keys /\ Cardinality(DOMAIN f) = m_num_table_entries
  /\ f \in [DOMAIN f -> Nat]

(* A table as a set with one element for each activation that it counts.    *)
Cells(f) == {c \in (DOMAIN f) \X Nat : c[2] \in 1..f[c[1]]}

(* The table f and the spillover counter s of a bank whose rows have been   *)
(* activated a times, in all n times: every activation is counted once at   *)
(* most, and none is missing in the estimate of its row.                    *)
Sound(f, s, a, n) ==
  /\ Shape(f) /\ s \in Nat /\ a \in [Rows -> Nat] /\ n \in Nat
  /\ \A e \in DOMAIN f : s <= f[e] /\ f[e] < Threshold
  /\ \A r \in Rows : a[r] <= IF r \in DOMAIN f THEN f[r] ELSE s
  /\ Cardinality(Cells(f)) + s <= n

LEMMA ShapeFinite ==
  ASSUME RowHammerAssumption, G!GrapheneAssumption, NEW f, Shape(f)
  PROVE  IsFiniteSet(DOMAIN f)
<1>1. m_num_table_entries \in Nat
  BY DEF G!GrapheneAssumption
<1>2. IsFiniteSet(G!NoRows)
  BY <1>1, FS_Interval DEF G!NoRows
<1>3. IsFiniteSet(Keys)
  BY <1>2, FS_Union DEF Keys, RowHammerAssumption
<1> QED BY <1>3, FS_Subset DEF Shape

LEMMA CellsFinite ==
  ASSUME RowHammerAssumption, G!GrapheneAssumption, NEW f, Shape(f),
         \A e \in DOMAIN f : f[e] < Threshold
  PROVE  IsFiniteSet(Cells(f)) /\ Cardinality(Cells(f)) \in Nat
<1>1. Threshold \in Nat
  BY DEF RowHammerAssumption
<1>2. IsFiniteSet(1..Threshold)
  BY <1>1, FS_Interval
<1>3. IsFiniteSet((DOMAIN f) \X (1..Threshold))
  BY <1>2, ShapeFinite, FS_Product
<1>4. Cells(f) \subseteq (DOMAIN f) \X (1..Threshold)
  <2> SUFFICES ASSUME NEW c \in Cells(f) PROVE c \in (DOMAIN f) \X (1..Threshold)
    OBVIOUS
  <2>1. c = <<c[1], c[2]>> /\ c[1] \in DOMAIN f /\ c[2] \in 1..f[c[1]]
    BY DEF Cells
  <2>2. f[c[1]] \in Nat /\ f[c[1]] < Threshold
    BY <2>1 DEF Shape
  <2>3. c[2] \in 1..Threshold
    BY <1>1, <2>1, <2>2
  <2> QED BY <2>1, <2>3
<1>5. IsFiniteSet(Cells(f))
  BY <1>3, <1>4, FS_Subset
<1> QED BY <1>5, FS_CardinalityType

(* Entries that are not below the spillover count it each.                  *)
LEMMA SpillsCounted ==
  ASSUME NEW f, NEW s \in Nat, IsFiniteSet(DOMAIN f), IsFiniteSet(Cells(f)),
         \A e \in DOMAIN f : f[e] \in Nat /\ s <= f[e]
  PROVE  Cardinality(DOMAIN f) * s <= Cardinality(Cells(f))
<1>1. (DOMAIN f) \X (1..s) \subseteq Cells(f)
  <2> SUFFICES ASSUME NEW c \in (DOMAIN f) \X (1..s) PROVE c \in Cells(f)
    OBVIOUS
  <2>1. c[1] \in DOMAIN f /\ c[2] \in 1..s /\ c \in (DOMAIN f) \X Nat
    OBVIOUS
  <2>2. c[2] \in 1..f[c[1]]
    BY <2>1
  <2> QED BY <2>1, <2>2 DEF Cells
<1>2. IsFiniteSet(1..s) /\ Cardinality(1..s) = s
  BY FS_Interval
<1>3. Cardinality((DOMAIN f) \X (1..s)) = Cardinality(DOMAIN f) * s
  BY <1>2, FS_Product
<1> QED BY <1>1, <1>3, FS_Subset

(* Every entry counts the spillover at least, so the spillover counter is   *)
(* no more than the average, and a new row is below the threshold.          *)
LEMMA SpillBelowAverage ==
  ASSUME RowHammerAssumption, G!GrapheneAssumption, NEW f, NEW s, NEW a, NEW n, Sound(f, s, a, n)
  PROVE  (m_num_table_entries + 1) * s <= n
<1>1. m_num_table_entries \in Nat /\ s \in Nat /\ n \in Nat /\ Shape(f)
  BY DEF G!GrapheneAssumption, Sound
<1>2. IsFiniteSet(Cells(f)) /\ Cardinality(Cells(f)) \in Nat
  BY CellsFinite DEF Sound
<1>3. IsFiniteSet(DOMAIN f) /\ Cardinality(DOMAIN f) = m_num_table_entries
  BY <1>1, ShapeFinite DEF Shape
<1>4. \A e \in DOMAIN f : f[e] \in Nat /\ s <= f[e]
  BY <1>1 DEF Sound, Shape
<1>5. m_num_table_entries * s <= Cardinality(Cells(f))
  BY <1>1, <1>2, <1>3, <1>4, SpillsCounted
<1>6. (m_num_table_entries + 1) * s = m_num_table_entries * s + s /\ m_num_table_entries * s \in Nat
  BY <1>1
<1>7. Cardinality(Cells(f)) + s <= n
  BY DEF Sound
<1> QED BY <1>1, <1>2, <1>5, <1>6, <1>7

(* A table of zeros.                                                        *)
LEMMA ZerosSound ==
  ASSUME RowHammerAssumption, NEW f, Shape(f), \A e \in DOMAIN f : f[e] = 0
  PROVE  Sound(f, 0, [r \in Rows |-> 0], 0)
<1>1. Threshold \in Nat \ {0, 1}
  BY DEF RowHammerAssumption
<1>2. Cells(f) = {}
  BY DEF Cells
<1>3. Cardinality(Cells(f)) = 0
  BY <1>2, FS_EmptySet
<1> QED BY <1>1, <1>3 DEF Sound

(* A set with one element more.                                             *)
LEMMA OneMore ==
  ASSUME NEW S, NEW x, IsFiniteSet(S), Cardinality(S) \in Nat
  PROVE  /\ IsFiniteSet(S \cup {x}) /\ Cardinality(S \cup {x}) \in Nat
         /\ Cardinality(S \cup {x}) <= Cardinality(S) + 1
<1>1. IsFiniteSet(S \cup {x}) /\ Cardinality(S \cup {x}) = IF x \in S THEN Cardinality(S) ELSE Cardinality(S) + 1
  BY FS_AddElement
<1> QED BY <1>1

(* A row that is in the table is activated: counted, or its victims         *)
(* refreshed and its count reduced to the spillover.                        *)
LEMMA KnownSound ==
  ASSUME RowHammerAssumption, G!GrapheneAssumption, NEW f, NEW s, NEW a, NEW n, Sound(f, s, a, n),
         NEW r \in Rows, r \in DOMAIN f, NEW count \in Nat, NEW activated \in Nat,
         s <= count, count < Threshold, count <= f[r] + 1, activated <= count
  PROVE  Sound([f EXCEPT ![r] = count], s, [a EXCEPT ![r] = activated], n + 1)
<1> DEFINE g == [f EXCEPT ![r] = count]
<1>1. s \in Nat /\ n \in Nat /\ Shape(f) /\ a \in [Rows -> Nat] /\ Threshold \in Nat
  BY DEF Sound, RowHammerAssumption
<1>2. DOMAIN g = DOMAIN f /\ g[r] = count /\ \A e \in DOMAIN f : e # r => g[e] = f[e]
  OBVIOUS
<1>3. Shape(g)
  <2>1. g \in [DOMAIN f -> Nat]
    BY <1>1 DEF Shape
  <2> QED BY <1>1, <1>2, <2>1 DEF Shape
<1> HIDE DEF g
<1>4. \A e \in DOMAIN g : s <= g[e] /\ g[e] < Threshold
  BY <1>2 DEF Sound
<1>5. ASSUME NEW q \in Rows
      PROVE  [a EXCEPT ![r] = activated][q] <= IF q \in DOMAIN g THEN g[q] ELSE s
  BY <1>1, <1>2 DEF Sound
<1>6. IsFiniteSet(Cells(f)) /\ Cardinality(Cells(f)) \in Nat /\ Cardinality(Cells(f)) + s <= n
  BY CellsFinite DEF Sound
<1>7. Cells(g) \subseteq Cells(f) \cup {<<r, f[r] + 1>>}
  <2> SUFFICES ASSUME NEW c \in Cells(g), c \notin Cells(f) PROVE c = <<r, f[r] + 1>>
    OBVIOUS
  <2>1. c = <<c[1], c[2]>> /\ c[1] \in DOMAIN f /\ c[2] \in Nat /\ c[2] \in 1..g[c[1]] /\ c \in (DOMAIN f) \X Nat
    BY <1>2 DEF Cells
  <2>2. c[2] \notin 1..f[c[1]]
    BY <2>1 DEF Cells
  <2>3. c[1] = r
    BY <1>2, <2>1, <2>2
  <2>4. f[r] \in Nat
    BY <1>1 DEF Shape
  <2>5. c[2] = f[r] + 1
    BY <1>2, <2>1, <2>2, <2>3, <2>4
  <2> QED BY <2>1, <2>3, <2>5
<1>8. /\ IsFiniteSet(Cells(f) \cup {<<r, f[r] + 1>>})
      /\ Cardinality(Cells(f) \cup {<<r, f[r] + 1>>}) <= Cardinality(Cells(f)) + 1
  BY <1>6, OneMore
<1>9. Cardinality(Cells(g)) <= Cardinality(Cells(f) \cup {<<r, f[r] + 1>>})
  BY <1>7, <1>8, FS_Subset
<1>10. IsFiniteSet(Cells(g)) /\ Cardinality(Cells(g)) \in Nat
  BY <1>3, <1>4, CellsFinite
<1>11. Cardinality(Cells(f) \cup {<<r, f[r] + 1>>}) \in Nat
  BY <1>8, FS_CardinalityType
<1>12. Cardinality(Cells(g)) + s <= n + 1
  BY <1>1, <1>6, <1>8, <1>9, <1>10, <1>11
<1>13. [a EXCEPT ![r] = activated] \in [Rows -> Nat]
  BY <1>1
<1> QED BY <1>1, <1>3, <1>4, <1>5, <1>12, <1>13 DEF Sound, g

(* A table in which a row counts one more than it did, or than the entry    *)
(* did whose place it takes, has one element more at most.                  *)
LEMMA CellsMoved ==
  ASSUME NEW f, NEW g, NEW e \in DOMAIN f, NEW r \in DOMAIN g, f[e] \in Nat, g[r] = f[e] + 1,
         \A x \in DOMAIN g : x # r => x \in DOMAIN f /\ x # e /\ g[x] = f[x],
         IsFiniteSet(Cells(f))
  PROVE  IsFiniteSet(Cells(g)) /\ Cardinality(Cells(g)) <= Cardinality(Cells(f)) + 1
<1> DEFINE new == <<r, f[e] + 1>>
           Moved(c) == IF c # new /\ c[1] = e THEN <<r, c[2]>> ELSE c
           S == Cells(f) \cup {new}
           T == {Moved(c) : c \in S}
           h == [c \in S |-> Moved(c)]
<1>1. IsFiniteSet(S) /\ Cardinality(S) <= Cardinality(Cells(f)) + 1 /\ Cardinality(S) \in Nat
      /\ Cardinality(Cells(f)) \in Nat
  BY OneMore, FS_CardinalityType
<1>2. h \in Surjection(S, T)
  BY DEF Surjection
<1>3. IsFiniteSet(T) /\ Cardinality(T) <= Cardinality(S)
  <2> HIDE DEF S, T, h
  <2> QED BY <1>1, <1>2, FS_Surjection
<1>4. Cells(g) \subseteq T
  <2> SUFFICES ASSUME NEW x \in Cells(g) PROVE \E c \in S : Moved(c) = x
    OBVIOUS
  <2>1. x = <<x[1], x[2]>> /\ x[1] \in DOMAIN g /\ x[2] \in Nat /\ x[2] \in 1..g[x[1]]
    BY DEF Cells
  <2>2. CASE x[1] # r
    <3>1. x[1] \in DOMAIN f /\ x[1] # e /\ g[x[1]] = f[x[1]]
      BY <2>1, <2>2
    <3>2. x \in (DOMAIN f) \X Nat
      BY <2>1, <3>1
    <3>3. x \in Cells(f) /\ Moved(x) = x
      BY <2>1, <3>1, <3>2 DEF Cells
    <3> QED BY <3>3
  <2>3. CASE x[1] = r /\ x[2] = f[e] + 1
    <3>1. x = new /\ Moved(new) = new
      BY <2>1, <2>3
    <3> QED BY <3>1
  <2>4. CASE x[1] = r /\ x[2] # f[e] + 1
    <3> DEFINE c == <<e, x[2]>>
    <3>1. x[2] \in 1..f[e]
      BY <2>1, <2>4
    <3>2. c \in (DOMAIN f) \X Nat /\ c[1] = e /\ c[2] = x[2] /\ c[2] \in 1..f[e]
      BY <2>1, <3>1
    <3>3. c \in Cells(f) /\ c # new
      BY <2>4, <3>2 DEF Cells
    <3>4. Moved(c) = <<r, x[2]>>
      BY <3>2, <3>3
    <3>5. Moved(c) = x
      BY <2>1, <2>4, <3>4
    <3> QED BY <3>3, <3>5
  <2> QED BY <2>2, <2>3, <2>4
<1>5. IsFiniteSet(Cells(g)) /\ Cardinality(Cells(g)) <= Cardinality(T)
  BY <1>3, <1>4, FS_Subset
<1>6. Cardinality(Cells(g)) \in Nat /\ Cardinality(T) \in Nat
  BY <1>3, <1>5, FS_CardinalityType
<1> HIDE DEF S, T
<1> QED BY <1>1, <1>3, <1>5, <1>6

(* A row that is not in the table takes the place of an entry that the      *)
(* spillover has reached.                                                   *)
LEMMA ReplacedSound ==
  ASSUME RowHammerAssumption, G!GrapheneAssumption, NEW f, NEW s, NEW a, NEW n, Sound(f, s, a, n),
         NEW r \in Rows, r \notin DOMAIN f, NEW e \in DOMAIN f, f[e] = s,
         n < (Threshold - 1) * (m_num_table_entries + 1)
  PROVE  Sound(G!Replaced(f, e, r, s), s, [a EXCEPT ![r] = @ + 1], n + 1)
<1> DEFINE g == G!Replaced(f, e, r, s)
           b == [a EXCEPT ![r] = @ + 1]
<1>1. s \in Nat /\ n \in Nat /\ Shape(f) /\ a \in [Rows -> Nat] /\ Threshold \in Nat
      /\ m_num_table_entries \in Nat
  BY DEF Sound, RowHammerAssumption, G!GrapheneAssumption
<1>2. /\ DOMAIN g = (DOMAIN f \ {e}) \cup {r} /\ g[r] = s + 1
      /\ \A x \in DOMAIN g : x # r => x \in DOMAIN f /\ x # e /\ g[x] = f[x]
      /\ \A x \in DOMAIN f : x # e => x \in DOMAIN g /\ g[x] = f[x]
      /\ g = [x \in DOMAIN g |-> g[x]]
  BY DEF G!Replaced
<1> HIDE DEF g
<1>3. Shape(g)
  <2>1. DOMAIN f \subseteq Keys /\ Cardinality(DOMAIN f) = m_num_table_entries /\ f \in [DOMAIN f -> Nat]
    BY <1>1 DEF Shape
  <2>2. IsFiniteSet(DOMAIN f)
    BY <1>1, ShapeFinite
  <2>3. IsFiniteSet(DOMAIN f \ {e}) /\ Cardinality(DOMAIN f \ {e}) = m_num_table_entries - 1
    BY <2>1, <2>2, FS_RemoveElement
  <2>4. r \notin DOMAIN f \ {e}
    OBVIOUS
  <2>5. Cardinality((DOMAIN f \ {e}) \cup {r}) = m_num_table_entries - 1 + 1
    BY <2>3, <2>4, FS_AddElement
  <2>6. Cardinality(DOMAIN g) = m_num_table_entries
    BY <1>1, <1>2, <2>5
  <2>7. DOMAIN g \subseteq Keys
    BY <1>2, <2>1 DEF Keys
  <2>8. g \in [DOMAIN g -> Nat]
    <3>1. \A x \in DOMAIN g : g[x] \in Nat
      BY <1>1, <1>2, <2>1
    <3> QED BY <1>2, <3>1
  <2> QED BY <2>6, <2>7, <2>8 DEF Shape
<1>4. s + 1 < Threshold
  <2>1. (m_num_table_entries + 1) * s <= n
    BY SpillBelowAverage
  <2>2. ASSUME Threshold - 1 <= s PROVE FALSE
    <3>1. m_num_table_entries + 1 \in Nat /\ Threshold - 1 \in Int
      BY <1>1
    <3>2. (Threshold - 1) * (m_num_table_entries + 1) <= s * (m_num_table_entries + 1)
      BY <1>1, <2>2, <3>1, Monotone
    <3>3. s * (m_num_table_entries + 1) = (m_num_table_entries + 1) * s
      BY <1>1
    <3> DEFINE p == s * (m_num_table_entries + 1)
               q == (Threshold - 1) * (m_num_table_entries + 1)
    <3>4. p \in Int /\ q \in Int /\ p <= n /\ n < q /\ q <= p
      BY <1>1, <2>1, <3>1, <3>2, <3>3
    <3> HIDE DEF p, q
    <3> QED BY <1>1, <3>4
  <2> QED BY <1>1, <2>2
<1>5. \A x \in DOMAIN g : s <= g[x] /\ g[x] < Threshold
  BY <1>1, <1>2, <1>4 DEF Sound
<1>6. b \in [Rows -> Nat] /\ b[r] = a[r] + 1 /\ \A q \in Rows : q # r => b[q] = a[q]
  BY <1>1
<1>7. ASSUME NEW q \in Rows PROVE b[q] <= IF q \in DOMAIN g THEN g[q] ELSE s
  <2>1. a[q] <= IF q \in DOMAIN f THEN f[q] ELSE s
    BY DEF Sound
  <2>2. CASE q = r
    BY <1>1, <1>2, <1>6, <2>1, <2>2
  <2>3. CASE q = e /\ q # r
    BY <1>2, <1>6, <2>1, <2>3
  <2>4. CASE q # e /\ q # r
    BY <1>2, <1>6, <2>1, <2>4
  <2> QED BY <2>2, <2>3, <2>4
<1>8. IsFiniteSet(Cells(f)) /\ Cardinality(Cells(f)) \in Nat /\ Cardinality(Cells(f)) + s <= n
  BY CellsFinite DEF Sound
<1>9. Cardinality(Cells(g)) <= Cardinality(Cells(f)) + 1
  BY <1>1, <1>2, <1>8, CellsMoved DEF Shape
<1>10. IsFiniteSet(Cells(g)) /\ Cardinality(Cells(g)) \in Nat
  BY <1>3, <1>5, CellsFinite
<1>11. Cardinality(Cells(g)) + s <= n + 1
  BY <1>1, <1>8, <1>9, <1>10
<1> HIDE DEF b
<1>12. Sound(g, s, b, n + 1)
  BY <1>1, <1>3, <1>5, <1>6, <1>7, <1>11 DEF Sound
<1> QED BY <1>12 DEF g, b

(* A row that is not in the table, and no entry to replace: the spillover   *)
(* counts it.                                                               *)
LEMMA SpillSound ==
  ASSUME RowHammerAssumption, G!GrapheneAssumption, NEW f, NEW s, NEW a, NEW n, Sound(f, s, a, n),
         NEW r \in Rows, r \notin DOMAIN f, \A e \in DOMAIN f : f[e] # s
  PROVE  Sound(f, s + 1, [a EXCEPT ![r] = @ + 1], n + 1)
<1> DEFINE b == [a EXCEPT ![r] = @ + 1]
<1>1. s \in Nat /\ n \in Nat /\ Shape(f) /\ a \in [Rows -> Nat]
  BY DEF Sound
<1>2. \A e \in DOMAIN f : f[e] \in Nat
  BY <1>1 DEF Shape
<1>3. \A e \in DOMAIN f : s + 1 <= f[e] /\ f[e] < Threshold
  BY <1>1, <1>2 DEF Sound
<1>4. b \in [Rows -> Nat] /\ b[r] = a[r] + 1 /\ \A q \in Rows : q # r => b[q] = a[q]
  BY <1>1
<1>5. ASSUME NEW q \in Rows PROVE b[q] <= IF q \in DOMAIN f THEN f[q] ELSE s + 1
  <2>1. a[q] <= IF q \in DOMAIN f THEN f[q] ELSE s
    BY DEF Sound
  <2> QED BY <1>1, <1>4, <2>1
<1>6. Cardinality(Cells(f)) \in Nat /\ Cardinality(Cells(f)) + s <= n
  BY CellsFinite DEF Sound
<1>7. Cardinality(Cells(f)) + (s + 1) <= n + 1 /\ s + 1 \in Nat /\ n + 1 \in Nat
  BY <1>1, <1>6
<1> HIDE DEF b
<1>8. Sound(f, s + 1, b, n + 1)
  BY <1>1, <1>3, <1>4, <1>5, <1>7 DEF Sound
<1> QED BY <1>8 DEF b

(* The tables and counters of all banks, after at most n activations of     *)
(* each.                                                                    *)
AllSound(tables, spills, a, n, bound) ==
  /\ tables = [t \in Tables |-> tables[t]] /\ \A t \in Tables : Shape(tables[t])
  /\ spills \in [Tables -> Nat]
  /\ a \in [Banks -> [Rows -> Nat]] /\ n \in [Banks -> Nat]
  /\ \A b \in Banks : /\ Sound(tables[flat_bank_id(b)], spills[flat_bank_id(b)], a[b], n[b])
                      /\ n[b] <= bound

GrapheneInv ==
  /\ m_clk \in 0..(m_reset_period_clk - 1)
  /\ AllSound(table, m_spillover_counter, acts, total, m_clk + 1)

(* A bank is activated, and its own table and counter are updated.          *)
LEMMA OneBankSound ==
  ASSUME RowHammerAssumption, NEW tables, NEW spills, NEW a, NEW n, NEW bound \in Nat,
         AllSound(tables, spills, a, n, bound), NEW b \in Banks, NEW f, NEW s, NEW ab,
         Sound(f, s, ab, n[b] + 1)
  PROVE  AllSound([tables EXCEPT ![flat_bank_id(b)] = f], [spills EXCEPT ![flat_bank_id(b)] = s],
                  [a EXCEPT ![b] = ab], [n EXCEPT ![b] = @ + 1], bound + 1)
<1> DEFINE t == flat_bank_id(b)
           tables2 == [tables EXCEPT ![t] = f]
           spills2 == [spills EXCEPT ![t] = s]
           a2 == [a EXCEPT ![b] = ab]
           n2 == [n EXCEPT ![b] = @ + 1]
<1>1. t \in Tables /\ \A d \in Banks : flat_bank_id(d) \in Tables /\ (d # b => flat_bank_id(d) # t)
  BY TableOfBank
<1> HIDE DEF t
<1>2. /\ tables = [u \in Tables |-> tables[u]] /\ spills \in [Tables -> Nat]
      /\ a \in [Banks -> [Rows -> Nat]] /\ n \in [Banks -> Nat] /\ n[b] <= bound
  BY DEF AllSound
<1>3. Shape(f) /\ s \in Nat /\ ab \in [Rows -> Nat]
  BY DEF Sound
<1>4. /\ tables2 = [u \in Tables |-> tables2[u]] /\ tables2[t] = f
      /\ \A u \in Tables : u # t => tables2[u] = tables[u]
  BY <1>1, <1>2
<1>5. /\ spills2 \in [Tables -> Nat] /\ spills2[t] = s
      /\ \A u \in Tables : u # t => spills2[u] = spills[u]
  BY <1>1, <1>2, <1>3
<1>6. /\ a2 \in [Banks -> [Rows -> Nat]] /\ a2[b] = ab
      /\ \A d \in Banks : d # b => a2[d] = a[d]
  BY <1>2, <1>3
<1>7. /\ n2 \in [Banks -> Nat] /\ n2[b] = n[b] + 1
      /\ \A d \in Banks : d # b => n2[d] = n[d]
  BY <1>2
<1> HIDE DEF tables2, spills2, a2, n2
<1>8. \A u \in Tables : Shape(tables2[u])
  BY <1>3, <1>4 DEF AllSound
<1>9. ASSUME NEW d \in Banks
      PROVE  Sound(tables2[flat_bank_id(d)], spills2[flat_bank_id(d)], a2[d], n2[d]) /\ n2[d] <= bound + 1
  <2>1. CASE d = b
    BY <1>2, <1>4, <1>5, <1>6, <1>7, <2>1 DEF t
  <2>2. CASE d # b
    <3>1. Sound(tables[flat_bank_id(d)], spills[flat_bank_id(d)], a[d], n[d]) /\ n[d] <= bound /\ n[d] \in Nat
      BY <1>2 DEF AllSound
    <3>2. n2[d] = n[d] /\ a2[d] = a[d]
          /\ tables2[flat_bank_id(d)] = tables[flat_bank_id(d)] /\ spills2[flat_bank_id(d)] = spills[flat_bank_id(d)]
      BY <1>1, <1>4, <1>5, <1>6, <1>7, <2>2
    <3>3. n[d] <= bound + 1
      BY <3>1
    <3> QED BY <3>1, <3>2, <3>3
  <2> QED BY <2>1, <2>2
<1>10. AllSound(tables2, spills2, a2, n2, bound + 1)
  BY <1>4, <1>5, <1>6, <1>7, <1>8, <1>9 DEF AllSound
<1> QED BY <1>10 DEF tables2, spills2, a2, n2, t

(* The state with which an update starts: that of the last one, or zeros.   *)
LEMMA ResetSound ==
  ASSUME RowHammerAssumption, G!GrapheneAssumption, GrapheneInv
  PROVE  /\ G!Now \in 0..(m_reset_period_clk - 1)
         /\ AllSound(G!Counts, G!Spills, G!Acts, G!Total, G!Now)
<1>1. m_reset_period_clk \in Nat \ {0} /\ m_clk \in 0..(m_reset_period_clk - 1)
  BY DEF G!GrapheneAssumption, GrapheneInv
<1>2. G!Now = IF m_clk + 1 = m_reset_period_clk THEN 0 ELSE m_clk + 1
  BY <1>1 DEF G!Now
<1>3. AllSound(table, m_spillover_counter, acts, total, m_clk + 1)
  BY DEF GrapheneInv
<1>4. CASE G!Now # 0
  <2>1. G!Counts = table /\ G!Spills = m_spillover_counter /\ G!Acts = acts /\ G!Total = total
    BY <1>4 DEF G!Counts, G!Spills, G!Acts, G!Total
  <2> QED BY <1>1, <1>2, <1>3, <1>4, <2>1
<1>5. CASE G!Now = 0
  <2>1. /\ G!Counts = [t \in Tables |-> [e \in DOMAIN table[t] |-> 0]]
        /\ G!Spills = [t \in Tables |-> 0]
        /\ G!Acts = [b \in Banks |-> [r \in Rows |-> 0]] /\ G!Total = [b \in Banks |-> 0]
    BY <1>5, GrapheneNames DEF G!Counts, G!Spills, G!Acts, G!Total
  <2>2. ASSUME NEW t \in Tables
        PROVE  Shape(G!Counts[t]) /\ \A e \in DOMAIN G!Counts[t] : G!Counts[t][e] = 0
    <3>1. Shape(table[t])
      BY <1>3 DEF AllSound
    <3>2. G!Counts[t] = [e \in DOMAIN table[t] |-> 0]
      BY <2>1
    <3> QED BY <3>1, <3>2 DEF Shape
  <2>3. ASSUME NEW b \in Banks
        PROVE  Sound(G!Counts[flat_bank_id(b)], G!Spills[flat_bank_id(b)], G!Acts[b], G!Total[b])
               /\ G!Total[b] <= G!Now
    <3>1. flat_bank_id(b) \in Tables
      BY TableOfBank
    <3>2. Sound(G!Counts[flat_bank_id(b)], 0, [r \in Rows |-> 0], 0)
      BY <2>2, <3>1, ZerosSound
    <3>3. G!Spills[flat_bank_id(b)] = 0 /\ G!Acts[b] = [r \in Rows |-> 0] /\ G!Total[b] = 0
      BY <2>1, <3>1
    <3> QED BY <1>5, <3>2, <3>3
  <2>4. G!Counts = [t \in Tables |-> G!Counts[t]]
    BY <2>1
  <2>5. G!Spills \in [Tables -> Nat] /\ G!Acts \in [Banks -> [Rows -> Nat]] /\ G!Total \in [Banks -> Nat]
    BY <2>1
  <2>6. AllSound(G!Counts, G!Spills, G!Acts, G!Total, G!Now)
    BY <2>2, <2>3, <2>4, <2>5 DEF AllSound
  <2> QED BY <1>1, <1>5, <2>6
<1> QED BY <1>4, <1>5

LEMMA ActivateSound ==
  ASSUME RowHammerAssumption, G!GrapheneAssumption, GrapheneInv,
         NEW b \in Banks, NEW r \in Rows, G!Activate(b, r)
  PROVE  GrapheneInv'
<1> DEFINE t == flat_bank_id(b)
           f == G!Counts[t]
           s == G!Spills[t]
           Goal == AllSound(table', m_spillover_counter', acts', total', G!Now + 1)
<1>1. G!Now \in 0..(m_reset_period_clk - 1) /\ AllSound(G!Counts, G!Spills, G!Acts, G!Total, G!Now)
  BY ResetSound
<1>2. m_reset_period_clk \in Nat /\ G!Now \in Nat /\ Threshold \in Nat \ {0, 1}
      /\ m_reset_period_clk < (Threshold - 1) * (m_num_table_entries + 1)
      /\ m_num_table_entries \in Nat
  BY <1>1 DEF G!GrapheneAssumption, RowHammerAssumption
<1>3. t \in Tables
  BY TableOfBank
<1>4. /\ Sound(f, s, G!Acts[b], G!Total[b]) /\ G!Total[b] <= G!Now /\ G!Total[b] \in Nat
      /\ G!Counts = [u \in Tables |-> G!Counts[u]] /\ G!Spills \in [Tables -> Nat]
      /\ G!Acts \in [Banks -> [Rows -> Nat]]
  BY <1>1 DEF AllSound
<1>5. m_clk' = G!Now /\ total' = [G!Total EXCEPT ![b] = @ + 1]
  BY DEF G!Activate
<1>6. ASSUME NEW g, NEW z, NEW ab, Sound(g, z, ab, G!Total[b] + 1),
             table' = [G!Counts EXCEPT ![t] = g], m_spillover_counter' = [G!Spills EXCEPT ![t] = z],
             acts' = [G!Acts EXCEPT ![b] = ab]
      PROVE  Goal
  <2>1. AllSound([G!Counts EXCEPT ![t] = g], [G!Spills EXCEPT ![t] = z], [G!Acts EXCEPT ![b] = ab],
                 [G!Total EXCEPT ![b] = @ + 1], G!Now + 1)
    BY <1>1, <1>2, <1>6, OneBankSound
  <2> QED BY <1>5, <1>6, <2>1
<1> HIDE DEF Goal
<1>7. [G!Spills EXCEPT ![t] = s] = G!Spills
  BY <1>3, <1>4
<1>8. ASSUME G!ActivateNew(b, r) PROVE Goal
  <2>1. /\ r \notin DOMAIN f
        /\ \/ \E e \in G!Replaceable(t) :
                /\ table' = [G!Counts EXCEPT ![t] = G!Replaced(@, e, r, s)]
                /\ m_spillover_counter' = G!Spills
           \/ /\ G!Replaceable(t) = {} /\ table' = G!Counts
              /\ m_spillover_counter' = [G!Spills EXCEPT ![t] = @ + 1]
        /\ acts' = [G!Acts EXCEPT ![b][r] = @ + 1]
    BY <1>8, GrapheneNames DEF G!ActivateNew
  <2>2. acts' = [G!Acts EXCEPT ![b] = [G!Acts[b] EXCEPT ![r] = @ + 1]]
    BY <2>1
  <2>3. G!Replaceable(t) = {e \in DOMAIN f : f[e] = s}
    BY DEF G!Replaceable
  <2>4. ASSUME NEW e \in G!Replaceable(t), table' = [G!Counts EXCEPT ![t] = G!Replaced(@, e, r, s)],
               m_spillover_counter' = G!Spills
        PROVE  Goal
    <3>1. table' = [G!Counts EXCEPT ![t] = G!Replaced(f, e, r, s)]
      BY <2>4
    <3>2. e \in DOMAIN f /\ f[e] = s
      BY <2>3
    <3>3. G!Total[b] < (Threshold - 1) * (m_num_table_entries + 1)
      <4> DEFINE q == (Threshold - 1) * (m_num_table_entries + 1)
      <4>1. q \in Int /\ m_reset_period_clk < q
        BY <1>2
      <4> HIDE DEF q
      <4>2. G!Total[b] < q
        BY <1>1, <1>2, <1>4, <4>1
      <4> QED BY <4>2 DEF q
    <3> HIDE DEF f, s
    <3>4. Sound(G!Replaced(f, e, r, s), s, [G!Acts[b] EXCEPT ![r] = @ + 1], G!Total[b] + 1)
      BY <1>4, <2>1, <3>2, <3>3, ReplacedSound
    <3>5. m_spillover_counter' = [G!Spills EXCEPT ![t] = s]
      BY <1>7, <2>4
    <3> QED BY <1>6, <2>2, <3>1, <3>4, <3>5
  <2>5. ASSUME G!Replaceable(t) = {}, table' = G!Counts, m_spillover_counter' = [G!Spills EXCEPT ![t] = @ + 1]
        PROVE  Goal
    <3>1. table' = [G!Counts EXCEPT ![t] = f] /\ m_spillover_counter' = [G!Spills EXCEPT ![t] = s + 1]
      BY <1>3, <1>4, <2>5
    <3>2. \A e \in DOMAIN f : f[e] # s
      BY <2>3, <2>5
    <3> HIDE DEF f, s
    <3>3. Sound(f, s + 1, [G!Acts[b] EXCEPT ![r] = @ + 1], G!Total[b] + 1)
      BY <1>4, <2>1, <3>2, SpillSound
    <3> QED BY <1>6, <2>2, <3>1, <3>3
  <2> QED BY <2>1, <2>4, <2>5
<1>9. ASSUME G!ActivateKnown(b, r) PROVE Goal
  <2> DEFINE count == f[r] + 1
             kept == IF G!Due(count) THEN s ELSE count
             activated == IF G!Due(count) THEN 0 ELSE G!Acts[b][r] + 1
  <2>1. /\ r \in DOMAIN f /\ table' = [G!Counts EXCEPT ![t][r] = kept]
        /\ acts' = [G!Acts EXCEPT ![b][r] = activated]
        /\ m_spillover_counter' = G!Spills
    BY <1>9, GrapheneNames DEF G!ActivateKnown
  <2>2. /\ table' = [G!Counts EXCEPT ![t] = [f EXCEPT ![r] = kept]]
        /\ acts' = [G!Acts EXCEPT ![b] = [G!Acts[b] EXCEPT ![r] = activated]]
        /\ m_spillover_counter' = [G!Spills EXCEPT ![t] = s]
    BY <1>7, <2>1
  <2>3. f[r] \in Nat /\ s \in Nat /\ s <= f[r] /\ f[r] < Threshold /\ G!Acts[b][r] \in Nat /\ G!Acts[b][r] <= f[r]
    <3> HIDE DEF f, s
    <3> QED BY <1>4, <2>1 DEF Sound, Shape
  <2>4. kept \in Nat /\ activated \in Nat /\ s <= kept /\ kept < Threshold /\ kept <= f[r] + 1 /\ activated <= kept
    <3> HIDE DEF f, s
    <3> QED BY <1>2, <2>3 DEF G!Due
  <2> HIDE DEF kept, activated, f, s
  <2>5. Sound([f EXCEPT ![r] = kept], s, [G!Acts[b] EXCEPT ![r] = activated], G!Total[b] + 1)
    BY <1>4, <2>1, <2>4, KnownSound
  <2> QED BY <1>6, <2>2, <2>5
<1>10. G!ActivateNew(b, r) \/ G!ActivateKnown(b, r)
  BY DEF G!Activate
<1>11. Goal
  BY <1>8, <1>9, <1>10
<1> QED BY <1>1, <1>5, <1>11 DEF GrapheneInv, Goal

LEMMA GrapheneInvariance ==
  ASSUME RowHammerAssumption, G!GrapheneAssumption
  PROVE  G!Spec => []GrapheneInv
<1>1. /\ m_reset_period_clk \in Nat \ {0} /\ m_num_table_entries \in Nat \ {0}
  BY DEF G!GrapheneAssumption
<1>2. G!Init => GrapheneInv
  <2> SUFFICES ASSUME G!Init PROVE GrapheneInv
    OBVIOUS
  <2>1. /\ m_clk = m_reset_period_clk - 1 /\ table = [t \in Tables |-> [e \in G!NoRows |-> 0]]
        /\ m_spillover_counter = [t \in Tables |-> 0]
        /\ acts = [b \in Banks |-> [r \in Rows |-> 0]] /\ total = [b \in Banks |-> 0]
    BY GrapheneNames DEF G!Init, G!EmptyTables
  <2>2. IsFiniteSet(G!NoRows) /\ Cardinality(G!NoRows) = m_num_table_entries
    BY <1>1, FS_Interval DEF G!NoRows
  <2>3. Shape([e \in G!NoRows |-> 0])
    BY <2>2 DEF Shape, Keys
  <2>4. Sound([e \in G!NoRows |-> 0], 0, [r \in Rows |-> 0], 0)
    BY <2>3, ZerosSound
  <2> QED BY <1>1, <2>1, <2>3, <2>4, TableOfBank DEF GrapheneInv, AllSound
<1>3. GrapheneInv /\ [G!update]_G!vars => GrapheneInv'
  <2> SUFFICES ASSUME GrapheneInv, [G!update]_G!vars PROVE GrapheneInv'
    OBVIOUS
  <2>1. CASE G!Idle
    <3>1. /\ m_clk' = G!Now /\ table' = G!Counts /\ m_spillover_counter' = G!Spills
          /\ acts' = G!Acts /\ total' = G!Total
      BY <2>1 DEF G!Idle
    <3>2. G!Now \in 0..(m_reset_period_clk - 1) /\ AllSound(G!Counts, G!Spills, G!Acts, G!Total, G!Now)
      BY ResetSound
    <3>3. \A b \in Banks : G!Total[b] <= G!Now + 1
      <4>1. \A b \in Banks : G!Total[b] <= G!Now /\ G!Total[b] \in Nat
        BY <3>2 DEF AllSound
      <4> QED BY <1>1, <3>2, <4>1
    <3>4. AllSound(G!Counts, G!Spills, G!Acts, G!Total, G!Now + 1)
      BY <3>2, <3>3 DEF AllSound
    <3> QED BY <3>1, <3>2, <3>4 DEF GrapheneInv
  <2>2. ASSUME NEW b \in Banks, NEW r \in Rows, G!Activate(b, r) PROVE GrapheneInv'
    BY <2>2, ActivateSound
  <2>3. CASE UNCHANGED G!vars
    BY <2>3 DEF G!vars, GrapheneInv
  <2> QED BY <2>1, <2>2, <2>3, GrapheneNames DEF G!update
<1> QED BY <1>2, <1>3, PTL DEF G!Spec

(* Graphene's tables keep their size and their ranges, whatever they        *)
(* replace.                                                                 *)
THEOREM GrapheneTypes ==
  ASSUME RowHammerAssumption, G!GrapheneAssumption
  PROVE  G!Spec => []G!TypeOK
<1>1. ASSUME GrapheneInv PROVE G!TypeOK
  <2>1. ASSUME NEW t \in Tables
        PROVE  /\ DOMAIN table[t] \subseteq G!NoRows \cup Rows
               /\ Cardinality(DOMAIN table[t]) = m_num_table_entries
               /\ \A e \in DOMAIN table[t] : table[t][e] \in Nat
    <3>1. Shape(table[t])
      BY <1>1 DEF GrapheneInv, AllSound
    <3> QED BY <3>1 DEF Shape, Keys
  <2>2. /\ m_clk \in 0..(m_reset_period_clk - 1) /\ m_spillover_counter \in [Tables -> Nat]
        /\ acts \in [Banks -> [Rows -> Nat]] /\ total \in [Banks -> Nat]
    BY <1>1 DEF GrapheneInv, AllSound
  <2>3. G!Tables = Tables /\ G!Banks = Banks
    BY GrapheneNames
  <2>4. \A t \in G!Tables :
          /\ DOMAIN table[t] \subseteq G!NoRows \cup Rows
          /\ Cardinality(DOMAIN table[t]) = m_num_table_entries
          /\ \A e \in DOMAIN table[t] : table[t][e] \in Nat
    BY <2>1, <2>3
  <2>5. m_spillover_counter \in [G!Tables -> Nat] /\ acts \in [G!Banks -> [Rows -> Nat]] /\ total \in [G!Banks -> Nat]
    BY <2>2, <2>3
  <2>6. \A S : G!Cardinality(S) = Cardinality(S)
    BY DEF G!Cardinality, Cardinality
  <2> QED BY <2>2, <2>4, <2>5, <2>6 DEF G!TypeOK
<1> QED BY <1>1, GrapheneInvariance, PTL

(* The estimate that Graphene keeps of a row, its count or else the         *)
(* spillover counter of its bank, is never below its activations.           *)
THEOREM GrapheneEstimates ==
  ASSUME RowHammerAssumption, G!GrapheneAssumption
  PROVE  G!Spec => []G!EstimateCovers
<1>1. GrapheneInv => G!EstimateCovers
  BY GrapheneNames DEF GrapheneInv, AllSound, Sound, G!EstimateCovers
<1> QED BY <1>1, GrapheneInvariance, PTL

(* No entry of a table is below the spillover counter, which is no more     *)
(* than the average of the activations over the entries and itself.         *)
THEOREM GrapheneSpillover ==
  ASSUME RowHammerAssumption, G!GrapheneAssumption
  PROVE  G!Spec => []G!SpilloverBounded
<1>1. ASSUME GrapheneInv PROVE G!SpilloverBounded
  <2>1. ASSUME NEW b \in Banks
        PROVE  /\ \A e \in DOMAIN table[flat_bank_id(b)] :
                    table[flat_bank_id(b)][e] >= m_spillover_counter[flat_bank_id(b)]
               /\ (m_num_table_entries + 1) * m_spillover_counter[flat_bank_id(b)] <= total[b]
    <3>1. Sound(table[flat_bank_id(b)], m_spillover_counter[flat_bank_id(b)], acts[b], total[b])
      BY <1>1 DEF GrapheneInv, AllSound
    <3>2. (m_num_table_entries + 1) * m_spillover_counter[flat_bank_id(b)] <= total[b]
      BY <3>1, SpillBelowAverage
    <3>3. \A e \in DOMAIN table[flat_bank_id(b)] :
            table[flat_bank_id(b)][e] >= m_spillover_counter[flat_bank_id(b)]
      BY <3>1 DEF Sound, Shape
    <3> QED BY <3>2, <3>3
  <2> QED BY <2>1, GrapheneNames DEF G!SpilloverBounded
<1> QED BY <1>1, GrapheneInvariance, PTL

(* Graphene lets no row be activated Threshold times in a period without a  *)
(* refresh of its victims, however the hash table chooses among the entries *)
(* to replace.                                                              *)
THEOREM GrapheneBound ==
  ASSUME RowHammerAssumption, G!GrapheneAssumption
  PROVE  G!Spec => []G!HammerBound
<1>1. ASSUME GrapheneInv, NEW b \in Banks, NEW r \in Rows PROVE acts[b][r] < Threshold
  <2> DEFINE f == table[flat_bank_id(b)]
             s == m_spillover_counter[flat_bank_id(b)]
             N == m_num_table_entries
  <2>1. Sound(f, s, acts[b], total[b]) /\ total[b] <= m_clk + 1 /\ m_clk \in 0..(m_reset_period_clk - 1)
    BY <1>1 DEF GrapheneInv, AllSound
  <2>2. N \in Nat \ {0} /\ m_reset_period_clk \in Nat \ {0} /\ m_reset_period_clk < (Threshold - 1) * (N + 1)
        /\ Threshold \in Nat
    BY DEF G!GrapheneAssumption, RowHammerAssumption
  <2> HIDE DEF f, s
  <2>3. s \in Nat /\ total[b] \in Nat /\ acts[b] \in [Rows -> Nat] /\ f \in [DOMAIN f -> Nat]
        /\ (r \in DOMAIN f => f[r] < Threshold)
        /\ acts[b][r] <= IF r \in DOMAIN f THEN f[r] ELSE s
    BY <2>1 DEF Sound, Shape
  <2>4. s < Threshold
    <3>1. (N + 1) * s <= total[b]
      BY <2>1, SpillBelowAverage
    <3>2. ASSUME Threshold - 1 <= s PROVE FALSE
      <4>1. (Threshold - 1) * (N + 1) <= s * (N + 1)
        <5>1. N + 1 \in Nat /\ Threshold - 1 \in Int
          BY <2>2
        <5> QED BY <2>3, <3>2, <5>1, Monotone
      <4>2. s * (N + 1) = (N + 1) * s
        BY <2>2, <2>3
      <4> DEFINE p == (N + 1) * s
                 q == (Threshold - 1) * (N + 1)
      <4>3. p \in Int /\ q \in Int /\ p <= total[b] /\ m_reset_period_clk < q /\ q <= p
        BY <2>2, <2>3, <3>1, <4>1, <4>2
      <4> HIDE DEF p, q
      <4> QED BY <2>1, <2>2, <2>3, <4>3
    <3> QED BY <2>2, <2>3, <3>2
  <2> QED BY <2>2, <2>3, <2>4
<1>2. GrapheneInv => G!HammerBound
  BY <1>1, GrapheneNames DEF G!HammerBound
<1> QED BY <1>2, GrapheneInvariance, PTL

-----------------------------------------------------------------------------
(* Hydra *)

LEMMA HydraNames ==
  /\ H!Banks = Banks /\ H!Tables = Tables /\ H!m_num_banks_per_rank = m_num_banks_per_rank
  /\ \A b : H!flat_bank_id(b) = flat_bank_id(b)
  /\ \A S : H!Cardinality(S) = Cardinality(S)
BY DEF H!Banks, Banks, H!Tables, Tables, H!m_num_banks_per_rank, m_num_banks_per_rank,
       H!flat_bank_id, flat_bank_id, H!Cardinality, Cardinality

LEMMA DivMod ==
  ASSUME NEW x \in Nat, NEW n \in Nat \ {0}
  PROVE  x \div n \in Nat /\ x % n \in 0..(n - 1) /\ x = (x \div n) * n + (x % n)
<1>1. n * (x \div n) + (x % n) = x
  BY Z3
<1>2. x \div n \in Nat /\ x % n \in 0..(n - 1)
  OBVIOUS
<1>3. x = (x \div n) * n + (x % n)
  BY <1>1, <1>2
<1> QED BY <1>2, <1>3

(* Parts of a whole number of parts.                                        *)
LEMMA DivBelow ==
  ASSUME NEW x \in Nat, NEW n \in Nat \ {0}, NEW y \in Nat, x < y, y % n = 0
  PROVE  x \div n \in 0..(y \div n - 1)
<1> DEFINE p == x \div n
           q == y \div n
           m == x % n
<1>1. p \in Nat /\ m \in 0..(n - 1) /\ x = p * n + m
  BY DivMod
<1>2. q \in Nat /\ y = q * n + (y % n)
  BY DivMod
<1> HIDE DEF p, q, m
<1>3. ASSUME q <= p PROVE FALSE
  <2>1. q * n <= p * n
    BY <1>1, <1>2, <1>3, Monotone
  <2>2. q * n \in Int /\ p * n \in Int /\ y = q * n
    BY <1>1, <1>2
  <2> QED BY <1>1, <2>1, <2>2
<1>4. p \in 0..(q - 1)
  BY <1>1, <1>2, <1>3
<1> QED BY <1>4 DEF p, q

LEMMA HydraNumbers ==
  ASSUME RowHammerAssumption, H!HydraAssumption
  PROVE  /\ H!m_total_rct_row_size \in Int /\ m_group_threshold \in 1..(Threshold - 1)
         /\ \A r \in Rows : r \in H!AllRows /\ H!gct_index(r) \in H!Groups
                            /\ H!rcc_index(r) \in H!Sets
                            /\ r \div m_rcc_set_num \in 0..(H!TagRows - 1)
<1>1. /\ m_row_group_size \in Nat \ {0} /\ m_num_rows_per_bank \in Nat \ {0} /\ m_rcc_set_num \in Nat \ {0}
      /\ m_num_cls \in Nat \ {0} /\ m_counter_bits \in Nat \ {0} /\ LineBits \in Nat \ {0}
      /\ m_num_rows_per_bank % m_row_group_size = 0 /\ m_num_rows_per_bank % m_rcc_set_num = 0
  BY DEF H!HydraAssumption
<1>2. H!m_total_rct_row_size \in Int
  <2>1. m_num_rows_per_bank * m_counter_bits \in Nat
    BY <1>1
  <2>2. H!m_total_rct_cl_size \in Nat
    BY <1>1, <2>1, DivMod DEF H!m_total_rct_cl_size
  <2>3. H!m_total_rct_cl_size + m_num_cls - 1 \in Nat
    BY <1>1, <2>2
  <2> QED BY <1>1, <2>3, DivMod DEF H!m_total_rct_row_size
<1>3. ASSUME NEW r \in Rows
      PROVE  r \in H!AllRows /\ H!gct_index(r) \in H!Groups /\ H!rcc_index(r) \in H!Sets
             /\ r \div m_rcc_set_num \in 0..(H!TagRows - 1)
  <2>1. r \in Nat /\ r < m_num_rows_per_bank
    BY DEF RowHammerAssumption, H!HydraAssumption
  <2>2. H!gct_index(r) \in H!Groups
    BY <1>1, <2>1, DivBelow DEF H!gct_index, H!Groups
  <2>3. r % m_rcc_set_num \in 0..(m_rcc_set_num - 1)
    BY <1>1, <2>1, DivMod
  <2>4. r \div m_rcc_set_num \in 0..(H!TagRows - 1)
    BY <1>1, <2>1, DivBelow DEF H!TagRows
  <2> QED BY <1>1, <2>1, <2>2, <2>3, <2>4 DEF H!AllRows, H!rcc_index, H!Sets
<1> QED BY <1>2, <1>3 DEF H!HydraAssumption

(* The cache entry of a row: its set and its tag are those of no other row  *)
(* of the rank.                                                             *)
LEMMA EntryOfRow ==
  ASSUME RowHammerAssumption, H!HydraAssumption,
         NEW b \in Banks, NEW d \in Banks, NEW r \in Rows, NEW q \in Rows,
         b[1] = d[1], H!rcc_index(r) = H!rcc_index(q), H!rcc_tag(b, r) = H!rcc_tag(d, q)
  PROVE  b = d /\ r = q
<1> DEFINE M == m_num_banks_per_rank
<1>1. M \in Nat \ {0} /\ Ranks \in Nat \ {0} /\ m_rcc_set_num \in Nat \ {0}
  BY SMT DEF RowHammerAssumption, m_num_banks_per_rank, H!HydraAssumption
<1>2. ASSUME NEW c \in Banks
      PROVE  H!bank_id(c) \in Nat /\ flat_bank_id(c) = c[1] * M + H!bank_id(c)
  <2> DEFINE x == flat_bank_id(c)
             y == x - c[1] * M
  <2>1. c[1] \in 0..(Ranks - 1)
    BY DEF Banks
  <2>2. x \in (c[1] * M)..((c[1] + 1) * M - 1)
    BY <2>1, TableOfBank
  <2>3. (c[1] + 1) * M = c[1] * M + M /\ c[1] * M \in Nat
    BY <1>1, <2>1
  <2>4. x \in Nat /\ y \in 0..(M - 1) /\ c[1] * M + y = x
    BY <1>1, <2>2, <2>3
  <2>5. x \div M \in Nat /\ x % M \in 0..(M - 1) /\ x = (x \div M) * M + (x % M)
    BY <1>1, <2>4, DivMod
  <2>6. H!bank_id(c) = x % M
    BY HydraNames DEF H!bank_id
  <2> DEFINE u == c[1]
             v == x \div M
             z == x % M
  <2>7. u \in Nat /\ v \in Nat /\ y \in 0..(M - 1) /\ z \in 0..(M - 1) /\ u * M + y = x /\ v * M + z = x
    BY <1>1, <2>1, <2>4, <2>5
  <2> HIDE DEF x, y, z, u, v, M
  <2>8. z = y
    BY <1>1, <2>7, DigitsUnique
  <2> QED BY <2>6, <2>7, <2>8 DEF x, u, z, M
<1> DEFINE x == r \div m_rcc_set_num
           y == q \div m_rcc_set_num
<1>3. x \in 0..(H!TagRows - 1) /\ y \in 0..(H!TagRows - 1) /\ r \in Nat /\ q \in Nat
  BY HydraNumbers DEF RowHammerAssumption
<1>4. H!rcc_tag(b, r) = x + H!bank_id(b) * H!TagRows /\ H!rcc_tag(d, q) = y + H!bank_id(d) * H!TagRows
  BY DEF H!rcc_tag
<1>5. r = x * m_rcc_set_num + H!rcc_index(r) /\ q = y * m_rcc_set_num + H!rcc_index(q)
  BY <1>1, <1>3, DivMod DEF H!rcc_index
<1>6. H!TagRows \in Nat
  <2>1. m_num_rows_per_bank \in Nat
    BY DEF H!HydraAssumption
  <2> QED BY <1>1, <2>1, DivMod DEF H!TagRows
<1> DEFINE i == H!bank_id(b)
           j == H!bank_id(d)
           n == H!TagRows
<1>7. /\ i \in Nat /\ j \in Nat /\ n \in Nat /\ x \in 0..(n - 1) /\ y \in 0..(n - 1)
      /\ x + i * n = y + j * n
  BY <1>2, <1>3, <1>4, <1>6
<1> HIDE DEF x, y, M, i, j, n
<1>8. i = j /\ x = y
  <2>1. i * n \in Int /\ j * n \in Int
    BY <1>7
  <2>2. i * n + x = j * n + y
    BY <1>7, <2>1
  <2> QED BY <1>7, <2>2, DigitsUnique
<1>9. flat_bank_id(b) = flat_bank_id(d)
  BY <1>2, <1>8 DEF i, j
<1> QED BY <1>5, <1>8, <1>9, TableOfBank

(* What the tables say of row r of bank b, that has been activated a times: *)
(* a cached counter is that of a group whose counters are initialized, and  *)
(* it is the stored one; and the counter in charge of the row is not below  *)
(* its activations.                                                         *)
Covered(gct, rct, rcc, rctc, a, b, r) ==
  LET t == flat_bank_id(b)
      entry == gct[t][H!gct_index(r)]
  IN  /\ H!Cached(rcc, b, r) =>
           entry.initialized /\ rcc[b[1]][H!rcc_index(r)][H!rcc_tag(b, r)] = rct[t][r]
      /\ a[b][r] <= IF r < H!m_total_rct_row_size THEN rctc[t][r]
                    ELSE IF entry.initialized THEN rct[t][r] ELSE entry.count

GroupEntry == [count : 0..m_group_threshold, initialized : BOOLEAN]

Counter == 0..(Threshold - 1)

(* A set of the cache.                                                      *)
CacheSet(f) ==
  /\ f = [e \in DOMAIN f |-> f[e]]
  /\ IsFiniteSet(DOMAIN f) /\ Cardinality(DOMAIN f) <= Ways

CacheSets(rcc) ==
  /\ rcc = [k \in 0..(Ranks - 1) |-> [s \in H!Sets |-> rcc[k][s]]]
  /\ \A k \in 0..(Ranks - 1), s \in H!Sets : CacheSet(rcc[k][s])

HydraTables(gct, rct, rcc, rctc, a) ==
  /\ gct \in [Tables -> [H!Groups -> GroupEntry]]
  /\ \A t \in Tables, g \in H!Groups : gct[t][g].initialized => gct[t][g].count = m_group_threshold
  /\ rct \in [Tables -> [H!AllRows -> Counter]] /\ rctc \in [Tables -> [H!AllRows -> Counter]]
  /\ CacheSets(rcc)
  /\ a \in [Banks -> [Rows -> Nat]]
  /\ \A b \in Banks, r \in Rows : Covered(gct, rct, rcc, rctc, a, b, r)

HydraInv ==
  /\ m_clk \in 0..(m_reset_period_clk - 1)
  /\ HydraTables(group_count_table, row_count_table, row_count_cache, rct_count_table, acts)

LEMMA HydraReset ==
  ASSUME RowHammerAssumption, H!HydraAssumption
  PROVE  HydraTables(H!NoGroups, H!NoCounts, H!NoCache, H!NoCounts, H!NoActs)
<1>1. /\ H!NoGroups = [t \in Tables |-> [g \in H!Groups |-> [count |-> 0, initialized |-> FALSE]]]
      /\ H!NoCounts = [t \in Tables |-> [r \in H!AllRows |-> 0]]
      /\ H!NoActs = [b \in Banks |-> [r \in Rows |-> 0]]
  BY HydraNames DEF H!NoGroups, H!NoCounts, H!NoActs
<1>2. H!NoCache = [k \in 0..(Ranks - 1) |-> [s \in H!Sets |-> [e \in {} |-> 0]]]
  BY DEF H!NoCache
<1>3. Threshold \in Nat \ {0, 1} /\ m_group_threshold \in Nat /\ Ways \in Nat
  BY DEF RowHammerAssumption, H!HydraAssumption
<1>4. H!NoGroups \in [Tables -> [H!Groups -> GroupEntry]]
  BY <1>1, <1>3 DEF GroupEntry
<1>5. H!NoCounts \in [Tables -> [H!AllRows -> Counter]] /\ H!NoActs \in [Banks -> [Rows -> Nat]]
  BY <1>1, <1>3 DEF Counter
<1>6. CacheSet([e \in {} |-> 0])
  <2>1. DOMAIN [e \in {} |-> 0] = {}
    OBVIOUS
  <2>2. IsFiniteSet({}) /\ Cardinality({}) = 0
    BY FS_EmptySet
  <2> QED BY <1>3, <2>1, <2>2 DEF CacheSet
<1>7. ASSUME NEW b \in Banks, NEW r \in Rows
      PROVE  Covered(H!NoGroups, H!NoCounts, H!NoCache, H!NoCounts, H!NoActs, b, r)
  <2>1. /\ flat_bank_id(b) \in Tables /\ b[1] \in 0..(Ranks - 1)
        /\ r \in H!AllRows /\ H!gct_index(r) \in H!Groups /\ H!rcc_index(r) \in H!Sets
    BY TableOfBank, HydraNumbers DEF Banks
  <2>2. ~H!Cached(H!NoCache, b, r)
    <3>1. H!NoCache[b[1]][H!rcc_index(r)] = [e \in {} |-> 0]
      BY <1>2, <2>1
    <3>2. DOMAIN (H!NoCache[b[1]][H!rcc_index(r)]) = {}
      BY <3>1
    <3> QED BY <3>2 DEF H!Cached
  <2>3. /\ H!NoGroups[flat_bank_id(b)][H!gct_index(r)] = [count |-> 0, initialized |-> FALSE]
        /\ H!NoCounts[flat_bank_id(b)][r] = 0 /\ H!NoActs[b][r] = 0
    BY <1>1, <2>1
  <2> QED BY <2>2, <2>3 DEF Covered
<1>8. \A k \in 0..(Ranks - 1), s \in H!Sets : CacheSet(H!NoCache[k][s])
  BY <1>2, <1>6
<1>9. H!NoCache = [k \in 0..(Ranks - 1) |-> [s \in H!Sets |-> H!NoCache[k][s]]]
  BY <1>2
<1>10. \A t \in Tables, g \in H!Groups : ~H!NoGroups[t][g].initialized
  BY <1>1
<1> QED BY <1>4, <1>5, <1>7, <1>8, <1>9, <1>10 DEF HydraTables, CacheSets

(* The tables with which an update starts.                                  *)
LEMMA HydraStart ==
  ASSUME RowHammerAssumption, H!HydraAssumption, HydraInv
  PROVE  /\ H!Now \in 0..(m_reset_period_clk - 1)
         /\ HydraTables(H!GCT, H!RCT, H!RCC, H!RCTC, H!Acts)
<1>1. H!Now \in 0..(m_reset_period_clk - 1)
  BY DEF H!Now, HydraInv, H!HydraAssumption
<1>2. CASE H!Now = 0
  <2>1. H!GCT = H!NoGroups /\ H!RCT = H!NoCounts /\ H!RCC = H!NoCache /\ H!RCTC = H!NoCounts /\ H!Acts = H!NoActs
    BY <1>2 DEF H!GCT, H!RCT, H!RCC, H!RCTC, H!Acts
  <2> QED BY <1>1, <2>1, HydraReset
<1>3. CASE H!Now # 0
  <2>1. H!GCT = group_count_table /\ H!RCT = row_count_table /\ H!RCC = row_count_cache
        /\ H!RCTC = rct_count_table /\ H!Acts = acts
    BY <1>3 DEF H!GCT, H!RCT, H!RCC, H!RCTC, H!Acts
  <2> QED BY <1>1, <2>1 DEF HydraInv
<1> QED BY <1>2, <1>3

(* A row of a bank, in the ranges of the tables, and what the other rows    *)
(* have in common with it.                                                  *)
LEMMA RowFacts ==
  ASSUME RowHammerAssumption, H!HydraAssumption, NEW b \in Banks, NEW r \in Rows
  PROVE  /\ flat_bank_id(b) \in Tables /\ b[1] \in 0..(Ranks - 1)
         /\ r \in H!AllRows /\ r \in Nat /\ H!gct_index(r) \in H!Groups /\ H!rcc_index(r) \in H!Sets
         /\ \A d \in Banks : flat_bank_id(d) = flat_bank_id(b) => d = b
         /\ \A d \in Banks, q \in Rows :
              d[1] = b[1] /\ H!rcc_index(q) = H!rcc_index(r) /\ H!rcc_tag(d, q) = H!rcc_tag(b, r)
              => d = b /\ q = r
BY TableOfBank, HydraNumbers, EntryOfRow DEF Banks, RowHammerAssumption

(* One entry of a table of tables is replaced.                              *)
LEMMA EntryReplaced ==
  ASSUME NEW I, NEW J, NEW V, NEW f \in [I -> [J -> V]], NEW i \in I, NEW j \in J, NEW v \in V
  PROVE  /\ [f EXCEPT ![i][j] = v] \in [I -> [J -> V]]
         /\ [f EXCEPT ![i][j] = v][i][j] = v
         /\ \A x \in I, y \in J : ~(x = i /\ y = j) => [f EXCEPT ![i][j] = v][x][y] = f[x][y]
OBVIOUS

(* One set of the cache is replaced.                                        *)
PutSet(rcc, rank, set, f) == [rcc EXCEPT ![rank][set] = f]

LEMMA SetReplaced ==
  ASSUME NEW rcc, CacheSets(rcc), NEW rank \in 0..(Ranks - 1), NEW set \in H!Sets,
         NEW f, CacheSet(f), NEW new, new = PutSet(rcc, rank, set, f)
  PROVE  /\ CacheSets(new) /\ new[rank][set] = f
         /\ \A k \in 0..(Ranks - 1), s \in H!Sets :
              ~(k = rank /\ s = set) => new[k][s] = rcc[k][s]
<1> DEFINE K == 0..(Ranks - 1)
<1>1. /\ rcc = [k \in K |-> [s \in H!Sets |-> rcc[k][s]]] /\ rank \in K
      /\ \A k \in K, s \in H!Sets : CacheSet(rcc[k][s])
  BY DEF CacheSets
<1> HIDE DEF K
<1>2. new = [k \in K |-> [s \in H!Sets |-> IF k = rank /\ s = set THEN f ELSE rcc[k][s]]]
  <2>1. new = [rcc EXCEPT ![rank] = [rcc[rank] EXCEPT ![set] = f]]
    BY DEF PutSet
  <2>2. [rcc[rank] EXCEPT ![set] = f] = [s \in H!Sets |-> IF s = set THEN f ELSE rcc[rank][s]]
    BY <1>1
  <2> DEFINE line == [rcc[rank] EXCEPT ![set] = f]
  <2>3. new = [k \in K |-> IF k = rank THEN line ELSE rcc[k]]
    <3> HIDE DEF line
    <3>1. new = [rcc EXCEPT ![rank] = line]
      BY <2>1 DEF line
    <3>2. DOMAIN rcc = K
      BY <1>1
    <3> QED BY <3>1, <3>2
  <2>4. ASSUME NEW k \in K PROVE rcc[k] = [s \in H!Sets |-> rcc[k][s]]
    BY <1>1
  <2> HIDE DEF line
  <2>5. ASSUME NEW k \in K
        PROVE  (IF k = rank THEN line ELSE rcc[k]) = [s \in H!Sets |-> IF k = rank /\ s = set THEN f ELSE rcc[k][s]]
    BY <2>2, <2>4 DEF line
  <2> QED BY <2>3, <2>5
<1>3. \A k \in K, s \in H!Sets : new[k][s] = IF k = rank /\ s = set THEN f ELSE rcc[k][s]
  BY <1>2
<1>4. new = [k \in K |-> [s \in H!Sets |-> new[k][s]]]
  BY <1>2, <1>3
<1>5. \A k \in K, s \in H!Sets : CacheSet(new[k][s])
  BY <1>1, <1>3
<1>6. new[rank][set] = f /\ \A k \in K, s \in H!Sets : ~(k = rank /\ s = set) => new[k][s] = rcc[k][s]
  BY <1>1, <1>3
<1> QED BY <1>4, <1>5, <1>6 DEF K, CacheSets

(* A reserved row is activated.                                             *)
LEMMA ReservedCovered ==
  ASSUME RowHammerAssumption, H!HydraAssumption, HydraInv,
         NEW b \in Banks, NEW r \in Rows, H!ActivateReserved(b, r)
  PROVE  HydraTables(group_count_table', row_count_table', row_count_cache', rct_count_table', acts')
<1> DEFINE t == flat_bank_id(b)
           count == H!RCTC[t][r] + 1
           w == H!Wrapped(count)
           z == IF count >= Threshold THEN 0 ELSE H!Acts[b][r] + 1
<1>1. HydraTables(H!GCT, H!RCT, H!RCC, H!RCTC, H!Acts)
  BY HydraStart
<1>2. /\ t \in Tables /\ r \in H!AllRows /\ \A d \in Banks : flat_bank_id(d) = t => d = b
      /\ \A d \in Banks, q \in Rows : flat_bank_id(d) \in Tables /\ q \in H!AllRows
  BY RowFacts
<1>3. /\ r < H!m_total_rct_row_size
      /\ rct_count_table' = [H!RCTC EXCEPT ![t][r] = w]
      /\ acts' = [H!Acts EXCEPT ![b][r] = IF count >= Threshold THEN 0 ELSE @ + 1]
      /\ group_count_table' = H!GCT /\ row_count_table' = H!RCT /\ row_count_cache' = H!RCC
  BY HydraNames DEF H!ActivateReserved, H!Counted
<1>4. acts' = [H!Acts EXCEPT ![b][r] = z]
  BY <1>3
<1> HIDE DEF t
<1>5. /\ H!RCTC \in [Tables -> [H!AllRows -> Counter]] /\ H!Acts \in [Banks -> [Rows -> Nat]]
      /\ H!Acts[b][r] <= H!RCTC[t][r]
  BY <1>1, <1>3 DEF HydraTables, Covered, t
<1>6. w \in Counter /\ z \in Nat /\ z <= w
  BY <1>2, <1>5 DEF H!Wrapped, Counter, RowHammerAssumption
<1> HIDE DEF count, w, z
<1>7. /\ rct_count_table' \in [Tables -> [H!AllRows -> Counter]] /\ rct_count_table'[t][r] = w
      /\ \A x \in Tables, y \in H!AllRows :
           ~(x = t /\ y = r) => rct_count_table'[x][y] = H!RCTC[x][y]
  BY <1>2, <1>3, <1>5, <1>6, EntryReplaced
<1>8. /\ acts' \in [Banks -> [Rows -> Nat]] /\ acts'[b][r] = z
      /\ \A x \in Banks, y \in Rows : ~(x = b /\ y = r) => acts'[x][y] = H!Acts[x][y]
  BY <1>4, <1>5, <1>6, EntryReplaced
<1>9. ASSUME NEW d \in Banks, NEW q \in Rows
      PROVE  Covered(H!GCT, H!RCT, H!RCC, rct_count_table', acts', d, q)
  <2>1. Covered(H!GCT, H!RCT, H!RCC, H!RCTC, H!Acts, d, q)
    BY <1>1 DEF HydraTables
  <2>2. CASE d = b /\ q = r
    BY <1>3, <1>6, <1>7, <1>8, <2>1, <2>2 DEF Covered, t
  <2>3. CASE ~(d = b /\ q = r)
    <3>1. acts'[d][q] = H!Acts[d][q] /\ rct_count_table'[flat_bank_id(d)][q] = H!RCTC[flat_bank_id(d)][q]
      BY <1>2, <1>7, <1>8, <2>3
    <3> QED BY <2>1, <3>1 DEF Covered
  <2> QED BY <2>2, <2>3
<1>10. HydraTables(H!GCT, H!RCT, H!RCC, rct_count_table', acts')
  BY <1>1, <1>7, <1>8, <1>9 DEF HydraTables
<1> QED BY <1>3, <1>10

(* A row of a group that is not hot is activated.                           *)
LEMMA ColdCovered ==
  ASSUME RowHammerAssumption, H!HydraAssumption, HydraInv,
         NEW b \in Banks, NEW r \in Rows, H!ActivateCold(b, r)
  PROVE  HydraTables(group_count_table', row_count_table', row_count_cache', rct_count_table', acts')
<1> DEFINE t == flat_bank_id(b)
           i == H!gct_index(r)
           old == H!GCT[t][i]
           e == [old EXCEPT !.count = @ + 1]
           z == H!Acts[b][r] + 1
<1>1. HydraTables(H!GCT, H!RCT, H!RCC, H!RCTC, H!Acts)
  BY HydraStart
<1>2. /\ t \in Tables /\ i \in H!Groups /\ r \in Nat /\ \A d \in Banks : flat_bank_id(d) = t => d = b
      /\ \A d \in Banks, q \in Rows : flat_bank_id(d) \in Tables /\ H!gct_index(q) \in H!Groups
  BY RowFacts
<1>3. /\ r >= H!m_total_rct_row_size /\ old.count < m_group_threshold
      /\ group_count_table' = [H!GCT EXCEPT ![t][i].count = @ + 1]
      /\ acts' = [H!Acts EXCEPT ![b][r] = @ + 1]
      /\ row_count_table' = H!RCT /\ row_count_cache' = H!RCC /\ rct_count_table' = H!RCTC
  BY HydraNames DEF H!ActivateCold
<1>4. acts' = [H!Acts EXCEPT ![b][r] = z] /\ group_count_table' = [H!GCT EXCEPT ![t][i] = e]
  BY <1>3
<1> HIDE DEF t, i
<1>5. /\ H!GCT \in [Tables -> [H!Groups -> GroupEntry]] /\ H!Acts \in [Banks -> [Rows -> Nat]]
      /\ (old.initialized => old.count = m_group_threshold)
      /\ Covered(H!GCT, H!RCT, H!RCC, H!RCTC, H!Acts, b, r)
  BY <1>1, <1>2 DEF HydraTables
<1>6. ~(r < H!m_total_rct_row_size) /\ m_group_threshold \in Nat
  BY <1>2, <1>3, HydraNumbers
<1>7. old \in GroupEntry /\ ~old.initialized /\ H!Acts[b][r] <= old.count
  <2>1. old \in GroupEntry
    BY <1>2, <1>5
  <2>2. ~old.initialized
    BY <1>3, <1>5, <1>6, <2>1 DEF GroupEntry
  <2> QED BY <1>5, <1>6, <2>1, <2>2 DEF Covered, t, i
<1>8. e \in GroupEntry /\ e.initialized = old.initialized /\ e.count = old.count + 1 /\ z \in Nat /\ z <= e.count
      /\ old.count \in Nat
  BY <1>3, <1>5, <1>6, <1>7 DEF GroupEntry
<1> HIDE DEF old, e, z
<1>9. /\ group_count_table' \in [Tables -> [H!Groups -> GroupEntry]] /\ group_count_table'[t][i] = e
      /\ \A x \in Tables, y \in H!Groups :
           ~(x = t /\ y = i) => group_count_table'[x][y] = H!GCT[x][y]
  BY <1>2, <1>4, <1>5, <1>8, EntryReplaced
<1>10. /\ acts' \in [Banks -> [Rows -> Nat]] /\ acts'[b][r] = z
       /\ \A x \in Banks, y \in Rows : ~(x = b /\ y = r) => acts'[x][y] = H!Acts[x][y]
  BY <1>4, <1>5, <1>8, EntryReplaced
<1>11. ASSUME NEW x \in Tables, NEW y \in H!Groups, group_count_table'[x][y].initialized
       PROVE  group_count_table'[x][y].count = m_group_threshold
  <2>1. ~(x = t /\ y = i)
    BY <1>7, <1>8, <1>9, <1>11
  <2>2. group_count_table'[x][y] = H!GCT[x][y]
    BY <1>9, <2>1
  <2> QED BY <1>1, <1>11, <2>2 DEF HydraTables
<1>12. ASSUME NEW d \in Banks, NEW q \in Rows
       PROVE  Covered(group_count_table', H!RCT, H!RCC, H!RCTC, acts', d, q)
  <2> DEFINE u == flat_bank_id(d)
             j == H!gct_index(q)
  <2>1. Covered(H!GCT, H!RCT, H!RCC, H!RCTC, H!Acts, d, q) /\ u \in Tables /\ j \in H!Groups
    BY <1>1, <1>2 DEF HydraTables
  <2>2. CASE d = b /\ q = r
    BY <1>6, <1>7, <1>8, <1>9, <1>10, <2>1, <2>2 DEF Covered, t, i, old
  <2>3. CASE ~(d = b /\ q = r)
    <3>1. acts'[d][q] = H!Acts[d][q] /\ acts'[d][q] \in Nat
      BY <1>10, <2>3
    <3>2. /\ group_count_table'[u][j].initialized = H!GCT[u][j].initialized
          /\ H!GCT[u][j].count <= group_count_table'[u][j].count
          /\ H!GCT[u][j].count \in Nat /\ group_count_table'[u][j].count \in Nat
      <4>1. CASE u = t /\ j = i
        BY <1>8, <1>9, <4>1 DEF old
      <4>2. CASE ~(u = t /\ j = i)
        <5>1. H!GCT[u][j].count \in Nat
          BY <1>5, <1>6, <2>1 DEF GroupEntry
        <5> QED BY <1>9, <2>1, <4>2, <5>1
      <4> QED BY <4>1, <4>2
    <3> QED BY <2>1, <3>1, <3>2 DEF Covered
  <2> QED BY <2>2, <2>3
<1>13. HydraTables(group_count_table', H!RCT, H!RCC, H!RCTC, acts')
  BY <1>1, <1>9, <1>10, <1>11, <1>12 DEF HydraTables
<1> QED BY <1>3, <1>13

(* A row whose counter is cached is activated.                              *)
LEMMA HitCovered ==
  ASSUME RowHammerAssumption, H!HydraAssumption, HydraInv,
         NEW b \in Banks, NEW r \in Rows, H!ActivateHit(b, r)
  PROVE  HydraTables(group_count_table', row_count_table', row_count_cache', rct_count_table', acts')
<1> DEFINE t == flat_bank_id(b)
           i == H!gct_index(r)
           k == b[1]
           s == H!rcc_index(r)
           tag == H!rcc_tag(b, r)
           old == H!GCT[t][i]
           set == H!RCC[k][s]
           count == set[tag] + 1
           w == H!Wrapped(count)
           z == IF count >= Threshold THEN 0 ELSE H!Acts[b][r] + 1
           f == [set EXCEPT ![tag] = w]
<1>1. HydraTables(H!GCT, H!RCT, H!RCC, H!RCTC, H!Acts)
  BY HydraStart
<1>2. /\ t \in Tables /\ i \in H!Groups /\ k \in 0..(Ranks - 1) /\ s \in H!Sets /\ r \in H!AllRows /\ r \in Nat
      /\ \A d \in Banks : flat_bank_id(d) = t => d = b
      /\ \A d \in Banks, q \in Rows :
           d[1] = k /\ H!rcc_index(q) = s /\ H!rcc_tag(d, q) = tag => d = b /\ q = r
  BY RowFacts
<1>3. \A d \in Banks, q \in Rows :
        /\ flat_bank_id(d) \in Tables /\ d[1] \in 0..(Ranks - 1)
        /\ H!gct_index(q) \in H!Groups /\ H!rcc_index(q) \in H!Sets /\ q \in H!AllRows
  BY RowFacts
<1>4. /\ r >= H!m_total_rct_row_size /\ tag \in DOMAIN set
      /\ group_count_table' = [H!GCT EXCEPT ![t][i].initialized = TRUE]
      /\ row_count_cache' = [H!RCC EXCEPT ![k][s][tag] = w]
      /\ row_count_table' = [H!RCT EXCEPT ![t] = H!TableAfterHit(H!Initialized(t, i), r, count)]
      /\ acts' = [H!Acts EXCEPT ![b][r] = IF count >= Threshold THEN 0 ELSE @ + 1]
      /\ rct_count_table' = H!RCTC
  BY HydraNames DEF H!ActivateHit, H!Counted
<1>5. acts' = [H!Acts EXCEPT ![b][r] = z] /\ row_count_cache' = [H!RCC EXCEPT ![k][s] = f]
  BY <1>4
<1>6. Covered(H!GCT, H!RCT, H!RCC, H!RCTC, H!Acts, b, r)
  BY <1>1 DEF HydraTables
<1>7. ~(r < H!m_total_rct_row_size)
  BY <1>2, <1>4, HydraNumbers
<1>8. old.initialized /\ set[tag] = H!RCT[t][r] /\ H!Acts[b][r] <= H!RCT[t][r]
  BY <1>4, <1>6, <1>7 DEF Covered, H!Cached
<1> HIDE DEF t, i, k, s, tag
<1>9. /\ H!GCT \in [Tables -> [H!Groups -> GroupEntry]] /\ H!Acts \in [Banks -> [Rows -> Nat]]
      /\ H!RCT \in [Tables -> [H!AllRows -> Counter]] /\ CacheSet(set)
  BY <1>1, <1>2 DEF HydraTables, CacheSets
<1>10. group_count_table' = H!GCT
  <2>1. old \in GroupEntry
    BY <1>2, <1>9
  <2>2. old = [count |-> old.count, initialized |-> old.initialized] /\ old.initialized = TRUE
    BY <1>8, <2>1 DEF GroupEntry
  <2>3. [old EXCEPT !.initialized = TRUE] = old
    BY <2>1, <2>2 DEF GroupEntry
  <2>4. group_count_table' = [H!GCT EXCEPT ![t][i] = [old EXCEPT !.initialized = TRUE]]
    BY <1>4
  <2>5. group_count_table' = [H!GCT EXCEPT ![t][i] = old]
    BY <2>3, <2>4
  <2> QED BY <1>2, <1>9, <2>5
<1>11. w \in Counter /\ z \in Nat /\ z <= w /\ (w = IF count >= Threshold THEN 0 ELSE H!RCT[t][r] + 1)
  <2>1. H!RCT[t][r] \in Counter /\ H!Acts[b][r] \in Nat /\ count = H!RCT[t][r] + 1
    BY <1>2, <1>8, <1>9
  <2> HIDE DEF count
  <2> QED BY <1>8, <2>1 DEF H!Wrapped, Counter, RowHammerAssumption
<1>12. row_count_table' = [H!RCT EXCEPT ![t][r] = w]
  <2>1. H!Initialized(t, i) = H!RCT[t]
    BY <1>8 DEF H!Initialized
  <2>2. H!TableAfterHit(H!RCT[t], r, count) = [H!RCT[t] EXCEPT ![r] = IF count >= Threshold THEN 0 ELSE @ + 1]
    BY DEF H!TableAfterHit
  <2>3. H!TableAfterHit(H!RCT[t], r, count) = [H!RCT[t] EXCEPT ![r] = w]
    BY <1>11, <2>2
  <2> QED BY <1>4, <2>1, <2>3
<1>13. CacheSet(f) /\ DOMAIN f = DOMAIN set /\ f[tag] = w /\ \A e \in DOMAIN set : e # tag => f[e] = set[e]
  <2>1. DOMAIN f = DOMAIN set /\ f[tag] = w /\ \A e \in DOMAIN set : e # tag => f[e] = set[e]
    BY <1>4
  <2>2. f = [e \in DOMAIN f |-> f[e]]
    OBVIOUS
  <2> HIDE DEF f
  <2> QED BY <1>9, <2>1, <2>2 DEF CacheSet
<1> HIDE DEF old, set, count, w, z, f
<1>14. /\ row_count_table' \in [Tables -> [H!AllRows -> Counter]] /\ row_count_table'[t][r] = w
       /\ \A x \in Tables, y \in H!AllRows : ~(x = t /\ y = r) => row_count_table'[x][y] = H!RCT[x][y]
  BY <1>2, <1>9, <1>11, <1>12, EntryReplaced
<1>15. /\ acts' \in [Banks -> [Rows -> Nat]] /\ acts'[b][r] = z
       /\ \A x \in Banks, y \in Rows : ~(x = b /\ y = r) => acts'[x][y] = H!Acts[x][y]
  BY <1>5, <1>9, <1>11, EntryReplaced
<1>16. /\ CacheSets(row_count_cache') /\ row_count_cache'[k][s] = f
       /\ \A x \in 0..(Ranks - 1), y \in H!Sets :
            ~(x = k /\ y = s) => row_count_cache'[x][y] = H!RCC[x][y]
  <2>1. CacheSets(H!RCC)
    BY <1>1 DEF HydraTables
  <2>2. row_count_cache' = PutSet(H!RCC, k, s, f)
    BY <1>5 DEF PutSet
  <2> QED BY <1>2, <1>13, <2>1, <2>2, SetReplaced
<1>17. ASSUME NEW d \in Banks, NEW q \in Rows
       PROVE  Covered(H!GCT, row_count_table', row_count_cache', H!RCTC, acts', d, q)
  <2>1. Covered(H!GCT, H!RCT, H!RCC, H!RCTC, H!Acts, d, q)
    BY <1>1 DEF HydraTables
  <2>2. CASE d = b /\ q = r
    BY <1>7, <1>8, <1>11, <1>13, <1>14, <1>15, <1>16, <2>2 DEF Covered, t, i, k, s, tag, old
  <2>3. CASE ~(d = b /\ q = r)
    <3>1. acts'[d][q] = H!Acts[d][q] /\ row_count_table'[flat_bank_id(d)][q] = H!RCT[flat_bank_id(d)][q]
      BY <1>2, <1>3, <1>14, <1>15, <2>3
    <3>2. /\ H!Cached(row_count_cache', d, q) <=> H!Cached(H!RCC, d, q)
          /\ H!Cached(H!RCC, d, q) => row_count_cache'[d[1]][H!rcc_index(q)][H!rcc_tag(d, q)]
                                        = H!RCC[d[1]][H!rcc_index(q)][H!rcc_tag(d, q)]
      <4>1. CASE d[1] = k /\ H!rcc_index(q) = s
        <5>1. H!rcc_tag(d, q) # tag
          BY <1>2, <2>3, <4>1
        <5> QED BY <1>13, <1>16, <4>1, <5>1 DEF H!Cached, set
      <4>2. CASE ~(d[1] = k /\ H!rcc_index(q) = s)
        <5>1. row_count_cache'[d[1]][H!rcc_index(q)] = H!RCC[d[1]][H!rcc_index(q)]
          BY <1>3, <1>16, <4>2
        <5> QED BY <5>1 DEF H!Cached
      <4> QED BY <4>1, <4>2
    <3> QED BY <2>1, <3>1, <3>2 DEF Covered
  <2> QED BY <2>2, <2>3
<1>18. HydraTables(H!GCT, row_count_table', row_count_cache', H!RCTC, acts')
  BY <1>1, <1>14, <1>15, <1>16, <1>17 DEF HydraTables
<1> QED BY <1>4, <1>10, <1>18

(* A row whose counter is not cached is activated; evicted is what makes    *)
(* room for it.                                                             *)
LEMMA MissCovered ==
  ASSUME RowHammerAssumption, H!HydraAssumption, HydraInv,
         NEW b \in Banks, NEW r \in Rows, H!ActivateMiss(b, r)
  PROVE  HydraTables(group_count_table', row_count_table', row_count_cache', rct_count_table', acts')
<1> DEFINE t == flat_bank_id(b)
           i == H!gct_index(r)
           k == b[1]
           s == H!rcc_index(r)
           tag == H!rcc_tag(b, r)
           old == H!GCT[t][i]
           new == [old EXCEPT !.initialized = TRUE]
           set == H!RCC[k][s]
           rows == H!Initialized(t, i)
           count == rows[r] + 1
           w == H!Wrapped(count)
           z == IF count >= Threshold THEN 0 ELSE H!Acts[b][r] + 1
           line == [rows EXCEPT ![r] = w]
<1>1. HydraTables(H!GCT, H!RCT, H!RCC, H!RCTC, H!Acts)
  BY HydraStart
<1>2. /\ t \in Tables /\ i \in H!Groups /\ k \in 0..(Ranks - 1) /\ s \in H!Sets /\ r \in H!AllRows /\ r \in Nat
      /\ \A d \in Banks : flat_bank_id(d) = t => d = b
      /\ \A d \in Banks, q \in Rows :
           d[1] = k /\ H!rcc_index(q) = s /\ H!rcc_tag(d, q) = tag => d = b /\ q = r
  BY RowFacts
<1>3. \A d \in Banks, q \in Rows :
        /\ flat_bank_id(d) \in Tables /\ d[1] \in 0..(Ranks - 1)
        /\ H!gct_index(q) \in H!Groups /\ H!rcc_index(q) \in H!Sets /\ q \in H!AllRows
  BY RowFacts
<1>4. /\ r >= H!m_total_rct_row_size /\ old.count >= m_group_threshold /\ tag \notin DOMAIN set
      /\ group_count_table' = [H!GCT EXCEPT ![t][i].initialized = TRUE]
      /\ rct_count_table' = H!RCTC
      /\ \/ ~H!Full(k, s) /\ H!ActivateMissEvicting(b, r, {})
         \/ H!Full(k, s) /\ \E e \in H!get_tag_to_evict(k, s) : H!ActivateMissEvicting(b, r, {e})
  BY HydraNames DEF H!ActivateMiss
<1>5. PICK evicted :
        /\ H!ActivateMissEvicting(b, r, evicted)
        /\ \/ ~H!Full(k, s) /\ evicted = {}
           \/ H!Full(k, s) /\ \E e \in DOMAIN set : evicted = {e}
  BY <1>4 DEF H!get_tag_to_evict
<1> DEFINE kept == DOMAIN set \ evicted
           f == [e \in kept \cup {tag} |-> IF e = tag THEN w ELSE set[e]]
<1>6. /\ row_count_cache' = [H!RCC EXCEPT ![k][s] = f]
      /\ row_count_table' = [H!RCT EXCEPT ![t] = line]
      /\ acts' = [H!Acts EXCEPT ![b][r] = IF count >= Threshold THEN 0 ELSE @ + 1]
  BY <1>5, HydraNames DEF H!ActivateMissEvicting, H!Counted
<1>7. acts' = [H!Acts EXCEPT ![b][r] = z] /\ group_count_table' = [H!GCT EXCEPT ![t][i] = new]
  BY <1>4, <1>6
<1>8. Covered(H!GCT, H!RCT, H!RCC, H!RCTC, H!Acts, b, r)
  BY <1>1 DEF HydraTables
<1>9. ~(r < H!m_total_rct_row_size) /\ m_group_threshold \in Nat /\ m_group_threshold \in Counter
      /\ Threshold \in Nat /\ Ways \in Nat
  BY <1>2, <1>4, HydraNumbers DEF Counter, RowHammerAssumption, H!HydraAssumption
<1>10. H!Acts[b][r] <= IF old.initialized THEN H!RCT[t][r] ELSE old.count
  BY <1>8, <1>9 DEF Covered
<1>11. rows = IF old.initialized THEN H!RCT[t]
              ELSE [q \in H!AllRows |-> IF H!gct_index(q) = i THEN m_group_threshold ELSE H!RCT[t][q]]
  BY DEF H!Initialized
<1> HIDE DEF t, i, k, s, tag, rows
<1>12. /\ H!GCT \in [Tables -> [H!Groups -> GroupEntry]] /\ H!Acts \in [Banks -> [Rows -> Nat]]
       /\ H!RCT \in [Tables -> [H!AllRows -> Counter]] /\ CacheSet(set)
  BY <1>1, <1>2 DEF HydraTables, CacheSets
<1>13. /\ old \in GroupEntry /\ old.count = m_group_threshold
       /\ new \in GroupEntry /\ new.initialized /\ new.count = m_group_threshold
  <2>1. old \in GroupEntry
    BY <1>2, <1>12
  <2>2. old.count \in 0..m_group_threshold
    BY <2>1 DEF GroupEntry
  <2>3. old.count = m_group_threshold
    BY <1>4, <1>9, <2>2
  <2>4. new \in GroupEntry /\ new.initialized /\ new.count = old.count
    BY <2>1 DEF GroupEntry
  <2> QED BY <2>1, <2>3, <2>4
<1>14. /\ rows \in [H!AllRows -> Counter]
       /\ \A q \in H!AllRows : H!gct_index(q) = i /\ ~old.initialized => rows[q] = m_group_threshold
       /\ \A q \in H!AllRows : H!gct_index(q) # i \/ old.initialized => rows[q] = H!RCT[t][q]
  <2>1. H!RCT[t] \in [H!AllRows -> Counter]
    BY <1>2, <1>12
  <2>2. CASE old.initialized
    BY <1>11, <2>1, <2>2
  <2>3. CASE ~old.initialized
    <3>1. rows = [q \in H!AllRows |-> IF H!gct_index(q) = i THEN m_group_threshold ELSE H!RCT[t][q]]
      BY <1>11, <2>3
    <3> HIDE DEF old
    <3> QED BY <1>9, <2>1, <2>3, <3>1
  <2> QED BY <2>2, <2>3
<1> HIDE DEF old, new
<1>15. w \in Counter /\ z \in Nat /\ z <= w
  <2>1. rows[r] \in Counter /\ H!Acts[b][r] \in Nat
    BY <1>2, <1>12, <1>14
  <2>2. H!Acts[b][r] <= rows[r]
    BY <1>2, <1>10, <1>13, <1>14 DEF i
  <2> QED BY <2>1, <2>2 DEF H!Wrapped, Counter, RowHammerAssumption
<1> HIDE DEF count, w, z
<1>16. /\ line \in [H!AllRows -> Counter] /\ line[r] = w
       /\ \A q \in H!AllRows : q # r => line[q] = rows[q]
  BY <1>2, <1>14, <1>15
<1> HIDE DEF line
<1>17. /\ row_count_table' \in [Tables -> [H!AllRows -> Counter]] /\ row_count_table'[t] = line
       /\ \A x \in Tables : x # t => row_count_table'[x] = H!RCT[x]
  BY <1>2, <1>6, <1>12, <1>16
<1>18. /\ acts' \in [Banks -> [Rows -> Nat]] /\ acts'[b][r] = z
       /\ \A x \in Banks, y \in Rows : ~(x = b /\ y = r) => acts'[x][y] = H!Acts[x][y]
  BY <1>7, <1>12, <1>15, EntryReplaced
<1>19. /\ group_count_table' \in [Tables -> [H!Groups -> GroupEntry]] /\ group_count_table'[t][i] = new
       /\ \A x \in Tables, y \in H!Groups :
            ~(x = t /\ y = i) => group_count_table'[x][y] = H!GCT[x][y]
  BY <1>2, <1>7, <1>12, <1>13, EntryReplaced
<1>20. ASSUME NEW x \in Tables, NEW y \in H!Groups, group_count_table'[x][y].initialized
       PROVE  group_count_table'[x][y].count = m_group_threshold
  <2>1. CASE x = t /\ y = i
    BY <1>13, <1>19, <2>1
  <2>2. CASE ~(x = t /\ y = i)
    BY <1>1, <1>19, <1>20, <2>2 DEF HydraTables
  <2> QED BY <2>1, <2>2
<1>21. /\ DOMAIN f = kept \cup {tag} /\ f[tag] = w /\ \A e \in DOMAIN f : e # tag => e \in DOMAIN set /\ f[e] = set[e]
       /\ f = [e \in DOMAIN f |-> f[e]]
  OBVIOUS
<1>22. CacheSet(f)
  <2>1. IsFiniteSet(DOMAIN set) /\ Cardinality(DOMAIN set) <= Ways /\ Cardinality(DOMAIN set) \in Nat
    BY <1>12, FS_CardinalityType DEF CacheSet
  <2>2. H!Full(k, s) <=> Cardinality(DOMAIN set) = Ways
    BY HydraNames DEF H!Full
  <2>3. IsFiniteSet(kept) /\ Cardinality(kept) \in Nat /\ Cardinality(kept) + 1 <= Ways
    <3>1. CASE ~H!Full(k, s) /\ evicted = {}
      <4>1. kept = DOMAIN set
        BY <3>1
      <4> HIDE DEF set, kept
      <4> QED BY <1>9, <2>1, <2>2, <3>1, <4>1
    <3>2. CASE \E e \in DOMAIN set : evicted = {e}
      <4>1. PICK e \in DOMAIN set : evicted = {e}
        BY <3>2
      <4>2. kept = DOMAIN set \ {e}
        BY <4>1
      <4> HIDE DEF set, kept
      <4>3. IsFiniteSet(kept) /\ Cardinality(kept) = Cardinality(DOMAIN set) - 1
        BY <2>1, <4>2, FS_RemoveElement
      <4>4. Cardinality(kept) \in Nat
        BY <4>3, FS_CardinalityType
      <4> QED BY <1>9, <2>1, <4>3, <4>4
    <3> QED BY <1>5, <3>1, <3>2
  <2> HIDE DEF kept, f
  <2>4. IsFiniteSet(kept \cup {tag}) /\ Cardinality(kept \cup {tag}) \in Nat
        /\ Cardinality(kept \cup {tag}) <= Cardinality(kept) + 1
    BY <2>3, OneMore
  <2>5. Cardinality(kept \cup {tag}) <= Ways
    BY <1>9, <2>3, <2>4
  <2> QED BY <1>21, <2>4, <2>5 DEF CacheSet
<1> HIDE DEF set, f
<1>23. /\ CacheSets(row_count_cache') /\ row_count_cache'[k][s] = f
       /\ \A x \in 0..(Ranks - 1), y \in H!Sets :
            ~(x = k /\ y = s) => row_count_cache'[x][y] = H!RCC[x][y]
  <2>1. CacheSets(H!RCC)
    BY <1>1 DEF HydraTables
  <2>2. row_count_cache' = PutSet(H!RCC, k, s, f)
    BY <1>6 DEF PutSet
  <2> QED BY <1>2, <1>22, <2>1, <2>2, SetReplaced
<1>24. ASSUME NEW d \in Banks, NEW q \in Rows
       PROVE  Covered(group_count_table', row_count_table', row_count_cache', H!RCTC, acts', d, q)
  <2> DEFINE u == flat_bank_id(d)
             j == H!gct_index(q)
             entry == H!GCT[u][j]
             entry2 == group_count_table'[u][j]
  <2>1. Covered(H!GCT, H!RCT, H!RCC, H!RCTC, H!Acts, d, q)
    BY <1>1 DEF HydraTables
  <2>2. CASE d = b /\ q = r
    <3>1. u = t /\ j = i /\ row_count_table'[t][r] = w /\ entry2.initialized
      BY <1>13, <1>16, <1>17, <1>19, <2>2 DEF t, i
    <3>2. row_count_cache'[k][s][tag] = w
      BY <1>21, <1>23
    <3> QED BY <1>9, <1>15, <1>18, <2>2, <3>1, <3>2 DEF Covered, t, k, s, tag
  <2>3. CASE ~(d = b /\ q = r)
    <3>1. acts'[d][q] = H!Acts[d][q] /\ u \in Tables /\ j \in H!Groups /\ q \in H!AllRows
      BY <1>3, <1>18, <2>3
    <3>2. /\ (u = t /\ j = i /\ ~old.initialized) => row_count_table'[u][q] = m_group_threshold
          /\ ~(u = t /\ j = i /\ ~old.initialized) => row_count_table'[u][q] = H!RCT[u][q]
      <4>1. CASE u = t
        <5>1. q # r
          BY <1>2, <2>3, <4>1
        <5> QED BY <1>14, <1>16, <1>17, <3>1, <4>1, <5>1
      <4>2. CASE u # t
        BY <1>17, <3>1, <4>2
      <4> QED BY <4>1, <4>2
    <3>3. /\ (u = t /\ j = i) => entry2.initialized /\ entry.count = m_group_threshold
                                 /\ entry.initialized = old.initialized
          /\ ~(u = t /\ j = i) => entry2 = entry
      BY <1>13, <1>19, <3>1 DEF old
    <3>4. H!Cached(row_count_cache', d, q) =>
            /\ H!Cached(H!RCC, d, q)
            /\ row_count_cache'[d[1]][H!rcc_index(q)][H!rcc_tag(d, q)]
                 = H!RCC[d[1]][H!rcc_index(q)][H!rcc_tag(d, q)]
      <4>1. CASE d[1] = k /\ H!rcc_index(q) = s
        <5>1. H!rcc_tag(d, q) # tag
          BY <1>2, <2>3, <4>1
        <5> QED BY <1>21, <1>23, <4>1, <5>1 DEF H!Cached, set
      <4>2. CASE ~(d[1] = k /\ H!rcc_index(q) = s)
        <5>1. row_count_cache'[d[1]][H!rcc_index(q)] = H!RCC[d[1]][H!rcc_index(q)]
          BY <1>3, <1>23, <4>2
        <5> QED BY <5>1 DEF H!Cached
      <4> QED BY <4>1, <4>2
    <3>5. /\ H!Cached(H!RCC, d, q) =>
               entry.initialized /\ H!RCC[d[1]][H!rcc_index(q)][H!rcc_tag(d, q)] = H!RCT[u][q]
          /\ H!Acts[d][q] <= IF q < H!m_total_rct_row_size THEN H!RCTC[u][q]
                             ELSE IF entry.initialized THEN H!RCT[u][q] ELSE entry.count
      BY <2>1 DEF Covered
    <3> HIDE DEF u, j, entry, entry2
    <3>6. /\ H!Cached(row_count_cache', d, q) =>
               entry2.initialized
               /\ row_count_cache'[d[1]][H!rcc_index(q)][H!rcc_tag(d, q)] = row_count_table'[u][q]
          /\ acts'[d][q] <= IF q < H!m_total_rct_row_size THEN H!RCTC[u][q]
                            ELSE IF entry2.initialized THEN row_count_table'[u][q] ELSE entry2.count
      <4>1. CASE u = t /\ j = i
        BY <3>1, <3>2, <3>3, <3>4, <3>5, <4>1
      <4>2. CASE ~(u = t /\ j = i)
        BY <3>1, <3>2, <3>3, <3>4, <3>5, <4>2
      <4> QED BY <4>1, <4>2
    <3> QED BY <3>6 DEF Covered, u, j, entry2
  <2> QED BY <2>2, <2>3
<1>25. HydraTables(group_count_table', row_count_table', row_count_cache', H!RCTC, acts')
  BY <1>1, <1>17, <1>18, <1>19, <1>20, <1>23, <1>24 DEF HydraTables
<1> QED BY <1>4, <1>25

LEMMA HydraInvariance ==
  ASSUME RowHammerAssumption, H!HydraAssumption
  PROVE  H!Spec => []HydraInv
<1>1. H!Init => HydraInv
  <2> SUFFICES ASSUME H!Init PROVE HydraInv
    OBVIOUS
  <2>1. m_clk \in 0..(m_reset_period_clk - 1)
    BY DEF H!Init, H!HydraAssumption
  <2>2. /\ group_count_table = H!NoGroups /\ row_count_table = H!NoCounts /\ row_count_cache = H!NoCache
        /\ rct_count_table = H!NoCounts /\ acts = H!NoActs
    BY DEF H!Init
  <2> QED BY <2>1, <2>2, HydraReset DEF HydraInv
<1>2. HydraInv /\ [H!update]_H!vars => HydraInv'
  <2> SUFFICES ASSUME HydraInv, [H!update]_H!vars PROVE HydraInv'
    OBVIOUS
  <2>1. H!Now \in 0..(m_reset_period_clk - 1)
    BY HydraStart
  <2>2. CASE H!Idle
    <3>1. /\ m_clk' = H!Now /\ group_count_table' = H!GCT /\ row_count_table' = H!RCT
          /\ row_count_cache' = H!RCC /\ rct_count_table' = H!RCTC /\ acts' = H!Acts
      BY <2>2 DEF H!Idle, H!Clocked
    <3>2. HydraTables(H!GCT, H!RCT, H!RCC, H!RCTC, H!Acts)
      BY HydraStart
    <3>3. HydraTables(group_count_table', row_count_table', row_count_cache', rct_count_table', acts')
      BY <3>1, <3>2
    <3> QED BY <2>1, <3>1, <3>3 DEF HydraInv
  <2>3. ASSUME NEW b \in Banks, NEW r \in Rows, H!Activate(b, r) PROVE HydraInv'
    <3>1. m_clk' = H!Now
      BY <2>3 DEF H!Activate, H!Clocked
    <3>2. HydraTables(group_count_table', row_count_table', row_count_cache', rct_count_table', acts')
      BY <2>3, ReservedCovered, ColdCovered, HitCovered, MissCovered DEF H!Activate
    <3> QED BY <2>1, <3>1, <3>2 DEF HydraInv
  <2>4. CASE UNCHANGED H!vars
    BY <2>4 DEF H!vars, HydraInv
  <2> QED BY <2>2, <2>3, <2>4, HydraNames DEF H!update
<1> QED BY <1>1, <1>2, PTL DEF H!Spec

(* The counters of Hydra keep their ranges, and a set of its cache never    *)
(* grows beyond its ways.                                                   *)
THEOREM HydraTypes ==
  ASSUME RowHammerAssumption, H!HydraAssumption
  PROVE  H!Spec => []H!TypeOK
<1>1. ASSUME HydraInv PROVE H!TypeOK
  <2>1. /\ m_clk \in 0..(m_reset_period_clk - 1)
        /\ group_count_table \in [Tables -> [H!Groups -> GroupEntry]]
        /\ row_count_table \in [Tables -> [H!AllRows -> Counter]]
        /\ rct_count_table \in [Tables -> [H!AllRows -> Counter]]
    BY <1>1 DEF HydraInv, HydraTables
  <2>2. \A k \in 0..(Ranks - 1), s \in H!Sets : H!Cardinality(DOMAIN row_count_cache[k][s]) <= Ways
    BY <1>1, HydraNames DEF HydraInv, HydraTables, CacheSets, CacheSet
  <2>3. \A t \in H!Tables, g \in H!Groups : group_count_table[t][g].count \in 0..m_group_threshold
    BY <2>1, HydraNames DEF GroupEntry
  <2>4. /\ row_count_table \in [H!Tables -> [H!AllRows -> 0..(Threshold - 1)]]
        /\ rct_count_table \in [H!Tables -> [H!AllRows -> 0..(Threshold - 1)]]
    BY <2>1, HydraNames DEF Counter
  <2> QED BY <2>1, <2>2, <2>3, <2>4 DEF H!TypeOK
<1> QED BY <1>1, HydraInvariance, PTL

(* A cached counter is the stored one, so that the entry can be evicted and *)
(* read again, by whichever policy, without losing activations.             *)
THEOREM HydraCoherent ==
  ASSUME RowHammerAssumption, H!HydraAssumption
  PROVE  H!Spec => []H!CacheCoherent
<1>1. HydraInv => H!CacheCoherent
  BY HydraNames DEF HydraInv, HydraTables, Covered, H!CacheCoherent
<1> QED BY <1>1, HydraInvariance, PTL

(* Hydra lets no row be activated Threshold times in a period without a     *)
(* refresh of its victims, whichever of its counters is in charge of it.    *)
THEOREM HydraBound ==
  ASSUME RowHammerAssumption, H!HydraAssumption
  PROVE  H!Spec => []H!HammerBound
<1>1. ASSUME HydraInv, NEW b \in Banks, NEW r \in Rows PROVE acts[b][r] < Threshold
  <2>1. HydraTables(group_count_table, row_count_table, row_count_cache, rct_count_table, acts)
    BY <1>1 DEF HydraInv
  <2>2. flat_bank_id(b) \in Tables /\ r \in H!AllRows /\ H!gct_index(r) \in H!Groups
    BY RowFacts
  <2> DEFINE entry == group_count_table[flat_bank_id(b)][H!gct_index(r)]
             x == rct_count_table[flat_bank_id(b)][r]
             y == row_count_table[flat_bank_id(b)][r]
  <2>3. x \in Counter /\ y \in Counter /\ entry \in GroupEntry /\ acts[b][r] \in Nat
    BY <2>1, <2>2 DEF HydraTables
  <2>4. acts[b][r] <= IF r < H!m_total_rct_row_size THEN x ELSE IF entry.initialized THEN y ELSE entry.count
    BY <2>1 DEF HydraTables, Covered
  <2>5. entry.count \in 0..m_group_threshold
    BY <2>3 DEF GroupEntry
  <2> HIDE DEF entry, x, y
  <2> QED BY <2>3, <2>4, <2>5, HydraNumbers DEF Counter, RowHammerAssumption
<1>2. HydraInv => H!HammerBound
  BY <1>1, HydraNames DEF H!HammerBound
<1> QED BY <1>2, HydraInvariance, PTL

LEMMA Cancel ==
  ASSUME NEW x \in Int, NEW y \in Int, NEW n \in Nat \ {0}
  PROVE  /\ x * n < y * n => x < y
         /\ x * n <= y * n => x <= y
         /\ x * n = y * n => x = y
<1>1. ASSUME y <= x PROVE y * n <= x * n
  BY <1>1, Monotone
<1>2. ASSUME y < x PROVE y * n < x * n
  <2>1. (y + 1) * n <= x * n
    BY <1>2, Monotone
  <2>2. (y + 1) * n = y * n + n /\ y * n \in Int
    OBVIOUS
  <2> QED BY <2>1, <2>2
<1>3. ASSUME x < y PROVE x * n < y * n
  <2>1. (x + 1) * n <= y * n
    BY <1>3, Monotone
  <2>2. (x + 1) * n = x * n + n /\ x * n \in Int
    OBVIOUS
  <2> QED BY <2>1, <2>2
<1> DEFINE p == x * n
           q == y * n
<1>4. p \in Int /\ q \in Int
  OBVIOUS
<1>5. (y <= x => q <= p) /\ (y < x => q < p) /\ (x < y => p < q)
  BY <1>1, <1>2, <1>3
<1>6. (p < q => x < y) /\ (p <= q => x <= y) /\ (p = q => x = y)
  <2> HIDE DEF p, q
  <2> QED BY <1>4, <1>5
<1> QED BY <1>6

(* A quotient rounded up.                                                   *)
LEMMA RoundedUp ==
  ASSUME NEW x \in Nat, NEW n \in Nat \ {0}
  PROVE  (x + n - 1) \div n \in Nat /\ x <= ((x + n - 1) \div n) * n
<1> DEFINE y == x + n - 1
           q == y \div n
           m == y % n
<1>1. y \in Nat
  OBVIOUS
<1>2. q \in Nat /\ m \in 0..(n - 1) /\ y = q * n + m
  <2> HIDE DEF y
  <2> QED BY <1>1, DivMod
<1>3. x <= q * n
  <2> DEFINE p == q * n
  <2>1. p \in Int /\ m \in 0..(n - 1) /\ x + n - 1 = p + m
    BY <1>2
  <2> HIDE DEF p, q, m, y
  <2>2. x <= p
    BY <2>1
  <2> QED BY <2>2 DEF p
<1> QED BY <1>2, <1>3

LEMMA DivLess ==
  ASSUME NEW x \in Nat, NEW n \in Nat \ {0}, NEW k \in Nat, x < k * n
  PROVE  x \div n < k
<1> DEFINE q == x \div n
           m == x % n
<1>1. q \in Nat /\ m \in 0..(n - 1) /\ x = q * n + m
  BY DivMod
<1>2. q * n < k * n
  <2> DEFINE u == q * n
             v == k * n
  <2>1. u \in Int /\ v \in Int /\ x = u + m /\ m \in 0..(n - 1) /\ x < v
    BY <1>1
  <2> HIDE DEF u, v, m
  <2>2. u < v
    BY <2>1
  <2> QED BY <2>2 DEF u, v
<1>3. q < k
  <2> HIDE DEF q
  <2> QED BY <1>1, <1>2, Cancel
<1> QED BY <1>3

(* The counters of a line, of a row and of the bank.                        *)
LEMMA CounterRows ==
  ASSUME RowHammerAssumption, H!HydraAssumption, H!CountersFill
  PROVE  /\ H!m_rct_per_cl \in Nat \ {0} /\ H!m_rct_per_row \in Nat \ {0} /\ H!m_total_rct_row_size \in Nat
         /\ m_num_rows_per_bank <= H!m_total_rct_row_size * H!m_rct_per_row
         /\ \A i \in 0..(H!m_group_rct_cl_size - 1) : i * H!m_rct_per_cl \in 0..(m_row_group_size - 1)
<1> DEFINE N == m_num_rows_per_bank
           B == m_counter_bits
           L == LineBits
           c == m_num_cls
           g == m_row_group_size
           K == L \div B
           C == (N * B) \div L
           T == (C + c - 1) \div c
           P == (c * L) \div B
           D == (g * B) \div L
<1>1. N \in Nat \ {0} /\ B \in Nat \ {0} /\ L \in Nat \ {0} /\ c \in Nat \ {0} /\ g \in Nat \ {0}
      /\ L % B = 0 /\ (N * B) % L = 0
  BY DEF H!HydraAssumption, H!CountersFill
<1>2. /\ H!m_rct_per_cl = K /\ H!m_rct_per_row = P /\ H!m_total_rct_row_size = T
      /\ H!m_group_rct_cl_size = D
  BY DEF H!m_rct_per_cl, H!m_rct_per_row, H!m_total_rct_row_size, H!m_total_rct_cl_size,
         H!m_group_rct_cl_size
<1> HIDE DEF N, B, L, c, g
<1>3. K \in Nat \ {0} /\ L = K * B
  <2>1. K \in Nat /\ L = K * B + (L % B)
    BY <1>1, DivMod
  <2> HIDE DEF K
  <2>2. L = K * B
    BY <1>1, <2>1
  <2> QED BY <1>1, <2>1, <2>2
<1>4. C \in Nat /\ N = C * K
  <2> DEFINE x == N * B
  <2>1. x \in Nat
    BY <1>1
  <2>2. C \in Nat /\ x = C * L + (x % L)
    <3> HIDE DEF x
    <3>1. x \div L \in Nat /\ x = (x \div L) * L + (x % L)
      BY <1>1, <2>1, DivMod
    <3> QED BY <3>1 DEF x
  <2> HIDE DEF C
  <2>3. C * L \in Int /\ x % L = 0
    BY <1>1, <2>2
  <2>4. x = C * L
    BY <2>1, <2>2, <2>3
  <2>5. C * L = (C * K) * B
    <3> HIDE DEF K
    <3> QED BY <1>1, <1>3, <2>2
  <2>6. C * K \in Int
    BY <1>3, <2>2
  <2> DEFINE y == C * K
  <2>7. N * B = y * B /\ y \in Int /\ N \in Int
    BY <1>1, <2>4, <2>5, <2>6
  <2> HIDE DEF y
  <2>8. N = y
    BY <1>1, <2>7, Cancel
  <2> QED BY <2>2, <2>8 DEF y
<1> HIDE DEF C
<1>5. T \in Nat /\ C <= T * c
  BY <1>1, <1>4, RoundedUp
<1> HIDE DEF T, K
<1>6. P = c * K /\ P \in Nat \ {0}
  <2> DEFINE x == c * L
             y == c * K
  <2>1. x \in Nat /\ y \in Nat \ {0} /\ x = y * B
    BY <1>1, <1>3
  <2>2. P \in Nat /\ x % B \in 0..(B - 1) /\ x = P * B + (x % B)
    <3> HIDE DEF x
    <3>1. x \div B \in Nat /\ x % B \in 0..(B - 1) /\ x = (x \div B) * B + (x % B)
      BY <1>1, <2>1, DivMod
    <3> QED BY <3>1 DEF x
  <2> DEFINE z == x % B
  <2>3. y \in Nat /\ P \in Nat /\ z \in 0..(B - 1) /\ 0 \in 0..(B - 1) /\ P * B + z = y * B + 0
    BY <1>1, <2>1, <2>2
  <2> HIDE DEF x, y, z, P
  <2>4. P = y
    BY <1>1, <2>3, DigitsUnique
  <2> QED BY <2>1, <2>4 DEF y
<1> HIDE DEF P
<1>7. N <= T * P
  <2>1. C * K <= (T * c) * K
    <3> DEFINE x == T * c
    <3>1. x \in Int /\ C <= x
      BY <1>1, <1>5
    <3> HIDE DEF x
    <3>2. C * K <= x * K
      BY <1>3, <1>4, <3>1, Monotone
    <3> QED BY <3>2 DEF x
  <2>2. (T * c) * K = T * (c * K)
    BY <1>1, <1>3, <1>5
  <2> QED BY <1>4, <1>6, <2>1, <2>2
<1>8. ASSUME NEW i \in 0..(D - 1) PROVE i * K \in 0..(g - 1)
  <2> DEFINE x == g * B
  <2>1. x \in Nat
    BY <1>1
  <2>2. D \in Nat /\ x % L \in 0..(L - 1) /\ x = D * L + (x % L)
    <3> HIDE DEF x
    <3>1. x \div L \in Nat /\ x % L \in 0..(L - 1) /\ x = (x \div L) * L + (x % L)
      BY <1>1, <2>1, DivMod
    <3> QED BY <3>1 DEF x
  <2>3. i \in Nat /\ i + 1 <= D
    BY <2>2
  <2> HIDE DEF D, x
  <2>4. (i + 1) * L <= D * L
    BY <1>1, <2>2, <2>3, Monotone
  <2>5. (i + 1) * L <= x
    <3> DEFINE u == D * L
               v == (i + 1) * L
    <3>1. u \in Int /\ v \in Int /\ v <= u /\ x = u + (x % L)
      BY <1>1, <2>2, <2>3, <2>4
    <3> HIDE DEF u, v
    <3>2. v <= x
      BY <1>1, <2>1, <2>2, <3>1
    <3> QED BY <3>2 DEF v
  <2>6. (i + 1) * L = ((i + 1) * K) * B
    BY <1>1, <1>3, <2>3
  <2> DEFINE y == (i + 1) * K
  <2>7. y \in Int /\ y * B <= g * B
    BY <1>3, <2>3, <2>5, <2>6 DEF x
  <2>8. y = i * K + K /\ i * K \in Nat
    BY <1>3, <2>3
  <2> HIDE DEF y
  <2>9. y <= g
    BY <1>1, <2>7, Cancel
  <2> DEFINE w == i * K
  <2>10. w \in Nat /\ y = w + K
    BY <2>8
  <2> HIDE DEF w
  <2>11. w \in 0..(g - 1)
    BY <1>1, <1>3, <2>9, <2>10
  <2> QED BY <2>11 DEF w
<1> HIDE DEF D
<1>9. /\ H!m_rct_per_cl \in Nat \ {0} /\ H!m_rct_per_row \in Nat \ {0} /\ H!m_total_rct_row_size \in Nat
      /\ m_num_rows_per_bank <= H!m_total_rct_row_size * H!m_rct_per_row
  BY <1>2, <1>3, <1>5, <1>6, <1>7 DEF N
<1>10. \A i \in 0..(H!m_group_rct_cl_size - 1) : i * H!m_rct_per_cl \in 0..(m_row_group_size - 1)
  BY <1>2, <1>8 DEF g
<1> QED BY <1>9, <1>10

(* The counter of a row of the bank is stored in a reserved row.            *)
LEMMA StoredInReserved ==
  ASSUME RowHammerAssumption, H!HydraAssumption, H!CountersFill,
         NEW x \in Nat, x < m_num_rows_per_bank
  PROVE  H!generate_row_col_id(x).row < H!m_total_rct_row_size
<1> DEFINE P == H!m_rct_per_row
           T == H!m_total_rct_row_size
<1>1. P \in Nat \ {0} /\ T \in Nat /\ m_num_rows_per_bank <= T * P
  BY CounterRows
<1>2. m_num_rows_per_bank \in Nat /\ T * P \in Int
  BY <1>1 DEF H!HydraAssumption
<1> HIDE DEF P, T
<1>3. x < T * P
  <2> DEFINE y == T * P
  <2>1. y \in Int /\ m_num_rows_per_bank <= y
    BY <1>1, <1>2
  <2> HIDE DEF y
  <2>2. x < y
    BY <1>2, <2>1
  <2> QED BY <2>2 DEF y
<1>4. x \div P < T
  BY <1>1, <1>3, DivLess
<1> QED BY <1>4 DEF H!generate_row_col_id, P, T

(* The tags of the cache are numbers, from which a row can be had.          *)
Tags(rcc) == \A k \in 0..(Ranks - 1), s \in H!Sets : DOMAIN rcc[k][s] \subseteq Nat

(* A request for a counter, where it is stored.                             *)
Reserved(q) == q.type \in {"read", "write"} => q.at.row < H!m_total_rct_row_size

ReservedInv == Tags(row_count_cache) /\ \A q \in sent : Reserved(q)

LEMMA ReservedRequests ==
  ASSUME RowHammerAssumption, H!HydraAssumption, H!CountersFill, NEW b \in Banks, NEW r \in Rows
  PROVE  /\ Reserved(H!CounterRequest("read", b, r))
         /\ \A q \in H!InitWrites(b, H!gct_index(r)) : Reserved(q)
         /\ \A k : \A s \in H!Sets, e \in Nat : Reserved(H!EvictedWrite(k, s, e))
         /\ \A n : \A q \in H!VictimRefreshes(b, r, n) : Reserved(q)
<1> DEFINE N == m_num_rows_per_bank
           g == m_row_group_size
           M == m_rcc_set_num
<1>1. /\ N \in Nat \ {0} /\ g \in Nat \ {0} /\ M \in Nat \ {0} /\ N % g = 0 /\ N % M = 0
      /\ r \in Nat /\ r < N
  BY DEF H!HydraAssumption, RowHammerAssumption
<1>2. \A type, d : \A x \in Nat : x < N => Reserved(H!CounterRequest(type, d, x))
  BY StoredInReserved DEF Reserved, H!CounterRequest
<1>3. Reserved(H!CounterRequest("read", b, r))
  BY <1>1, <1>2
<1>4. ASSUME NEW q \in H!InitWrites(b, H!gct_index(r)) PROVE Reserved(q)
  <2> DEFINE j == H!gct_index(r)
             n == N \div g
  <2>1. PICK i \in 0..(H!m_group_rct_cl_size - 1) : q = H!CounterRequest("write", b, j * g + i * H!m_rct_per_cl)
    BY <1>4 DEF H!InitWrites
  <2>2. j \in H!Groups
    BY HydraNumbers
  <2>3. j \in 0..(n - 1)
    BY <2>2 DEF H!Groups
  <2>4. n \in Nat /\ N = n * g
    <3>1. n \in Nat /\ N = n * g + (N % g)
      <4> HIDE DEF N, g
      <4> QED BY <1>1, DivMod
    <3> HIDE DEF n, N, g
    <3>2. n * g \in Int
      BY <1>1, <3>1
    <3> QED BY <1>1, <3>1, <3>2
  <2> DEFINE y == i * H!m_rct_per_cl
  <2>5. y \in 0..(g - 1)
    BY CounterRows
  <2> HIDE DEF y, j, n, N, g
  <2>6. (j + 1) * g <= n * g
    BY <1>1, <2>3, <2>4, Monotone
  <2>7. j * g + y \in Nat /\ j * g + y < N
    <3> DEFINE u == j * g
               v == (j + 1) * g
    <3>1. u \in Nat /\ v = u + g
      BY <1>1, <2>3
    <3>2. v <= N
      BY <2>4, <2>6
    <3> HIDE DEF u, v
    <3>3. u + y \in Nat /\ u + y < N
      BY <1>1, <2>5, <3>1, <3>2
    <3> QED BY <3>3 DEF u
  <2> QED BY <1>2, <2>1, <2>7 DEF y, j, g
<1>5. ASSUME NEW k, NEW s \in H!Sets, NEW e \in Nat PROVE Reserved(H!EvictedWrite(k, s, e))
  <2> DEFINE n == H!TagRows
             y == e % n
  <2>1. n \in Nat /\ N = n * M
    <3>1. N \div M \in Nat /\ N = (N \div M) * M + (N % M)
      <4> HIDE DEF N, M
      <4> QED BY <1>1, DivMod
    <3>2. n = N \div M
      BY DEF H!TagRows
    <3> HIDE DEF n, N, M
    <3>3. n * M \in Int
      BY <1>1, <3>1, <3>2
    <3> QED BY <1>1, <3>1, <3>2, <3>3
  <2>2. n # 0
    <3> HIDE DEF n
    <3> QED BY <1>1, <2>1
  <2>3. y \in 0..(n - 1)
    <3> HIDE DEF n
    <3> QED BY <2>1, <2>2, DivMod
  <2>4. s \in 0..(M - 1)
    BY DEF H!Sets
  <2> HIDE DEF y, n, N, M
  <2>5. (y + 1) * M <= n * M
    BY <1>1, <2>1, <2>3, Monotone
  <2>6. y * M + s \in Nat /\ y * M + s < N
    <3> DEFINE u == y * M
               v == (y + 1) * M
    <3>1. u \in Nat /\ v = u + M
      BY <1>1, <2>3
    <3>2. v <= N
      BY <2>1, <2>5
    <3> HIDE DEF u, v
    <3>3. u + s \in Nat /\ u + s < N
      BY <1>1, <2>4, <3>1, <3>2
    <3> QED BY <3>3 DEF u
  <2> DEFINE at == y * M + s
  <2>7. \E d : H!EvictedWrite(k, s, e) = H!CounterRequest("write", d, at)
    BY DEF H!EvictedWrite, y, n, M
  <2>8. at \in Nat /\ at < N
    BY <2>6
  <2> HIDE DEF at
  <2> QED BY <1>2, <2>7, <2>8
<1>6. ASSUME NEW n, NEW q \in H!VictimRefreshes(b, r, n) PROVE Reserved(q)
  <2>1. q.type = "victim-row-refresh"
    BY <1>6 DEF H!VictimRefreshes, H!VictimRefresh
  <2> QED BY <2>1 DEF Reserved
<1> QED BY <1>3, <1>4, <1>5, <1>6

LEMMA HydraReserved ==
  ASSUME RowHammerAssumption, H!HydraAssumption, H!CountersFill
  PROVE  H!Spec => []ReservedInv
<1>1. \A k \in 0..(Ranks - 1), s \in H!Sets : DOMAIN H!NoCache[k][s] = {}
  BY DEF H!NoCache
<1>2. H!Init => ReservedInv
  BY <1>1 DEF H!Init, ReservedInv, Tags
<1>3. HydraInv /\ ReservedInv /\ [H!update]_H!vars => ReservedInv'
  <2> SUFFICES ASSUME HydraInv, ReservedInv, [H!update]_H!vars PROVE ReservedInv'
    OBVIOUS
  <2>1. Tags(H!RCC) /\ CacheSets(H!RCC)
    <3>1. Tags(H!NoCache)
      BY <1>1 DEF Tags
    <3> QED BY <3>1, HydraStart DEF H!RCC, ReservedInv, HydraTables
  <2>2. CASE H!Idle
    <3>1. row_count_cache' = H!RCC /\ sent' = {}
      BY <2>2 DEF H!Idle
    <3>2. Tags(row_count_cache')
      BY <2>1, <3>1
    <3> QED BY <3>1, <3>2 DEF ReservedInv, Tags
  <2>3. ASSUME NEW b \in Banks, NEW r \in Rows, H!Activate(b, r) PROVE ReservedInv'
    <3> DEFINE k == b[1]
               s == H!rcc_index(r)
               i == H!gct_index(r)
               tag == H!rcc_tag(b, r)
    <3>1. k \in 0..(Ranks - 1) /\ s \in H!Sets /\ tag \in Nat
      <4>1. k \in 0..(Ranks - 1) /\ s \in H!Sets
        BY RowFacts
      <4>2. r \div m_rcc_set_num \in Nat /\ H!TagRows \in Nat
        <5>1. r \in Nat /\ m_num_rows_per_bank \in Nat /\ m_rcc_set_num \in Nat \ {0}
          BY DEF RowHammerAssumption, H!HydraAssumption
        <5> QED BY <5>1, DivMod DEF H!TagRows
      <4>3. H!bank_id(b) \in Nat
        <5>1. flat_bank_id(b) \in Nat /\ m_num_banks_per_rank \in Nat \ {0}
          BY RowFacts, SMT DEF Tables, RowHammerAssumption, m_num_banks_per_rank
        <5> QED BY <5>1, HydraNames, DivMod DEF H!bank_id
      <4> QED BY <4>1, <4>2, <4>3 DEF H!rcc_tag
    <3>2. /\ Reserved(H!CounterRequest("read", b, r))
          /\ \A q \in H!InitWrites(b, i) : Reserved(q)
          /\ \A e \in Nat : Reserved(H!EvictedWrite(k, s, e))
          /\ \A n : \A q \in H!VictimRefreshes(b, r, n) : Reserved(q)
      BY <3>1, ReservedRequests
    <3> HIDE DEF k, s, i, tag
    <3>3. SUFFICES Tags(row_count_cache') /\ \A q \in sent' : Reserved(q)
      BY DEF ReservedInv, Tags, Reserved, H!m_total_rct_row_size, H!m_total_rct_cl_size
    <3>4. CASE H!ActivateReserved(b, r)
      <4>1. row_count_cache' = H!RCC /\ \E n : sent' = H!VictimRefreshes(b, r, n)
        BY <3>4 DEF H!ActivateReserved
      <4> QED BY <2>1, <3>2, <4>1
    <3>5. CASE H!ActivateCold(b, r)
      <4>1. row_count_cache' = H!RCC /\ sent' = {}
        BY <3>5 DEF H!ActivateCold
      <4> QED BY <2>1, <4>1
    <3>6. CASE H!ActivateHit(b, r)
      <4>1. /\ \E n : row_count_cache' = [H!RCC EXCEPT ![k][s][tag] = n]
            /\ \E n : sent' = H!InitWrites(b, i) \cup H!VictimRefreshes(b, r, n)
        BY <3>6 DEF H!ActivateHit, k, s, i, tag
      <4>2. \A l \in 0..(Ranks - 1), z \in H!Sets : DOMAIN row_count_cache'[l][z] = DOMAIN H!RCC[l][z]
        BY <2>1, <4>1 DEF CacheSets
      <4> QED BY <2>1, <3>2, <4>1, <4>2 DEF Tags
    <3>7. CASE H!ActivateMiss(b, r)
      <4>1. PICK evicted : H!ActivateMissEvicting(b, r, evicted) /\ evicted \subseteq DOMAIN H!RCC[k][s]
        <5>1. \/ H!ActivateMissEvicting(b, r, {})
              \/ \E e \in H!get_tag_to_evict(k, s) : H!ActivateMissEvicting(b, r, {e})
          BY <3>7 DEF H!ActivateMiss, k, s
        <5>2. H!get_tag_to_evict(k, s) \subseteq DOMAIN H!RCC[k][s]
          BY DEF H!get_tag_to_evict
        <5>3. CASE H!ActivateMissEvicting(b, r, {})
          BY <5>3
        <5>4. ASSUME NEW e \in H!get_tag_to_evict(k, s), H!ActivateMissEvicting(b, r, {e})
              PROVE  \E x : H!ActivateMissEvicting(b, r, x) /\ x \subseteq DOMAIN H!RCC[k][s]
          <6>1. {e} \subseteq DOMAIN H!RCC[k][s]
            BY <5>2
          <6> QED BY <5>4, <6>1
        <5> QED BY <5>1, <5>3, <5>4
      <4>2. \A e \in evicted : e \in Nat
        BY <2>1, <3>1, <4>1 DEF Tags
      <4>3. /\ \E f : row_count_cache' = [H!RCC EXCEPT ![k][s] = f]
                      /\ DOMAIN f = (DOMAIN H!RCC[k][s] \ evicted) \cup {tag}
            /\ \E n : sent' = H!InitWrites(b, i) \cup {H!EvictedWrite(k, s, e) : e \in evicted}
                              \cup {H!CounterRequest("read", b, r)} \cup H!VictimRefreshes(b, r, n)
        <5>1. \E w : row_count_cache' = [H!RCC EXCEPT ![k][s] =
                        [e \in (DOMAIN H!RCC[k][s] \ evicted) \cup {tag} |->
                           IF e = tag THEN w ELSE H!RCC[k][s][e]]]
          BY <4>1 DEF H!ActivateMissEvicting, k, s, tag
        <5>2. \E n : sent' = H!InitWrites(b, i) \cup {H!EvictedWrite(k, s, e) : e \in evicted}
                             \cup {H!CounterRequest("read", b, r)} \cup H!VictimRefreshes(b, r, n)
          BY <4>1 DEF H!ActivateMissEvicting, k, s, i
        <5>3. PICK w : row_count_cache' = [H!RCC EXCEPT ![k][s] =
                         [e \in (DOMAIN H!RCC[k][s] \ evicted) \cup {tag} |->
                            IF e = tag THEN w ELSE H!RCC[k][s][e]]]
          BY <5>1
        <5> DEFINE f == [e \in (DOMAIN H!RCC[k][s] \ evicted) \cup {tag} |->
                           IF e = tag THEN w ELSE H!RCC[k][s][e]]
        <5>4. row_count_cache' = [H!RCC EXCEPT ![k][s] = f] /\ DOMAIN f = (DOMAIN H!RCC[k][s] \ evicted) \cup {tag}
          BY <5>3
        <5> HIDE DEF f
        <5> QED BY <5>2, <5>4
      <4>4. ASSUME NEW l \in 0..(Ranks - 1), NEW z \in H!Sets PROVE DOMAIN row_count_cache'[l][z] \subseteq Nat
        <5>1. PICK f : row_count_cache' = [H!RCC EXCEPT ![k][s] = f]
                       /\ DOMAIN f = (DOMAIN H!RCC[k][s] \ evicted) \cup {tag}
          BY <4>3
        <5>2. row_count_cache'[l][z] = IF l = k /\ z = s THEN f ELSE H!RCC[l][z]
          BY <2>1, <3>1, <5>1 DEF CacheSets
        <5> QED BY <2>1, <3>1, <5>1, <5>2 DEF Tags
      <4>5. \A q \in sent' : Reserved(q)
        BY <3>2, <4>2, <4>3
      <4> QED BY <4>4, <4>5 DEF Tags
    <3> QED BY <2>3, <3>4, <3>5, <3>6, <3>7 DEF H!Activate
  <2>4. CASE UNCHANGED H!vars
    BY <2>4 DEF H!vars, ReservedInv, Tags, Reserved, H!m_total_rct_row_size, H!m_total_rct_cl_size
  <2> QED BY <2>2, <2>3, <2>4, HydraNames DEF H!update
<1> QED BY <1>2, <1>3, HydraInvariance, PTL DEF H!Spec

(* Hydra reads and writes counters only in the rows that it keeps free of   *)
(* data: when a group is initialized, when an entry is fetched and when one *)
(* is evicted, whose row is had from its set and tag.                       *)
THEOREM HydraReservedRows ==
  ASSUME RowHammerAssumption, H!HydraAssumption, H!CountersFill
  PROVE  H!Spec => []H!CountersInReservedRows
<1>1. ReservedInv => H!CountersInReservedRows
  BY DEF ReservedInv, Reserved, H!CountersInReservedRows
<1> QED BY <1>1, HydraReserved, PTL

-----------------------------------------------------------------------------
(* RRS *)

LEMMA RRSNames ==
  /\ R!Banks = Banks /\ R!Tables = Tables
  /\ \A b : R!flat_bank_id(b) = flat_bank_id(b)
  /\ \A X : R!Cardinality(X) = Cardinality(X)
BY DEF R!Banks, Banks, R!Tables, Tables, R!m_num_banks_per_rank, m_num_banks_per_rank,
       R!flat_bank_id, flat_bank_id, R!Cardinality, Cardinality

LEMMA RowsDrawn ==
  ASSUME RowHammerAssumption, R!RRSAssumption
  PROVE  Rows \subseteq R!distribution
<1>1. IsFiniteSet(Rows) /\ Rows = 0..(Cardinality(Rows) - 1)
  BY RRSNames DEF RowHammerAssumption, R!RRSAssumption
<1>2. Cardinality(Rows) \in Nat
  BY <1>1, FS_CardinalityType
<1>3. R!distribution = 0..Cardinality(Rows)
  BY RRSNames DEF R!distribution, R!m_num_rows_per_bank
<1> QED BY <1>1, <1>2, <1>3

(* The rests of numbers that follow each other.                             *)
LEMMA NextRest ==
  ASSUME NEW c \in Nat, NEW n \in Nat \ {0}, (c + 1) % n # 0
  PROVE  (c + 1) % n = (c % n) + 1
<1> DEFINE p == c \div n
           m == c % n
           q == (c + 1) \div n
           k == (c + 1) % n
<1>1. p \in Nat /\ m \in 0..(n - 1) /\ c = p * n + m
  BY DivMod
<1>2. q \in Nat /\ k \in 0..(n - 1) /\ c + 1 = q * n + k
  <2> DEFINE d == c + 1
  <2>1. d \in Nat
    OBVIOUS
  <2> HIDE DEF d
  <2>2. d \div n \in Nat /\ d % n \in 0..(n - 1) /\ d = (d \div n) * n + (d % n)
    BY <2>1, DivMod
  <2> QED BY <2>2 DEF d
<1>3. k # 0
  OBVIOUS
<1> HIDE DEF p, m, q, k
<1>4. k - 1 \in 0..(n - 1) /\ p * n + m = q * n + (k - 1)
  BY <1>1, <1>2, <1>3
<1>5. m = k - 1
  BY <1>1, <1>2, <1>4, DigitsUnique
<1> QED BY <1>1, <1>2, <1>5 DEF m, k

LEMMA SmallRest ==
  ASSUME NEW c \in Nat, NEW n \in Nat \ {0}
  PROVE  c % n \in Nat /\ c % n < n /\ (c < n => c % n = c)
<1>1. c % n \in 0..(n - 1) /\ c \div n \in Nat /\ c = (c \div n) * n + (c % n)
  BY DivMod
<1>2. ASSUME c < n PROVE c % n = c
  <2>1. c \in 0..(n - 1) /\ 0 * n + c = (c \div n) * n + (c % n)
    BY <1>1, <1>2
  <2> QED BY <1>1, <2>1, DigitsUnique
<1> QED BY <1>1, <1>2

(* The tracker f and the spillover counter s of a bank that has been        *)
(* activated n times at most since the last reset, its rows a times since   *)
(* they were last swapped.  Like Graphene's, but rows come in while there   *)
(* is room, and a count is never reduced: its rest covers the activations.  *)
Tracked(f, s, a, n) ==
  /\ f = [e \in DOMAIN f |-> f[e]] /\ DOMAIN f \subseteq R!distribution
  /\ IsFiniteSet(DOMAIN f) /\ Cardinality(DOMAIN f) <= m_num_hrt_entries
  /\ s \in Nat /\ n \in Nat /\ a \in [R!distribution -> Nat]
  /\ \A e \in DOMAIN f : f[e] \in Nat \ {0} /\ s <= f[e]
  /\ s > 0 => Cardinality(DOMAIN f) = m_num_hrt_entries
  /\ IsFiniteSet(Cells(f)) /\ Cardinality(Cells(f)) + s <= n
  /\ \A r \in R!distribution : a[r] <= IF r \in DOMAIN f THEN f[r] % Threshold ELSE s

(* In a period, the spillover counter does not reach the threshold.         *)
LEMMA SpillBelowThreshold ==
  ASSUME RowHammerAssumption, R!RRSAssumption, NEW f, NEW s, NEW a, NEW n,
         Tracked(f, s, a, n), n <= m_reset_period_clk
  PROVE  s < Threshold
<1> DEFINE E == m_num_hrt_entries
<1>1. /\ E \in Nat \ {0} /\ m_reset_period_clk \in Nat /\ Threshold \in Nat \ {0, 1}
      /\ m_reset_period_clk < Threshold * (E + 1) /\ s \in Nat /\ n \in Nat
  BY DEF RowHammerAssumption, R!RRSAssumption, Tracked
<1>2. CASE s = 0
  BY <1>1, <1>2
<1>3. CASE s > 0
  <2>1. E * s <= Cardinality(Cells(f))
    BY <1>1, <1>3, SpillsCounted DEF Tracked
  <2>2. Cardinality(Cells(f)) \in Nat /\ Cardinality(Cells(f)) + s <= n
    BY FS_CardinalityType DEF Tracked
  <2>3. ASSUME Threshold <= s PROVE FALSE
    <3>1. Threshold * (E + 1) <= s * (E + 1)
      BY <1>1, <2>3, Monotone
    <3>2. s * (E + 1) = E * s + s /\ E * s \in Nat
      BY <1>1
    <3> DEFINE p == E * s
               q == Threshold * (E + 1)
    <3>3. p \in Nat /\ q \in Int /\ q <= p + s /\ m_reset_period_clk < q /\ p <= Cardinality(Cells(f))
      BY <1>1, <2>1, <3>1, <3>2
    <3> HIDE DEF p, q
    <3> QED BY <1>1, <2>2, <3>3
  <2> QED BY <1>1, <2>3
<1> QED BY <1>1, <1>2, <1>3

(* An entry counts an activation, its own or that of a row that takes its   *)
(* place or comes in; what leaves was down to the spillover.                *)
LEMMA OneTracked ==
  ASSUME RowHammerAssumption, R!RRSAssumption, NEW f, NEW s, NEW a, NEW n, Tracked(f, s, a, n),
         s < Threshold, NEW r \in R!distribution, NEW g, NEW activated \in Nat,
         g = [x \in DOMAIN g |-> g[x]], r \in DOMAIN g, DOMAIN g \subseteq R!distribution,
         g[r] \in Nat \ {0}, s <= g[r], activated <= g[r] % Threshold,
         \A x \in DOMAIN g : x # r => x \in DOMAIN f /\ g[x] = f[x],
         \A x \in DOMAIN f : x \notin DOMAIN g => f[x] = s,
         IsFiniteSet(DOMAIN g), Cardinality(DOMAIN g) <= m_num_hrt_entries,
         s > 0 => Cardinality(DOMAIN g) = m_num_hrt_entries,
         IsFiniteSet(Cells(g)), Cardinality(Cells(g)) <= Cardinality(Cells(f)) + 1
  PROVE  Tracked(g, s, [a EXCEPT ![r] = activated], n + 1)
<1> DEFINE b == [a EXCEPT ![r] = activated]
<1>1. s \in Nat /\ n \in Nat /\ a \in [R!distribution -> Nat] /\ Threshold \in Nat \ {0}
  BY DEF Tracked, RowHammerAssumption
<1>2. b \in [R!distribution -> Nat] /\ b[r] = activated
      /\ \A q \in R!distribution : q # r => b[q] = a[q]
  BY <1>1
<1> HIDE DEF b
<1>3. \A x \in DOMAIN g : g[x] \in Nat \ {0} /\ s <= g[x]
  BY DEF Tracked
<1>4. ASSUME NEW q \in R!distribution
      PROVE  b[q] <= IF q \in DOMAIN g THEN g[q] % Threshold ELSE s
  <2>1. a[q] <= IF q \in DOMAIN f THEN f[q] % Threshold ELSE s
    BY DEF Tracked
  <2>2. CASE q = r
    BY <1>2, <2>2
  <2>3. CASE q # r /\ q \in DOMAIN g
    BY <1>2, <2>1, <2>3
  <2>4. CASE q # r /\ q \notin DOMAIN g /\ q \in DOMAIN f
    <3>1. f[q] = s /\ s % Threshold = s
      BY <1>1, <2>4, SmallRest
    <3>2. a[q] <= s
      BY <2>1, <2>4, <3>1
    <3> QED BY <1>2, <2>4, <3>2
  <2>5. CASE q # r /\ q \notin DOMAIN g /\ q \notin DOMAIN f
    BY <1>2, <2>1, <2>5
  <2> QED BY <2>2, <2>3, <2>4, <2>5
<1>5. Cardinality(Cells(g)) + s <= n + 1 /\ n + 1 \in Nat
  <2>1. /\ Cardinality(Cells(g)) \in Nat /\ Cardinality(Cells(f)) \in Nat
        /\ Cardinality(Cells(f)) + s <= n
    BY FS_CardinalityType DEF Tracked
  <2> QED BY <1>1, <2>1
<1>6. Tracked(g, s, b, n + 1)
  BY <1>1, <1>2, <1>3, <1>4, <1>5 DEF Tracked
<1> QED BY <1>6 DEF b

(* What a row's activations come to when its count rises to c, from no less *)
(* than the count that covered them.                                        *)
Activations(c, before) == IF R!Hot(c) THEN 0 ELSE before + 1

LEMMA ActivationsCovered ==
  ASSUME RowHammerAssumption, NEW c \in Nat, NEW before \in Nat, before <= c % Threshold
  PROVE  /\ Activations(c + 1, before) \in Nat
         /\ Activations(c + 1, before) <= (c + 1) % Threshold
<1>1. Threshold \in Nat \ {0}
  BY DEF RowHammerAssumption
<1> DEFINE d == c + 1
<1>2. d \in Nat
  OBVIOUS
<1>3. CASE d % Threshold = 0
  BY <1>3 DEF Activations, R!Hot
<1>4. CASE d % Threshold # 0
  <2>1. d % Threshold = (c % Threshold) + 1
    BY <1>1, <1>4, NextRest
  <2>2. Activations(d, before) = before + 1
    BY <1>4 DEF Activations, R!Hot
  <2>3. c % Threshold \in Nat
    BY <1>1, SmallRest
  <2> HIDE DEF d
  <2>4. Activations(d, before) \in Nat /\ Activations(d, before) <= d % Threshold
    BY <2>1, <2>2, <2>3
  <2> QED BY <2>4 DEF d
<1> QED BY <1>3, <1>4

(* Whatever the tracker becomes that counts an activation of row r.         *)
LEMMA CountingTracked ==
  ASSUME RowHammerAssumption, R!RRSAssumption, NEW f, NEW s, NEW a, NEW n, Tracked(f, s, a, n),
         s < Threshold, NEW r \in R!distribution, NEW g \in R!Counting(f, r, s)
  PROVE  /\ Tracked(g, s, [a EXCEPT ![r] = Activations(g[r], a[r])], n + 1)
         /\ r \in DOMAIN g /\ g[r] \in Nat \ {0}
         /\ \A x \in DOMAIN f : f[x] > s => x \in DOMAIN g /\ g[x] >= f[x]
         /\ r \in DOMAIN f => g[r] = f[r] + 1
<1> DEFINE E == m_num_hrt_entries
<1>1. /\ s \in Nat /\ a \in [R!distribution -> Nat] /\ a[r] \in Nat /\ Threshold \in Nat \ {0, 1} /\ E \in Nat \ {0}
      /\ f = [e \in DOMAIN f |-> f[e]] /\ DOMAIN f \subseteq R!distribution
      /\ IsFiniteSet(DOMAIN f) /\ Cardinality(DOMAIN f) <= E /\ IsFiniteSet(Cells(f))
      /\ \A e \in DOMAIN f : f[e] \in Nat \ {0} /\ s <= f[e]
      /\ s > 0 => Cardinality(DOMAIN f) = E
      /\ a[r] <= IF r \in DOMAIN f THEN f[r] % Threshold ELSE s
  BY DEF Tracked, RowHammerAssumption, R!RRSAssumption
<1>2. CASE r \in DOMAIN f
  <2>1. g = [x \in DOMAIN f \cup {r} |-> IF x = r THEN f[r] + 1 ELSE f[x]]
    BY <1>2 DEF R!Counting, R!WithCount
  <2>2. /\ g = [x \in DOMAIN g |-> g[x]] /\ DOMAIN g = DOMAIN f /\ g[r] = f[r] + 1
        /\ \A x \in DOMAIN g : x # r => g[x] = f[x]
    BY <1>2, <2>1
  <2> DEFINE c == f[r]
  <2>3. c \in Nat \ {0} /\ s <= c /\ a[r] <= c % Threshold /\ g[r] = c + 1
    BY <1>1, <1>2, <2>2
  <2> HIDE DEF c
  <2>4. Activations(g[r], a[r]) \in Nat /\ Activations(g[r], a[r]) <= g[r] % Threshold
    BY <1>1, <2>3, ActivationsCovered
  <2>5. IsFiniteSet(Cells(g)) /\ Cardinality(Cells(g)) <= Cardinality(Cells(f)) + 1
    BY <1>1, <1>2, <2>2, CellsMoved
  <2>6. g[r] \in Nat \ {0} /\ s <= g[r]
    BY <1>1, <2>3
  <2>7. Tracked(g, s, [a EXCEPT ![r] = Activations(g[r], a[r])], n + 1)
    BY <1>1, <1>2, <2>2, <2>4, <2>5, <2>6, OneTracked
  <2>8. \A x \in DOMAIN f : x \in DOMAIN g /\ g[x] >= f[x]
    BY <1>1, <2>2, <2>3 DEF c
  <2> QED BY <1>2, <2>2, <2>6, <2>7, <2>8
<1>3. CASE r \notin DOMAIN f /\ R!HasRoom(f)
  <2>1. g = [x \in DOMAIN f \cup {r} |-> IF x = r THEN 1 ELSE f[x]]
    BY <1>3 DEF R!Counting, R!WithCount
  <2>2. /\ g = [x \in DOMAIN g |-> g[x]] /\ DOMAIN g = DOMAIN f \cup {r} /\ g[r] = 1
        /\ \A x \in DOMAIN f : g[x] = f[x]
    BY <1>3, <2>1
  <2>3. Cardinality(DOMAIN f) < E /\ Cardinality(DOMAIN f) \in Nat
    BY <1>1, <1>3, RRSNames, FS_CardinalityType DEF R!HasRoom
  <2>4. s = 0
    BY <1>1, <2>3
  <2>5. IsFiniteSet(DOMAIN g) /\ Cardinality(DOMAIN g) <= E
    <3>1. IsFiniteSet(DOMAIN g) /\ Cardinality(DOMAIN g) = Cardinality(DOMAIN f) + 1
      BY <1>1, <1>3, <2>2, FS_AddElement
    <3> QED BY <1>1, <2>3, <3>1
  <2>6. a[r] <= 0 % Threshold /\ 0 + 1 = g[r] /\ 0 \in Nat
    BY <1>1, <1>3, <2>2, <2>4, SmallRest
  <2>7. Activations(g[r], a[r]) \in Nat /\ Activations(g[r], a[r]) <= g[r] % Threshold
    BY <1>1, <2>6, ActivationsCovered
  <2>8. IsFiniteSet(Cells(g)) /\ Cardinality(Cells(g)) <= Cardinality(Cells(f)) + 1
    <3>1. Cells(g) \subseteq Cells(f) \cup {<<r, 1>>}
      <4> SUFFICES ASSUME NEW c \in Cells(g), c # <<r, 1>> PROVE c \in Cells(f)
        OBVIOUS
      <4>1. c = <<c[1], c[2]>> /\ c[1] \in DOMAIN g /\ c[2] \in Nat /\ c[2] \in 1..g[c[1]]
        BY DEF Cells
      <4>2. c[1] # r
        BY <2>2, <4>1
      <4>3. c \in (DOMAIN f) \X Nat /\ g[c[1]] = f[c[1]]
        BY <2>2, <4>1, <4>2
      <4> QED BY <4>1, <4>3 DEF Cells
    <3>2. /\ IsFiniteSet(Cells(f) \cup {<<r, 1>>})
          /\ Cardinality(Cells(f) \cup {<<r, 1>>}) <= Cardinality(Cells(f)) + 1
          /\ Cardinality(Cells(f)) \in Nat
      BY <1>1, OneMore, FS_CardinalityType
    <3>3. IsFiniteSet(Cells(g)) /\ Cardinality(Cells(g)) <= Cardinality(Cells(f) \cup {<<r, 1>>})
      BY <3>1, <3>2, FS_Subset
    <3>4. Cardinality(Cells(g)) \in Nat /\ Cardinality(Cells(f) \cup {<<r, 1>>}) \in Nat
      BY <3>2, <3>3, FS_CardinalityType
    <3> QED BY <3>2, <3>3, <3>4
  <2>9. g[r] \in Nat \ {0} /\ s <= g[r] /\ ~(s > 0)
    BY <1>1, <2>2, <2>4
  <2>10. DOMAIN g \subseteq R!distribution /\ r \in DOMAIN g
         /\ \A x \in DOMAIN f : x \in DOMAIN g
    BY <1>1, <2>2
  <2>11. \A x \in DOMAIN g : x # r => x \in DOMAIN f /\ g[x] = f[x]
    BY <2>2
  <2>12. Tracked(g, s, [a EXCEPT ![r] = Activations(g[r], a[r])], n + 1)
    BY <2>2, <2>5, <2>7, <2>8, <2>9, <2>10, <2>11, OneTracked
  <2>13. \A x \in DOMAIN f : x \in DOMAIN g /\ g[x] >= f[x]
    BY <1>1, <2>2, <2>10
  <2> QED BY <1>3, <2>9, <2>10, <2>12, <2>13
<1>4. CASE r \notin DOMAIN f /\ ~R!HasRoom(f)
  <2>1. g \in R!Replacing(f, r, s)
    BY <1>4 DEF R!Counting
  <2>2. PICK e \in DOMAIN f : f[e] = s /\ g = R!WithCount(R!Restrict(f, DOMAIN f \ {e}), r, s + 1)
    BY <2>1 DEF R!Replacing
  <2>3. /\ g = [x \in DOMAIN g |-> g[x]] /\ DOMAIN g = (DOMAIN f \ {e}) \cup {r} /\ g[r] = s + 1
        /\ \A x \in DOMAIN f : x # e => g[x] = f[x]
    BY <1>4, <2>2 DEF R!WithCount, R!Restrict
  <2>4. /\ \A x \in DOMAIN g : x # r => x \in DOMAIN f /\ x # e /\ g[x] = f[x]
        /\ \A x \in DOMAIN f : x \notin DOMAIN g => f[x] = s
        /\ r \in DOMAIN g /\ DOMAIN g \subseteq R!distribution
    BY <1>1, <2>2, <2>3
  <2>5. IsFiniteSet(DOMAIN g) /\ Cardinality(DOMAIN g) = Cardinality(DOMAIN f)
    <3>1. IsFiniteSet(DOMAIN f \ {e}) /\ Cardinality(DOMAIN f \ {e}) = Cardinality(DOMAIN f) - 1
      BY <1>1, FS_RemoveElement
    <3>2. r \notin DOMAIN f \ {e}
      BY <1>4
    <3>3. IsFiniteSet(DOMAIN g) /\ Cardinality(DOMAIN g) = (Cardinality(DOMAIN f) - 1) + 1
      BY <2>3, <3>1, <3>2, FS_AddElement
    <3>4. Cardinality(DOMAIN f) \in Nat
      BY <1>1, FS_CardinalityType
    <3> QED BY <3>3, <3>4
  <2>6. a[r] <= s % Threshold
    BY <1>1, <1>4, SmallRest
  <2>7. Activations(g[r], a[r]) \in Nat /\ Activations(g[r], a[r]) <= g[r] % Threshold
    BY <1>1, <2>3, <2>6, ActivationsCovered
  <2>8. IsFiniteSet(Cells(g)) /\ Cardinality(Cells(g)) <= Cardinality(Cells(f)) + 1
    <3>1. f[e] \in Nat /\ g[r] = f[e] + 1
      BY <1>1, <2>2, <2>3
    <3> QED BY <1>1, <2>4, <3>1, CellsMoved
  <2>9. g[r] \in Nat \ {0} /\ s <= g[r]
    BY <1>1, <2>3
  <2>10. Tracked(g, s, [a EXCEPT ![r] = Activations(g[r], a[r])], n + 1)
    BY <1>1, <2>3, <2>4, <2>5, <2>7, <2>8, <2>9, OneTracked
  <2>11. \A x \in DOMAIN f : f[x] > s => x \in DOMAIN g /\ g[x] >= f[x]
    <3> SUFFICES ASSUME NEW x \in DOMAIN f, f[x] > s PROVE x \in DOMAIN g /\ g[x] >= f[x]
      OBVIOUS
    <3>1. x # e
      BY <1>1, <2>2
    <3> QED BY <1>1, <2>3, <3>1
  <2> QED BY <1>4, <2>4, <2>9, <2>10, <2>11
<1> QED BY <1>2, <1>3, <1>4

(* The spillover counts the activation of a row that is nowhere.            *)
LEMMA SpillTracked ==
  ASSUME RowHammerAssumption, R!RRSAssumption, NEW f, NEW s, NEW a, NEW n, Tracked(f, s, a, n),
         NEW r \in R!distribution, R!Counting(f, r, s) = {}
  PROVE  Tracked(f, s + 1, [a EXCEPT ![r] = @ + 1], n + 1)
<1> DEFINE b == [a EXCEPT ![r] = @ + 1]
<1>1. /\ s \in Nat /\ n \in Nat /\ a \in [R!distribution -> Nat] /\ m_num_hrt_entries \in Nat
      /\ IsFiniteSet(DOMAIN f) /\ Cardinality(DOMAIN f) <= m_num_hrt_entries
      /\ \A e \in DOMAIN f : f[e] \in Nat \ {0} /\ s <= f[e]
  BY DEF Tracked, R!RRSAssumption
<1>2. r \notin DOMAIN f /\ ~R!HasRoom(f) /\ R!Replacing(f, r, s) = {}
  BY DEF R!Counting
<1>3. Cardinality(DOMAIN f) = m_num_hrt_entries
  <2>1. Cardinality(DOMAIN f) \in Nat
    BY <1>1, FS_CardinalityType
  <2> QED BY <1>1, <1>2, <2>1, RRSNames DEF R!HasRoom
<1>4. \A e \in DOMAIN f : f[e] # s
  BY <1>2 DEF R!Replacing
<1>5. b \in [R!distribution -> Nat] /\ b[r] = a[r] + 1
      /\ \A q \in R!distribution : q # r => b[q] = a[q]
  BY <1>1
<1> HIDE DEF b
<1>6. ASSUME NEW q \in R!distribution
      PROVE  b[q] <= IF q \in DOMAIN f THEN f[q] % Threshold ELSE s + 1
  <2>1. a[q] <= (IF q \in DOMAIN f THEN f[q] % Threshold ELSE s) /\ a[q] \in Nat
    BY <1>1 DEF Tracked
  <2> QED BY <1>1, <1>2, <1>5, <2>1
<1>7. \A e \in DOMAIN f : s + 1 <= f[e]
  BY <1>1, <1>4
<1>8. Cardinality(Cells(f)) + (s + 1) <= n + 1 /\ s + 1 \in Nat /\ n + 1 \in Nat
  <2>1. Cardinality(Cells(f)) \in Nat /\ Cardinality(Cells(f)) + s <= n
    BY FS_CardinalityType DEF Tracked
  <2> QED BY <1>1, <2>1
<1>9. Tracked(f, s + 1, b, n + 1)
  BY <1>3, <1>5, <1>6, <1>7, <1>8 DEF Tracked
<1> QED BY <1>9 DEF b

(* The indirection of a bank leads to rows that can be drawn.               *)
RITEntry == [dst_row : R!distribution, lock : BOOLEAN]

Leads(rit) == DOMAIN rit \subseteq R!distribution /\ rit \in [DOMAIN rit -> RITEntry]

LEMMA InsertLeads ==
  ASSUME NEW rit, Leads(rit), NEW src \in R!distribution, NEW dst \in R!distribution
  PROVE  Leads(R!rit_insert_entry(rit, src, dst))
<1> DEFINE new == R!rit_insert_entry(rit, src, dst)
<1>1. /\ DOMAIN new = DOMAIN rit \cup {src, dst} /\ new = [x \in DOMAIN new |-> new[x]]
      /\ new[dst] = [dst_row |-> src, lock |-> TRUE]
      /\ src # dst => new[src] = [dst_row |-> dst, lock |-> TRUE]
      /\ \A x \in DOMAIN rit : x # src /\ x # dst => new[x] = rit[x]
  BY DEF R!rit_insert_entry
<1>2. [dst_row |-> src, lock |-> TRUE] \in RITEntry /\ [dst_row |-> dst, lock |-> TRUE] \in RITEntry
  BY DEF RITEntry
<1> HIDE DEF new
<1>3. \A x \in DOMAIN rit : rit[x] \in RITEntry
  BY DEF Leads
<1>4. \A x \in DOMAIN new : new[x] \in RITEntry
  BY <1>1, <1>2, <1>3
<1>5. Leads(new)
  BY <1>1, <1>4 DEF Leads
<1> QED BY <1>5 DEF new

LEMMA RemoveLeads ==
  ASSUME NEW rit, Leads(rit), NEW src, NEW dst
  PROVE  Leads(R!rit_remove_entry(rit, src, dst))
BY DEF Leads, R!rit_remove_entry, R!Restrict

LEMMA UnlockLeads ==
  ASSUME NEW rit, Leads(rit)
  PROVE  Leads(R!rit_unlock(rit))
<1>1. ASSUME NEW x \in DOMAIN rit PROVE [rit[x] EXCEPT !.lock = FALSE] \in RITEntry
  BY DEF Leads, RITEntry
<1> QED BY <1>1 DEF Leads, R!rit_unlock

(* Room is made, and new partners are drawn, among rows that can be drawn.  *)
LEMMA SwapsLead ==
  ASSUME NEW rit, Leads(rit), NEW c, NEW hrt, NEW r \in R!distribution,
         NEW new \in R!Swaps(rit, c, hrt, r)
  PROVE  Leads(new.rit)
<1>1. ASSUME NEW u \in R!MakingRoom(rit, c, hrt) PROVE Leads(u.rit)
  BY RemoveLeads DEF R!MakingRoom
<1>2. ASSUME NEW x PROVE R!get_rand_row(hrt, x, r) \subseteq R!distribution
  BY DEF R!get_rand_row
<1>3. CASE r \notin DOMAIN rit
  <2>1. new \in R!SwapNew(rit, c, hrt, r)
    BY <1>3 DEF R!Swaps, R!SwappedNow, R!SwappedBefore
  <2>2. PICK u \in R!MakingRoom(rit, c, hrt) : \E dst \in R!get_rand_row(hrt, u.rit, r) :
          new.rit = R!rit_insert_entry(u.rit, r, dst)
    BY <2>1 DEF R!SwapNew
  <2> QED BY <1>1, <1>2, <2>2, InsertLeads
<1>4. CASE r \in DOMAIN rit /\ rit[r].lock
  <2>1. new \in R!SwapBoth(rit, c, hrt, r)
    BY <1>4 DEF R!Swaps, R!SwappedNow
  <2> DEFINE prev == rit[r].dst_row
  <2>2. PICK u \in R!MakingRoom(rit, c, hrt) :
          \E d \in R!get_rand_row(hrt, u.rit, r) \X R!get_rand_row(hrt, u.rit, r) :
            new.rit = R!rit_insert_entry(R!rit_insert_entry(R!rit_remove_entry(u.rit, r, prev), r, d[2]), prev, d[1])
    BY <2>1 DEF R!SwapBoth, R!NewPartners
  <2>3. PICK d1 \in R!distribution, d2 \in R!distribution :
          new.rit = R!rit_insert_entry(R!rit_insert_entry(R!rit_remove_entry(u.rit, r, prev), r, d2), prev, d1)
    BY <1>2, <2>2
  <2>4. prev \in R!distribution
    BY <1>4 DEF Leads, RITEntry
  <2> HIDE DEF prev
  <2> DEFINE old == R!rit_remove_entry(u.rit, r, prev)
  <2>5. Leads(old)
    BY <1>1, RemoveLeads
  <2> HIDE DEF old
  <2> DEFINE first == R!rit_insert_entry(old, r, d2)
  <2>6. Leads(first)
    BY <2>5, InsertLeads
  <2> HIDE DEF first
  <2>7. Leads(R!rit_insert_entry(first, prev, d1))
    BY <2>4, <2>6, InsertLeads
  <2> QED BY <2>3, <2>7 DEF first, old
<1>5. CASE r \in DOMAIN rit /\ ~rit[r].lock
  <2>1. new \in R!SwapAgain(rit, c, hrt, r)
    BY <1>5 DEF R!Swaps, R!SwappedNow, R!SwappedBefore
  <2> DEFINE prev == rit[r].dst_row
             old == R!rit_remove_entry(rit, r, prev)
  <2>2. PICK dst \in R!get_rand_row(hrt, rit, r) : new.rit = R!rit_insert_entry(old, r, dst)
    BY <2>1 DEF R!SwapAgain
  <2>3. Leads(old)
    BY RemoveLeads
  <2> HIDE DEF old
  <2> QED BY <1>2, <2>2, <2>3, InsertLeads
<1> QED BY <1>3, <1>4, <1>5

AllTracked(hrts, spills, a, n) ==
  /\ hrts = [t \in Tables |-> hrts[t]] /\ spills \in [Tables -> Nat]
  /\ a = [t \in Tables |-> a[t]]
  /\ \A t \in Tables : Tracked(hrts[t], spills[t], a[t], n)

AllLead(rits) == rits = [t \in Tables |-> rits[t]] /\ \A t \in Tables : Leads(rits[t])

RRSInv ==
  /\ m_clk \in 0..(m_reset_period_clk - 1)
  /\ AllTracked(m_hot_row_tracker, m_spillover_counter, acts, m_clk + 1)
  /\ AllLead(m_row_indirection_table)

LEMMA TrackedLater ==
  ASSUME NEW f, NEW s, NEW a, NEW n, Tracked(f, s, a, n)
  PROVE  Tracked(f, s, a, n + 1)
<1>1. /\ Cardinality(Cells(f)) \in Nat /\ Cardinality(Cells(f)) + s <= n /\ s \in Nat /\ n \in Nat
  BY FS_CardinalityType DEF Tracked
<1>2. Cardinality(Cells(f)) + s <= n + 1 /\ n + 1 \in Nat
  BY <1>1
<1> QED BY <1>2 DEF Tracked

(* A bank whose tracker is empty.                                           *)
LEMMA EmptyTracked ==
  ASSUME RowHammerAssumption, R!RRSAssumption, NEW n \in Nat
  PROVE  Tracked([r \in {} |-> 0], 0, [r \in R!distribution |-> 0], n)
<1> DEFINE f == [r \in {} |-> 0]
<1>1. DOMAIN f = {} /\ f = [e \in DOMAIN f |-> f[e]]
  OBVIOUS
<1> HIDE DEF f
<1>2. Cells(f) = {}
  BY <1>1 DEF Cells
<1>3. IsFiniteSet({}) /\ Cardinality({}) = 0 /\ m_num_hrt_entries \in Nat
  BY FS_EmptySet DEF R!RRSAssumption
<1>4. Tracked(f, 0, [r \in R!distribution |-> 0], n)
  BY <1>1, <1>2, <1>3 DEF Tracked
<1> QED BY <1>4 DEF f

(* The state with which an update starts: that of the last one, or empty    *)
(* trackers and unlocked entries.                                           *)
LEMMA RRSStart ==
  ASSUME RowHammerAssumption, R!RRSAssumption, RRSInv
  PROVE  /\ R!Now \in 0..(m_reset_period_clk - 1)
         /\ AllTracked(R!HRT, R!Spills, R!Acts, R!Now)
         /\ AllLead(R!RITs)
<1>1. m_reset_period_clk \in Nat \ {0} /\ m_clk \in 0..(m_reset_period_clk - 1)
  BY DEF R!RRSAssumption, RRSInv
<1>2. R!Now = IF m_clk + 1 = m_reset_period_clk THEN 0 ELSE m_clk + 1
  BY <1>1 DEF R!Now
<1>3. CASE R!Now # 0
  <2>1. /\ R!HRT = m_hot_row_tracker /\ R!Spills = m_spillover_counter
        /\ R!Acts = acts /\ R!RITs = m_row_indirection_table
    BY <1>3 DEF R!HRT, R!Spills, R!Acts, R!RITs
  <2>2. R!Now = m_clk + 1 /\ R!Now \in 0..(m_reset_period_clk - 1)
    BY <1>1, <1>2, <1>3
  <2> QED BY <2>1, <2>2 DEF RRSInv
<1>4. CASE R!Now = 0
  <2>1. /\ R!HRT = [t \in Tables |-> [r \in {} |-> 0]] /\ R!Spills = [t \in Tables |-> 0]
        /\ R!Acts = [t \in Tables |-> [r \in R!distribution |-> 0]]
        /\ R!RITs = [t \in Tables |-> R!rit_unlock(m_row_indirection_table[t])]
    BY <1>4, RRSNames DEF R!HRT, R!Spills, R!Acts, R!RITs
  <2>2. AllTracked(R!HRT, R!Spills, R!Acts, R!Now)
    BY <1>4, <2>1, EmptyTracked DEF AllTracked
  <2>3. AllLead(R!RITs)
    <3>1. ASSUME NEW t \in Tables PROVE Leads(R!RITs[t])
      <4>1. Leads(m_row_indirection_table[t])
        BY DEF RRSInv, AllLead
      <4> QED BY <2>1, <4>1, UnlockLeads
    <3> QED BY <2>1, <3>1 DEF AllLead
  <2> QED BY <1>1, <1>4, <2>2, <2>3
<1> QED BY <1>3, <1>4

(* A table of a bank is replaced, the others count on.                      *)
LEMMA OneBankTracked ==
  ASSUME NEW hrts, NEW spills, NEW a, NEW n, AllTracked(hrts, spills, a, n),
         NEW t \in Tables, NEW f, NEW s, NEW at, Tracked(f, s, at, n + 1)
  PROVE  AllTracked([hrts EXCEPT ![t] = f], [spills EXCEPT ![t] = s], [a EXCEPT ![t] = at], n + 1)
<1>1. hrts = [u \in Tables |-> hrts[u]] /\ spills \in [Tables -> Nat] /\ a = [u \in Tables |-> a[u]]
      /\ s \in Nat
  BY DEF AllTracked, Tracked
<1>2. \A u \in Tables : Tracked(hrts[u], spills[u], a[u], n + 1)
  BY TrackedLater DEF AllTracked
<1> DEFINE hrts2 == [hrts EXCEPT ![t] = f]
           spills2 == [spills EXCEPT ![t] = s]
           a2 == [a EXCEPT ![t] = at]
<1>3. /\ hrts2 = [u \in Tables |-> hrts2[u]] /\ spills2 \in [Tables -> Nat] /\ a2 = [u \in Tables |-> a2[u]]
      /\ hrts2[t] = f /\ spills2[t] = s /\ a2[t] = at
      /\ \A u \in Tables : u # t => hrts2[u] = hrts[u] /\ spills2[u] = spills[u] /\ a2[u] = a[u]
  BY <1>1
<1> HIDE DEF hrts2, spills2, a2
<1>4. \A u \in Tables : Tracked(hrts2[u], spills2[u], a2[u], n + 1)
  BY <1>2, <1>3
<1>5. AllTracked(hrts2, spills2, a2, n + 1)
  BY <1>3, <1>4 DEF AllTracked
<1> QED BY <1>5 DEF hrts2, spills2, a2

RRSKept == /\ m_row_indirection_table' = R!RITs /\ parted' = R!Parted
           /\ UNCHANGED <<exited, contents, waiting, astray, twins>>

(* What an activation does to the tables of its bank.                       *)
LEMMA RRSActivated ==
  ASSUME RowHammerAssumption, R!RRSAssumption, RRSInv,
         NEW b \in Banks, NEW r \in R!distribution, R!Activate(b, r),
         NEW t, t = flat_bank_id(b), NEW f, f = R!HRT[t], NEW s, s = R!Spills[t], NEW a, a = R!Acts[t]
  PROVE  /\ t \in Tables /\ m_clk' = R!Now
         /\ s < Threshold /\ Tracked(f, s, a, R!Now) /\ Leads(R!RITs[t])
         /\ \/ /\ R!Counting(f, r, s) = {}
               /\ m_hot_row_tracker' = [R!HRT EXCEPT ![t] = f]
               /\ m_spillover_counter' = [R!Spills EXCEPT ![t] = s + 1]
               /\ acts' = [R!Acts EXCEPT ![t] = [a EXCEPT ![r] = @ + 1]]
               /\ RRSKept
            \/ \E g \in R!Counting(f, r, s) :
                 /\ m_hot_row_tracker' = [R!HRT EXCEPT ![t] = g]
                 /\ m_spillover_counter' = [R!Spills EXCEPT ![t] = s]
                 /\ acts' = [R!Acts EXCEPT ![t] = [a EXCEPT ![r] = Activations(g[r], a[r])]]
                 /\ \/ /\ ~R!Hot(g[r])
                       /\ RRSKept
                    \/ R!Hot(g[r]) /\ R!Swap(t, r, g)
<1>1. t \in Tables /\ R!flat_bank_id(b) = t
  BY TableOfBank, RRSNames
<1>2. /\ AllTracked(R!HRT, R!Spills, R!Acts, R!Now) /\ R!Now \in 0..(m_reset_period_clk - 1)
      /\ AllLead(R!RITs)
  BY RRSStart
<1>3. /\ R!HRT = [u \in Tables |-> R!HRT[u]] /\ R!Spills \in [Tables -> Nat]
      /\ R!Acts = [u \in Tables |-> R!Acts[u]] /\ Tracked(f, s, a, R!Now) /\ Leads(R!RITs[t])
  BY <1>1, <1>2 DEF AllTracked, AllLead
<1>4. s < Threshold
  <2>1. m_reset_period_clk \in Nat
    BY DEF R!RRSAssumption
  <2>2. R!Now <= m_reset_period_clk
    BY <1>2, <2>1
  <2> QED BY <1>3, <2>2, SpillBelowThreshold
<1>5. a \in [R!distribution -> Nat]
  BY <1>3 DEF Tracked
<1>6. /\ [R!HRT EXCEPT ![t] = f] = R!HRT /\ [R!Spills EXCEPT ![t] = s] = R!Spills
      /\ [R!Spills EXCEPT ![t] = s + 1] = [R!Spills EXCEPT ![t] = @ + 1]
      /\ [R!Acts EXCEPT ![t] = [a EXCEPT ![r] = @ + 1]] = [R!Acts EXCEPT ![t][r] = @ + 1]
      /\ [R!Acts EXCEPT ![t] = [a EXCEPT ![r] = a[r] + 1]] = [R!Acts EXCEPT ![t][r] = @ + 1]
      /\ [R!Acts EXCEPT ![t] = [a EXCEPT ![r] = 0]] = [R!Acts EXCEPT ![t][r] = 0]
  BY <1>1, <1>3, <1>5
<1>7. /\ m_clk' = R!Now
      /\ \/ /\ R!Counting(f, r, s) = {}
            /\ m_spillover_counter' = [R!Spills EXCEPT ![t] = @ + 1]
            /\ m_hot_row_tracker' = R!HRT
            /\ R!Count(t, r)
         \/ \E g \in R!Counting(f, r, s) :
              /\ m_spillover_counter' = R!Spills
              /\ m_hot_row_tracker' = [R!HRT EXCEPT ![t] = g]
              /\ \/ ~R!Hot(g[r]) /\ R!Count(t, r)
                 \/ R!Hot(g[r]) /\ R!Swap(t, r, g)
  BY <1>1 DEF R!Activate
<1> DEFINE Spilled == /\ R!Counting(f, r, s) = {}
                      /\ m_hot_row_tracker' = [R!HRT EXCEPT ![t] = f]
                      /\ m_spillover_counter' = [R!Spills EXCEPT ![t] = s + 1]
                      /\ acts' = [R!Acts EXCEPT ![t] = [a EXCEPT ![r] = @ + 1]]
                      /\ RRSKept
           Counted(g) == /\ m_hot_row_tracker' = [R!HRT EXCEPT ![t] = g]
                         /\ m_spillover_counter' = [R!Spills EXCEPT ![t] = s]
                         /\ acts' = [R!Acts EXCEPT ![t] = [a EXCEPT ![r] = Activations(g[r], a[r])]]
                         /\ \/ /\ ~R!Hot(g[r])
                               /\ RRSKept
                            \/ R!Hot(g[r]) /\ R!Swap(t, r, g)
<1>8. ASSUME R!Counting(f, r, s) = {}, m_spillover_counter' = [R!Spills EXCEPT ![t] = @ + 1],
             m_hot_row_tracker' = R!HRT, R!Count(t, r)
      PROVE  Spilled
  BY <1>6, <1>8 DEF R!Count, RRSKept
<1>9. ASSUME NEW g \in R!Counting(f, r, s),
             m_spillover_counter' = R!Spills, m_hot_row_tracker' = [R!HRT EXCEPT ![t] = g],
             (~R!Hot(g[r]) /\ R!Count(t, r)) \/ (R!Hot(g[r]) /\ R!Swap(t, r, g))
      PROVE  Counted(g)
  <2>1. CASE ~R!Hot(g[r]) /\ R!Count(t, r)
    <3>1. Activations(g[r], a[r]) = a[r] + 1
      BY <2>1 DEF Activations
    <3>2. acts' = [R!Acts EXCEPT ![t][r] = @ + 1] /\ RRSKept
      BY <2>1 DEF R!Count, RRSKept
    <3> QED BY <1>6, <1>9, <2>1, <3>1, <3>2
  <2>2. CASE R!Hot(g[r]) /\ R!Swap(t, r, g)
    <3>1. Activations(g[r], a[r]) = 0
      BY <2>2 DEF Activations
    <3>2. acts' = [R!Acts EXCEPT ![t][r] = 0]
      BY <2>2 DEF R!Swap
    <3> QED BY <1>6, <1>9, <2>2, <3>1, <3>2
  <2> QED BY <1>9, <2>1, <2>2
<1>10. Spilled \/ \E g \in R!Counting(f, r, s) : Counted(g)
  <2> HIDE DEF Spilled, Counted
  <2> QED BY <1>7, <1>8, <1>9
<1> QED BY <1>1, <1>3, <1>4, <1>7, <1>10

LEMMA RRSActivateTracked ==
  ASSUME RowHammerAssumption, R!RRSAssumption, RRSInv,
         NEW b \in Banks, NEW r \in R!distribution, R!Activate(b, r)
  PROVE  RRSInv'
<1> DEFINE t == flat_bank_id(b)
           f == R!HRT[t]
           s == R!Spills[t]
           a == R!Acts[t]
<1>1. /\ t \in Tables /\ m_clk' = R!Now
      /\ s < Threshold /\ Tracked(f, s, a, R!Now) /\ Leads(R!RITs[t])
      /\ \/ /\ R!Counting(f, r, s) = {}
            /\ m_hot_row_tracker' = [R!HRT EXCEPT ![t] = f]
            /\ m_spillover_counter' = [R!Spills EXCEPT ![t] = s + 1]
            /\ acts' = [R!Acts EXCEPT ![t] = [a EXCEPT ![r] = @ + 1]]
            /\ RRSKept
         \/ \E g \in R!Counting(f, r, s) :
              /\ m_hot_row_tracker' = [R!HRT EXCEPT ![t] = g]
              /\ m_spillover_counter' = [R!Spills EXCEPT ![t] = s]
              /\ acts' = [R!Acts EXCEPT ![t] = [a EXCEPT ![r] = Activations(g[r], a[r])]]
              /\ \/ /\ ~R!Hot(g[r])
                    /\ RRSKept
                 \/ R!Hot(g[r]) /\ R!Swap(t, r, g)
  BY RRSActivated
<1>2. /\ R!Now \in 0..(m_reset_period_clk - 1) /\ AllTracked(R!HRT, R!Spills, R!Acts, R!Now)
      /\ AllLead(R!RITs)
  BY RRSStart
<1> DEFINE Goal == AllTracked(m_hot_row_tracker', m_spillover_counter', acts', R!Now + 1)
<1>3. ASSUME NEW g, NEW z, NEW at, Tracked(g, z, at, R!Now + 1),
             m_hot_row_tracker' = [R!HRT EXCEPT ![t] = g],
             m_spillover_counter' = [R!Spills EXCEPT ![t] = z], acts' = [R!Acts EXCEPT ![t] = at]
      PROVE  Goal
  <2>1. AllTracked([R!HRT EXCEPT ![t] = g], [R!Spills EXCEPT ![t] = z], [R!Acts EXCEPT ![t] = at], R!Now + 1)
    <3> HIDE DEF t
    <3> QED BY <1>1, <1>2, <1>3, OneBankTracked
  <2> QED BY <1>3, <2>1
<1> HIDE DEF Goal, t, f, s, a
<1>4. Goal
  <2>1. CASE /\ R!Counting(f, r, s) = {}
             /\ m_hot_row_tracker' = [R!HRT EXCEPT ![t] = f]
             /\ m_spillover_counter' = [R!Spills EXCEPT ![t] = s + 1]
             /\ acts' = [R!Acts EXCEPT ![t] = [a EXCEPT ![r] = @ + 1]]
    <3>1. Tracked(f, s + 1, [a EXCEPT ![r] = @ + 1], R!Now + 1)
      BY <1>1, <2>1, SpillTracked
    <3> QED BY <1>3, <2>1, <3>1
  <2>2. ASSUME NEW g \in R!Counting(f, r, s),
               m_hot_row_tracker' = [R!HRT EXCEPT ![t] = g],
               m_spillover_counter' = [R!Spills EXCEPT ![t] = s],
               acts' = [R!Acts EXCEPT ![t] = [a EXCEPT ![r] = Activations(g[r], a[r])]]
        PROVE  Goal
    <3>1. Tracked(g, s, [a EXCEPT ![r] = Activations(g[r], a[r])], R!Now + 1)
      BY <1>1, CountingTracked
    <3> QED BY <1>3, <2>2, <3>1
  <2> QED BY <1>1, <2>1, <2>2
<1>5. AllLead(m_row_indirection_table')
  <2>1. CASE m_row_indirection_table' = R!RITs
    BY <1>2, <2>1
  <2>2. ASSUME NEW g, NEW new \in R!Swaps(R!RITs[t], contents[t], g, r),
               m_row_indirection_table' = [R!RITs EXCEPT ![t] = new.rit]
        PROVE  AllLead(m_row_indirection_table')
    <3>1. Leads(new.rit)
      BY <1>1, SwapsLead
    <3> DEFINE lead == new.rit
    <3>2. Leads(lead)
      BY <3>1
    <3> HIDE DEF lead
    <3>3. R!RITs = [u \in Tables |-> R!RITs[u]] /\ \A u \in Tables : Leads(R!RITs[u])
      BY <1>2 DEF AllLead
    <3>4. AllLead([R!RITs EXCEPT ![t] = lead])
      BY <1>1, <3>2, <3>3 DEF AllLead
    <3> QED BY <2>2, <3>4 DEF lead
  <2>3. ASSUME NEW g, R!Swap(t, r, g)
        PROVE  AllLead(m_row_indirection_table')
    BY <2>1, <2>2, <2>3 DEF R!Swap, R!Swapping, R!Stopping
  <2> QED BY <1>1, <2>1, <2>3 DEF RRSKept
<1> QED BY <1>1, <1>2, <1>4, <1>5 DEF RRSInv, Goal

LEMMA RRSInit ==
  ASSUME RowHammerAssumption, R!RRSAssumption, R!Init
  PROVE  RRSInv
<1>1. m_reset_period_clk \in Nat \ {0}
  BY DEF R!RRSAssumption
<1>2. /\ m_clk = m_reset_period_clk - 1
      /\ m_hot_row_tracker = [t \in Tables |-> [r \in {} |-> 0]]
      /\ m_spillover_counter = [t \in Tables |-> 0]
      /\ m_row_indirection_table = [t \in Tables |-> R!EmptyRIT]
      /\ acts = [t \in Tables |-> [r \in R!distribution |-> 0]]
  BY RRSNames DEF R!Init
<1>3. Tracked([r \in {} |-> 0], 0, [r \in R!distribution |-> 0], m_clk + 1)
  <2>1. m_clk + 1 \in Nat
    BY <1>1, <1>2
  <2> QED BY <2>1, EmptyTracked
<1>4. Leads(R!EmptyRIT)
  BY DEF Leads, R!EmptyRIT
<1> QED BY <1>1, <1>2, <1>3, <1>4 DEF RRSInv, AllTracked, AllLead

LEMMA RRSInvariance ==
  ASSUME RowHammerAssumption, R!RRSAssumption
  PROVE  R!Spec => []RRSInv
<1>1. R!Init => RRSInv
  BY RRSInit
<1>2. RRSInv /\ [R!Next]_R!vars => RRSInv'
  <2> SUFFICES ASSUME RRSInv, [R!Next]_R!vars PROVE RRSInv'
    OBVIOUS
  <2>1. CASE R!Idle
    <3>1. /\ m_clk' = R!Now /\ m_hot_row_tracker' = R!HRT /\ m_spillover_counter' = R!Spills
          /\ acts' = R!Acts /\ m_row_indirection_table' = R!RITs
      BY <2>1 DEF R!Idle
    <3>2. /\ R!Now \in 0..(m_reset_period_clk - 1) /\ AllTracked(R!HRT, R!Spills, R!Acts, R!Now)
          /\ AllLead(R!RITs)
      BY RRSStart
    <3>3. AllTracked(R!HRT, R!Spills, R!Acts, R!Now + 1)
      BY <3>2, TrackedLater DEF AllTracked
    <3> QED BY <3>1, <3>2, <3>3 DEF RRSInv
  <2>2. ASSUME NEW b \in Banks, NEW r \in R!distribution, R!Activate(b, r) PROVE RRSInv'
    BY <2>2, RRSActivateTracked
  <2>3. CASE UNCHANGED R!vars
    BY <2>3 DEF R!vars, R!history, RRSInv
  <2> QED BY <2>1, <2>2, <2>3, RRSNames DEF R!Next
<1> QED BY <1>1, <1>2, PTL DEF R!Spec

(* Neither of RRS's tables grows beyond its size or leads to a row that     *)
(* cannot be drawn.                                                         *)
THEOREM RRSTypes ==
  ASSUME RowHammerAssumption, R!RRSAssumption
  PROVE  R!Spec => []R!TypeOK
<1>1. ASSUME RRSInv PROVE R!TypeOK
  <2>1. ASSUME NEW t \in Tables
        PROVE  /\ DOMAIN m_hot_row_tracker[t] \subseteq R!distribution
               /\ Cardinality(DOMAIN m_hot_row_tracker[t]) <= m_num_hrt_entries
               /\ \A r \in DOMAIN m_row_indirection_table[t] :
                    m_row_indirection_table[t][r].dst_row \in R!distribution
    <3>1. /\ Tracked(m_hot_row_tracker[t], m_spillover_counter[t], acts[t], m_clk + 1)
          /\ Leads(m_row_indirection_table[t])
      BY <1>1 DEF RRSInv, AllTracked, AllLead
    <3> QED BY <3>1 DEF Tracked, Leads, RITEntry
  <2>2. m_clk \in 0..(m_reset_period_clk - 1) /\ m_spillover_counter \in [Tables -> Nat]
    BY <1>1 DEF RRSInv, AllTracked
  <2> QED BY <2>1, <2>2, RRSNames DEF R!TypeOK
<1> QED BY <1>1, RRSInvariance, PTL

(* RRS lets no row be activated Threshold times in a period without being   *)
(* swapped, however it moves in and out of the tracker, and whichever       *)
(* entries are replaced and rows drawn.                                     *)
THEOREM RRSBound ==
  ASSUME RowHammerAssumption, R!RRSAssumption
  PROVE  R!Spec => []R!HammerBound
<1>1. ASSUME RRSInv, NEW t \in Tables, NEW r \in R!distribution PROVE acts[t][r] < Threshold
  <2>1. /\ Tracked(m_hot_row_tracker[t], m_spillover_counter[t], acts[t], m_clk + 1)
        /\ m_clk \in 0..(m_reset_period_clk - 1) /\ m_reset_period_clk \in Nat /\ Threshold \in Nat \ {0}
    BY <1>1 DEF RRSInv, AllTracked, R!RRSAssumption, RowHammerAssumption
  <2> DEFINE f == m_hot_row_tracker[t]
             s == m_spillover_counter[t]
             x == acts[t][r]
  <2>2. s < Threshold /\ s \in Nat
    <3>1. m_clk + 1 <= m_reset_period_clk
      BY <2>1
    <3> QED BY <2>1, <3>1, SpillBelowThreshold DEF Tracked
  <2>3. x \in Nat /\ x <= IF r \in DOMAIN f THEN f[r] % Threshold ELSE s
    BY <2>1 DEF Tracked
  <2>4. ASSUME r \in DOMAIN f PROVE f[r] % Threshold \in Nat /\ f[r] % Threshold < Threshold
    <3>1. f[r] \in Nat
      BY <2>1, <2>4 DEF Tracked
    <3> QED BY <2>1, <3>1, SmallRest
  <2> HIDE DEF f, s
  <2> QED BY <2>1, <2>2, <2>3, <2>4
<1>2. RRSInv => R!HammerBound
  BY <1>1, RRSNames DEF R!HammerBound
<1> QED BY <1>2, RRSInvariance, PTL

-----------------------------------------------------------------------------
(* The indirection of RRS *)

(* The entries of a bank's table come in pairs that lead to each other.     *)
Pairs(rit) ==
  /\ Leads(rit)
  /\ \A x \in DOMAIN rit :
       /\ rit[x].dst_row \in DOMAIN rit /\ rit[x].dst_row # x
       /\ rit[rit[x].dst_row].dst_row = x

Fits(rit, size) ==
  IsFiniteSet(DOMAIN rit) /\ \E k \in Nat : Cardinality(DOMAIN rit) = 2 * k /\ 2 * k <= size

Contents(c) == c = [z \in R!distribution |-> c[z]]

(* The row whose data are found where z leads.                              *)
FoundFor(rit, c, z) == c[R!apply_indirection(rit, z)]

LEMMA LeadsFacts ==
  ASSUME NEW rit, Leads(rit), NEW x \in DOMAIN rit
  PROVE  /\ x \in R!distribution /\ rit[x].dst_row \in R!distribution /\ rit[x].lock \in BOOLEAN
         /\ rit[x] = [dst_row |-> rit[x].dst_row, lock |-> rit[x].lock]
BY DEF Leads, RITEntry

LEMMA PairsFacts ==
  ASSUME NEW rit, Pairs(rit), NEW x \in DOMAIN rit
  PROVE  /\ x \in R!distribution /\ rit[x].dst_row \in R!distribution
         /\ rit[x].dst_row \in DOMAIN rit /\ rit[x].dst_row # x
         /\ rit[rit[x].dst_row].dst_row = x
BY LeadsFacts DEF Pairs

(* A pair is taken out and its rows are swapped back.                       *)
LEMMA RemovePair ==
  ASSUME NEW rit, Pairs(rit), NEW x \in DOMAIN rit, NEW y, y = rit[x].dst_row,
         NEW new, new = R!rit_remove_entry(rit, x, y)
  PROVE  /\ Pairs(new) /\ DOMAIN new = DOMAIN rit \ {x, y}
         /\ \A z \in DOMAIN new : new[z] = rit[z]
         /\ \A size \in Int : Fits(rit, size) => Fits(new, size - 2)
<1>1. /\ DOMAIN new = DOMAIN rit \ {x, y} /\ new = [z \in DOMAIN new |-> new[z]]
      /\ \A z \in DOMAIN new : new[z] = rit[z]
  BY DEF R!rit_remove_entry, R!Restrict
<1>2. /\ y \in DOMAIN rit /\ y # x /\ rit[y].dst_row = x /\ Leads(rit)
      /\ \A z \in DOMAIN rit : /\ rit[z].dst_row \in DOMAIN rit /\ rit[z].dst_row # z
                               /\ rit[rit[z].dst_row].dst_row = z
  BY DEF Pairs
<1>3. Leads(new)
  BY <1>2, RemoveLeads
<1>4. ASSUME NEW z \in DOMAIN new
      PROVE  new[z].dst_row \in DOMAIN new /\ new[z].dst_row # z /\ new[new[z].dst_row].dst_row = z
  <2>1. z \in DOMAIN rit /\ z # x /\ z # y /\ new[z] = rit[z]
    BY <1>1
  <2>2. rit[z].dst_row # x /\ rit[z].dst_row # y
    BY <1>2, <2>1
  <2>3. rit[z].dst_row \in DOMAIN new
    BY <1>1, <1>2, <2>1, <2>2
  <2> QED BY <1>1, <1>2, <2>1, <2>3
<1>5. ASSUME NEW size \in Int, Fits(rit, size) PROVE Fits(new, size - 2)
  <2>1. PICK k \in Nat : IsFiniteSet(DOMAIN rit) /\ Cardinality(DOMAIN rit) = 2 * k /\ 2 * k <= size
    BY <1>5 DEF Fits
  <2>2. IsFiniteSet(DOMAIN rit \ {x}) /\ Cardinality(DOMAIN rit \ {x}) = 2 * k - 1
    BY <2>1, FS_RemoveElement
  <2>3. y \in DOMAIN rit \ {x} /\ (DOMAIN rit \ {x}) \ {y} = DOMAIN new
    BY <1>1, <1>2
  <2>4. IsFiniteSet(DOMAIN new) /\ Cardinality(DOMAIN new) = (2 * k - 1) - 1
    <3> DEFINE X == DOMAIN rit \ {x}
    <3>1. IsFiniteSet(X) /\ Cardinality(X) = 2 * k - 1 /\ y \in X /\ X \ {y} = DOMAIN new
      BY <2>2, <2>3
    <3> HIDE DEF X
    <3> QED BY <3>1, FS_RemoveElement
  <2>5. Cardinality(DOMAIN new) \in Nat
    BY <2>4, FS_CardinalityType
  <2>6. k - 1 \in Nat /\ Cardinality(DOMAIN new) = 2 * (k - 1) /\ 2 * (k - 1) <= size - 2
    BY <2>1, <2>4, <2>5
  <2> QED BY <2>4, <2>6 DEF Fits
<1> QED BY <1>1, <1>3, <1>4, <1>5 DEF Pairs

LEMMA UnswapFinds ==
  ASSUME NEW rit, Pairs(rit), NEW x \in DOMAIN rit, NEW y, y = rit[x].dst_row,
         NEW c, Contents(c), NEW new, new = R!rit_remove_entry(rit, x, y),
         NEW d, d = R!issue_swap(c, x, y)
  PROVE  /\ Contents(d)
         /\ \A z \in R!distribution : FoundFor(new, d, z) = FoundFor(rit, c, z)
<1>1. /\ x \in R!distribution /\ y \in R!distribution /\ y \in DOMAIN rit /\ y # x /\ rit[y].dst_row = x
  BY PairsFacts
<1>2. d = [z \in R!distribution |-> IF z = x THEN c[y] ELSE IF z = y THEN c[x] ELSE c[z]]
  BY <1>1 DEF R!issue_swap, Contents
<1>3. Contents(d)
  BY <1>2 DEF Contents
<1>4. DOMAIN new = DOMAIN rit \ {x, y} /\ \A z \in DOMAIN new : new[z] = rit[z]
  BY RemovePair
<1>5. ASSUME NEW z \in R!distribution PROVE FoundFor(new, d, z) = FoundFor(rit, c, z)
  <2>1. CASE z = x \/ z = y
    BY <1>1, <1>2, <1>4, <2>1 DEF FoundFor, R!apply_indirection
  <2>2. CASE z # x /\ z # y /\ z \in DOMAIN rit
    <3>1. rit[z].dst_row # x /\ rit[z].dst_row # y /\ rit[z].dst_row \in R!distribution
      BY <1>1, <2>2, PairsFacts
    <3> QED BY <1>2, <1>4, <2>2, <3>1 DEF FoundFor, R!apply_indirection
  <2>3. CASE z # x /\ z # y /\ z \notin DOMAIN rit
    BY <1>2, <1>4, <2>3 DEF FoundFor, R!apply_indirection
  <2> QED BY <2>1, <2>2, <2>3
<1> QED BY <1>3, <1>5

(* Two rows of no pair become one and are swapped.                          *)
Joined(new, rit, x, y) ==
  /\ Pairs(new) /\ DOMAIN new = DOMAIN rit \cup {x, y}
  /\ new[x].dst_row = y /\ new[y].dst_row = x
  /\ \A z \in DOMAIN rit : new[z] = rit[z]
  /\ \A size \in Int : Fits(rit, size - 2) => Fits(new, size)

LEMMA InsertPair ==
  ASSUME NEW rit, Pairs(rit), NEW x \in R!distribution, NEW y \in R!distribution,
         x # y, x \notin DOMAIN rit, y \notin DOMAIN rit
  PROVE  Joined(R!rit_insert_entry(rit, x, y), rit, x, y)
<1> DEFINE new == R!rit_insert_entry(rit, x, y)
<1>1. /\ DOMAIN new = DOMAIN rit \cup {x, y} /\ new = [z \in DOMAIN new |-> new[z]]
      /\ new[x].dst_row = y /\ new[y].dst_row = x
      /\ \A z \in DOMAIN rit : new[z] = rit[z]
  BY DEF R!rit_insert_entry
<1> HIDE DEF new
<1>2. /\ Leads(rit)
      /\ \A z \in DOMAIN rit : /\ rit[z].dst_row \in DOMAIN rit /\ rit[z].dst_row # z
                               /\ rit[rit[z].dst_row].dst_row = z
  BY DEF Pairs
<1>3. Leads(new)
  BY <1>2, InsertLeads DEF new
<1>4. ASSUME NEW z \in DOMAIN new
      PROVE  new[z].dst_row \in DOMAIN new /\ new[z].dst_row # z /\ new[new[z].dst_row].dst_row = z
  <2>1. CASE z \in DOMAIN rit
    <3>1. new[z] = rit[z] /\ rit[z].dst_row \in DOMAIN rit
      BY <1>1, <1>2, <2>1
    <3>2. new[rit[z].dst_row] = rit[rit[z].dst_row] /\ rit[z].dst_row \in DOMAIN new
      BY <1>1, <3>1
    <3> QED BY <1>2, <2>1, <3>1, <3>2
  <2>2. CASE z = x \/ z = y
    BY <1>1, <2>2
  <2> QED BY <1>1, <2>1, <2>2
<1>5. ASSUME NEW size \in Int, Fits(rit, size - 2) PROVE Fits(new, size)
  <2>1. PICK k \in Nat : IsFiniteSet(DOMAIN rit) /\ Cardinality(DOMAIN rit) = 2 * k /\ 2 * k <= size - 2
    BY <1>5 DEF Fits
  <2>2. IsFiniteSet(DOMAIN rit \cup {x}) /\ Cardinality(DOMAIN rit \cup {x}) = 2 * k + 1
    BY <2>1, FS_AddElement
  <2>3. y \notin DOMAIN rit \cup {x} /\ (DOMAIN rit \cup {x}) \cup {y} = DOMAIN new
    BY <1>1
  <2>4. IsFiniteSet(DOMAIN new) /\ Cardinality(DOMAIN new) = (2 * k + 1) + 1
    BY <2>2, <2>3, FS_AddElement
  <2>5. k + 1 \in Nat /\ Cardinality(DOMAIN new) = 2 * (k + 1) /\ 2 * (k + 1) <= size
    BY <2>1, <2>4
  <2> QED BY <2>4, <2>5 DEF Fits
<1>6. Pairs(new)
  BY <1>3, <1>4 DEF Pairs
<1>7. Joined(new, rit, x, y)
  BY <1>1, <1>5, <1>6 DEF Joined
<1> QED BY <1>7 DEF new

LEMMA SwapFinds ==
  ASSUME NEW rit, Pairs(rit), NEW x \in R!distribution, NEW y \in R!distribution,
         x # y, x \notin DOMAIN rit, y \notin DOMAIN rit,
         NEW c, Contents(c), NEW new, new = R!rit_insert_entry(rit, x, y),
         NEW d, d = R!issue_swap(c, x, y)
  PROVE  /\ Contents(d)
         /\ \A z \in R!distribution : FoundFor(new, d, z) = FoundFor(rit, c, z)
<1>1. d = [z \in R!distribution |-> IF z = x THEN c[y] ELSE IF z = y THEN c[x] ELSE c[z]]
  BY DEF R!issue_swap, Contents
<1>2. Contents(d)
  BY <1>1 DEF Contents
<1>3. /\ DOMAIN new = DOMAIN rit \cup {x, y} /\ new[x].dst_row = y /\ new[y].dst_row = x
      /\ \A z \in DOMAIN rit : new[z] = rit[z]
  BY DEF R!rit_insert_entry
<1>4. ASSUME NEW z \in R!distribution PROVE FoundFor(new, d, z) = FoundFor(rit, c, z)
  <2>1. CASE z = x \/ z = y
    BY <1>1, <1>3, <2>1 DEF FoundFor, R!apply_indirection
  <2>2. CASE z \in DOMAIN rit
    <3>1. rit[z].dst_row \in DOMAIN rit /\ rit[z].dst_row \in R!distribution
      BY <2>2, PairsFacts
    <3> QED BY <1>1, <1>3, <2>2, <3>1 DEF FoundFor, R!apply_indirection
  <2>3. CASE z # x /\ z # y /\ z \notin DOMAIN rit
    BY <1>1, <1>3, <2>3 DEF FoundFor, R!apply_indirection
  <2> QED BY <2>1, <2>2, <2>3
<1> QED BY <1>2, <1>4

LEMMA UnlockPairs ==
  ASSUME NEW rit, Pairs(rit), NEW new, new = R!rit_unlock(rit)
  PROVE  /\ Pairs(new) /\ \A x \in DOMAIN new : ~new[x].lock
         /\ \A z \in R!distribution : R!apply_indirection(new, z) = R!apply_indirection(rit, z)
         /\ \A size \in Int : Fits(rit, size) => Fits(new, size)
<1>1. DOMAIN new = DOMAIN rit
  BY DEF R!rit_unlock
<1>2. ASSUME NEW x \in DOMAIN rit PROVE new[x].dst_row = rit[x].dst_row /\ new[x].lock = FALSE
  <2>1. new[x] = [rit[x] EXCEPT !.lock = FALSE]
    BY DEF R!rit_unlock
  <2>2. rit[x] = [dst_row |-> rit[x].dst_row, lock |-> rit[x].lock]
    BY LeadsFacts DEF Pairs
  <2> QED BY <2>1, <2>2
<1>3. Leads(new)
  BY UnlockLeads DEF Pairs
<1>4. \A z \in R!distribution : R!apply_indirection(new, z) = R!apply_indirection(rit, z)
  BY <1>1, <1>2 DEF R!apply_indirection
<1>5. Pairs(new)
  <2>1. \A x \in DOMAIN rit :
          /\ rit[x].dst_row \in DOMAIN rit /\ rit[x].dst_row # x
          /\ rit[rit[x].dst_row].dst_row = x
    BY DEF Pairs
  <2>2. ASSUME NEW x \in DOMAIN new
        PROVE  /\ new[x].dst_row \in DOMAIN new /\ new[x].dst_row # x
               /\ new[new[x].dst_row].dst_row = x
    <3>1. x \in DOMAIN rit /\ rit[x].dst_row \in DOMAIN rit
      BY <1>1, <2>1
    <3>2. new[x].dst_row = rit[x].dst_row /\ new[rit[x].dst_row].dst_row = rit[rit[x].dst_row].dst_row
      BY <1>2, <3>1
    <3> QED BY <1>1, <2>1, <3>1, <3>2
  <2> QED BY <1>3, <2>2 DEF Pairs
<1> QED BY <1>1, <1>2, <1>4, <1>5 DEF Fits

(* If each pair has a row in X, there are no more pairs than X has rows.    *)
LEMMA PairsCovered ==
  ASSUME NEW rit, Pairs(rit), NEW X, IsFiniteSet(X),
         \A x \in DOMAIN rit : x \in X \/ rit[x].dst_row \in X
  PROVE  IsFiniteSet(DOMAIN rit) /\ Cardinality(DOMAIN rit) <= 2 * Cardinality(X)
<1> DEFINE B == X \cap DOMAIN rit
           h == [x \in B |-> rit[x].dst_row]
           Y == {h[x] : x \in B}
<1>1. IsFiniteSet(B) /\ Cardinality(B) <= Cardinality(X)
  BY FS_Subset
<1>2. IsFiniteSet(Y) /\ Cardinality(Y) <= Cardinality(B)
  <2>1. h \in Surjection(B, Y)
    BY DEF Surjection
  <2> HIDE DEF h, Y, B
  <2> QED BY <1>1, <2>1, FS_Surjection
<1>3. DOMAIN rit \subseteq X \cup Y
  <2> SUFFICES ASSUME NEW x \in DOMAIN rit PROVE x \in X \/ \E z \in B : h[z] = x
    OBVIOUS
  <2>1. rit[x].dst_row \in DOMAIN rit /\ rit[rit[x].dst_row].dst_row = x
    BY PairsFacts
  <2>2. CASE rit[x].dst_row \in X
    <3>1. rit[x].dst_row \in B
      BY <2>1, <2>2
    <3>2. h[rit[x].dst_row] = x
      BY <2>1, <3>1
    <3> QED BY <3>1, <3>2
  <2> QED BY <2>2
<1>4. /\ IsFiniteSet(X \cup Y) /\ IsFiniteSet(X \cap Y)
      /\ Cardinality(X \cup Y) = Cardinality(X) + Cardinality(Y) - Cardinality(X \cap Y)
  <2> HIDE DEF Y
  <2> QED BY <1>2, FS_Union, FS_Intersection
<1>5. IsFiniteSet(DOMAIN rit) /\ Cardinality(DOMAIN rit) <= Cardinality(X \cup Y)
  <2> HIDE DEF Y
  <2> QED BY <1>3, <1>4, FS_Subset
<1>6. /\ Cardinality(X) \in Nat /\ Cardinality(Y) \in Nat /\ Cardinality(B) \in Nat
      /\ Cardinality(X \cap Y) \in Nat /\ Cardinality(X \cup Y) \in Nat
      /\ Cardinality(DOMAIN rit) \in Nat
  BY <1>1, <1>2, <1>4, <1>5, FS_CardinalityType
<1> HIDE DEF Y, B
<1> QED BY <1>1, <1>2, <1>4, <1>5, <1>6

(* Swaps and unswaps need whole pairs.                                      *)
Whole == m_num_rit_entries \in Nat /\ \E k \in Nat : m_num_rit_entries = 2 * k

(* Room is made by taking a pair out, if there is none.                     *)
LEMMA RoomSound ==
  ASSUME NEW rit, Pairs(rit), NEW c, Contents(c), NEW hrt, NEW u \in R!MakingRoom(rit, c, hrt)
  PROVE  /\ Pairs(u.rit) /\ Contents(u.c) /\ DOMAIN u.rit \subseteq DOMAIN rit
         /\ \A z \in DOMAIN u.rit : u.rit[z] = rit[z]
         /\ \A z \in DOMAIN rit : z \in DOMAIN hrt => z \in DOMAIN u.rit
         /\ \A z \in R!distribution : FoundFor(u.rit, u.c, z) = FoundFor(rit, c, z)
         /\ Whole /\ Fits(rit, m_num_rit_entries) => Fits(u.rit, m_num_rit_entries - 2)
<1>1. CASE ~R!is_rit_full(rit)
  <2>1. u.rit = rit /\ u.c = c
    BY <1>1 DEF R!MakingRoom
  <2>2. ASSUME Whole, Fits(rit, m_num_rit_entries) PROVE Fits(rit, m_num_rit_entries - 2)
    <3>1. PICK k \in Nat : m_num_rit_entries = 2 * k
      BY <2>2 DEF Whole
    <3>2. PICK j \in Nat : IsFiniteSet(DOMAIN rit) /\ Cardinality(DOMAIN rit) = 2 * j
      BY <2>2 DEF Fits
    <3>3. ~(2 * j >= 2 * k)
      BY <1>1, <3>1, <3>2, RRSNames DEF R!is_rit_full
    <3>4. 2 * j <= m_num_rit_entries - 2
      BY <3>1, <3>3
    <3> QED BY <3>2, <3>4 DEF Fits
  <2> QED BY <2>1, <2>2
<1>2. CASE R!is_rit_full(rit)
  <2>1. PICK pair \in R!get_unswap_pair(rit, DOMAIN hrt) :
          u.rit = R!rit_remove_entry(rit, pair[1], pair[2]) /\ u.c = R!issue_swap(c, pair[1], pair[2])
    BY <1>2 DEF R!MakingRoom
  <2>2. PICK x \in DOMAIN rit : pair = <<x, rit[x].dst_row>>
    BY <2>1 DEF R!get_unswap_pair
  <2> DEFINE y == rit[x].dst_row
  <2>3. /\ u.rit = R!rit_remove_entry(rit, x, y) /\ u.c = R!issue_swap(c, x, y)
        /\ x \notin DOMAIN hrt /\ y \notin DOMAIN hrt
    BY <2>1, <2>2 DEF R!get_unswap_pair
  <2>4. y = rit[x].dst_row
    OBVIOUS
  <2> HIDE DEF y
  <2>5. /\ Pairs(u.rit) /\ DOMAIN u.rit = DOMAIN rit \ {x, y}
        /\ \A z \in DOMAIN u.rit : u.rit[z] = rit[z]
        /\ \A size \in Int : Fits(rit, size) => Fits(u.rit, size - 2)
    BY <2>3, <2>4, RemovePair
  <2>6. Contents(u.c) /\ \A z \in R!distribution : FoundFor(u.rit, u.c, z) = FoundFor(rit, c, z)
    BY <2>3, <2>4, UnswapFinds
  <2>7. Whole => m_num_rit_entries \in Int
    BY DEF Whole
  <2> QED BY <2>3, <2>5, <2>6, <2>7
<1> QED BY <1>1, <1>2

(* Both rows of a pair get new partners.  Their data are found, and so are  *)
(* all but those of the rows drawn.                                         *)
LEMMA NewPartnersSound ==
  ASSUME NEW u, Pairs(u.rit), Contents(u.c), NEW x \in DOMAIN u.rit, NEW y, y = u.rit[x].dst_row,
         NEW d0 \in R!distribution, NEW d1 \in R!distribution, d0 # d1,
         d0 \notin DOMAIN u.rit, d1 \notin DOMAIN u.rit,
         NEW rit, NEW c, rit = R!NewPartners(u, x, y, d0, d1).rit, c = R!NewPartners(u, x, y, d0, d1).c
  PROVE  /\ Pairs(rit) /\ Contents(c)
         /\ \A size \in Int : Fits(u.rit, size - 2) => Fits(rit, size)
         /\ \A z \in R!distribution \ {d0, d1} : FoundFor(rit, c, z) = FoundFor(u.rit, u.c, z)
         /\ \A z \in DOMAIN rit : \/ z \in {x, y} \/ rit[z].dst_row \in {x, y}
                                  \/ z \in DOMAIN u.rit /\ rit[z] = u.rit[z]
<1> DEFINE old == R!rit_remove_entry(u.rit, x, y)
           one == R!rit_insert_entry(old, x, d1)
           back == R!issue_swap(u.c, x, d0)
<1>1. rit = R!rit_insert_entry(one, y, d0) /\ c = R!issue_swap(back, y, d1)
  BY DEF R!NewPartners
<1>2. /\ x \in R!distribution /\ y \in R!distribution /\ y \in DOMAIN u.rit /\ y # x
      /\ u.rit[y].dst_row = x
  BY PairsFacts
<1>3. /\ Pairs(old) /\ DOMAIN old = DOMAIN u.rit \ {x, y} /\ \A z \in DOMAIN old : old[z] = u.rit[z]
      /\ \A size \in Int : Fits(u.rit, size) => Fits(old, size - 2)
  <2> DEFINE before == u.rit
  <2>1. Pairs(before) /\ x \in DOMAIN before /\ y = before[x].dst_row
        /\ old = R!rit_remove_entry(before, x, y)
    OBVIOUS
  <2> HIDE DEF before, old
  <2>2. /\ Pairs(old) /\ DOMAIN old = DOMAIN before \ {x, y} /\ \A z \in DOMAIN old : old[z] = before[z]
        /\ \A size \in Int : Fits(before, size) => Fits(old, size - 2)
    BY <2>1, RemovePair
  <2> QED BY <2>2 DEF before
<1> HIDE DEF old
<1>4. /\ Pairs(one) /\ DOMAIN one = DOMAIN old \cup {x, d1}
      /\ one[x].dst_row = d1 /\ one[d1].dst_row = x /\ \A z \in DOMAIN old : one[z] = old[z]
      /\ \A size \in Int : Fits(old, size - 2) => Fits(one, size)
  <2>1. x \notin DOMAIN old /\ d1 \notin DOMAIN old /\ x # d1 /\ one = R!rit_insert_entry(old, x, d1)
    BY <1>3
  <2>2. Joined(R!rit_insert_entry(old, x, d1), old, x, d1)
    BY <1>2, <1>3, <2>1, InsertPair
  <2> HIDE DEF one
  <2> QED BY <2>1, <2>2 DEF Joined
<1> HIDE DEF one
<1>5. y \notin DOMAIN one /\ d0 \notin DOMAIN one /\ y # d0
  BY <1>2, <1>3, <1>4
<1>6. /\ Pairs(rit) /\ DOMAIN rit = DOMAIN one \cup {y, d0}
      /\ rit[y].dst_row = d0 /\ rit[d0].dst_row = y /\ \A z \in DOMAIN one : rit[z] = one[z]
      /\ \A size \in Int : Fits(one, size - 2) => Fits(rit, size)
  <2>1. Joined(R!rit_insert_entry(one, y, d0), one, y, d0)
    BY <1>2, <1>4, <1>5, InsertPair
  <2> QED BY <1>1, <2>1 DEF Joined
<1>7. /\ DOMAIN rit = DOMAIN u.rit \cup {d0, d1}
      /\ rit[x].dst_row = d1 /\ rit[d1].dst_row = x /\ rit[y].dst_row = d0 /\ rit[d0].dst_row = y
      /\ \A z \in DOMAIN u.rit : z # x /\ z # y => rit[z] = u.rit[z]
  BY <1>2, <1>3, <1>4, <1>6
<1>8. ASSUME NEW size \in Int, Fits(u.rit, size - 2) PROVE Fits(rit, size)
  <2>1. size - 2 \in Int /\ (size - 2) - 2 \in Int
    OBVIOUS
  <2>2. Fits(old, (size - 2) - 2)
    BY <1>3, <1>8, <2>1
  <2>3. Fits(one, size - 2)
    BY <1>4, <2>1, <2>2
  <2> QED BY <1>6, <2>3
<1>9. c = [z \in R!distribution |->
            IF z = x THEN u.c[d0] ELSE IF z = d0 THEN u.c[x]
            ELSE IF z = y THEN u.c[d1] ELSE IF z = d1 THEN u.c[y] ELSE u.c[z]]
  <2>1. back = [z \in R!distribution |-> IF z = x THEN u.c[d0] ELSE IF z = d0 THEN u.c[x] ELSE u.c[z]]
    BY <1>2 DEF R!issue_swap, Contents
  <2>2. back[y] = u.c[y] /\ back[d1] = u.c[d1]
    BY <1>2, <2>1
  <2> HIDE DEF back
  <2>3. c = [back EXCEPT ![y] = back[d1], ![d1] = back[y]]
    BY <1>1 DEF R!issue_swap
  <2> QED BY <1>2, <2>1, <2>2, <2>3
<1>10. Contents(c)
  BY <1>9 DEF Contents
<1>11. ASSUME NEW z \in R!distribution \ {d0, d1} PROVE FoundFor(rit, c, z) = FoundFor(u.rit, u.c, z)
  <2>1. CASE z = x
    BY <1>2, <1>7, <1>9, <2>1 DEF FoundFor, R!apply_indirection
  <2>2. CASE z = y
    <3>1. FoundFor(rit, c, z) = c[d0] /\ FoundFor(u.rit, u.c, z) = u.c[x]
      BY <1>2, <1>7, <2>2 DEF FoundFor, R!apply_indirection
    <3>2. d0 # x
      OBVIOUS
    <3> QED BY <1>9, <3>1, <3>2
  <2>3. CASE z # x /\ z # y /\ z \in DOMAIN u.rit
    <3> DEFINE w == u.rit[z].dst_row
    <3>1. w \in R!distribution /\ w \in DOMAIN u.rit /\ w # x /\ w # y
      BY <1>2, <2>3, PairsFacts
    <3>2. rit[z].dst_row = w /\ z \in DOMAIN rit
      BY <1>7, <2>3
    <3> HIDE DEF w
    <3>3. c[w] = u.c[w]
      BY <1>9, <3>1
    <3> QED BY <2>3, <3>2, <3>3 DEF FoundFor, R!apply_indirection, w
  <2>4. CASE z # x /\ z # y /\ z \notin DOMAIN u.rit
    BY <1>7, <1>9, <2>4 DEF FoundFor, R!apply_indirection
  <2> QED BY <2>1, <2>2, <2>3, <2>4
<1>12. ASSUME NEW z \in DOMAIN rit
       PROVE  z \in {x, y} \/ rit[z].dst_row \in {x, y} \/ (z \in DOMAIN u.rit /\ rit[z] = u.rit[z])
  BY <1>7
<1> QED BY <1>6, <1>8, <1>10, <1>11, <1>12

(* The row that a hot one parts from, if it was swapped in this period.     *)
Parting(rit, r) == IF R!SwappedNow(rit, r) THEN {rit[r].dst_row} ELSE {}

(* A swap of a hot row, twins aside: pairs stay pairs, the table has room   *)
(* for them, data are found but for those of the rows drawn for a second    *)
(* swap, and what is new is the pairs of the hot row and of its old partner. *)
LEMMA SwapsSound ==
  ASSUME NEW rit, Pairs(rit), NEW c, Contents(c), NEW hrt, NEW r \in R!distribution, r \in DOMAIN hrt,
         NEW new \in R!Swaps(rit, c, hrt, r), Cardinality(new.drawn) # 1
  PROVE  /\ Pairs(new.rit) /\ Contents(new.c)
         /\ Whole /\ Fits(rit, m_num_rit_entries) => Fits(new.rit, m_num_rit_entries)
         /\ \A z \in R!distribution \ new.drawn : FoundFor(new.rit, new.c, z) = FoundFor(rit, c, z)
         /\ \A z \in DOMAIN new.rit :
              \/ \E e \in {z, new.rit[z].dst_row} : e = r \/ e \in Parting(rit, r)
              \/ z \in DOMAIN rit /\ new.rit[z] = rit[z]
<1>1. Whole => m_num_rit_entries \in Int
  BY DEF Whole
<1>2. ASSUME NEW x, NEW y \in R!get_rand_row(hrt, x, r)
      PROVE  y \in R!distribution /\ y \notin DOMAIN x /\ y # r
  BY DEF R!get_rand_row
<1>3. CASE r \notin DOMAIN rit
  <2>1. new \in R!SwapNew(rit, c, hrt, r)
    BY <1>3 DEF R!Swaps, R!SwappedNow, R!SwappedBefore
  <2>2. PICK u \in R!MakingRoom(rit, c, hrt) : \E y \in R!get_rand_row(hrt, u.rit, r) :
          new.rit = R!rit_insert_entry(u.rit, r, y) /\ new.c = R!issue_swap(u.c, r, y)
    BY <2>1 DEF R!SwapNew
  <2> PICK y \in R!get_rand_row(hrt, u.rit, r) :
          new.rit = R!rit_insert_entry(u.rit, r, y) /\ new.c = R!issue_swap(u.c, r, y)
    BY <2>2
  <2> DEFINE rit1 == u.rit
             c1 == u.c
             rit2 == new.rit
             c2 == new.c
  <2>3. /\ Pairs(rit1) /\ Contents(c1) /\ DOMAIN rit1 \subseteq DOMAIN rit
        /\ \A z \in DOMAIN rit1 : rit1[z] = rit[z]
        /\ \A z \in R!distribution : FoundFor(rit1, c1, z) = FoundFor(rit, c, z)
        /\ Whole /\ Fits(rit, m_num_rit_entries) => Fits(rit1, m_num_rit_entries - 2)
    BY RoomSound
  <2>4. /\ y \in R!distribution /\ y \notin DOMAIN rit1 /\ y # r /\ r \notin DOMAIN rit1
        /\ rit2 = R!rit_insert_entry(rit1, r, y) /\ c2 = R!issue_swap(c1, r, y)
    BY <1>2, <1>3, <2>2, <2>3
  <2> HIDE DEF rit1, c1, rit2, c2
  <2>5. Joined(R!rit_insert_entry(rit1, r, y), rit1, r, y)
    BY <2>3, <2>4, InsertPair
  <2>6. /\ Pairs(rit2) /\ DOMAIN rit2 = DOMAIN rit1 \cup {r, y}
        /\ rit2[r].dst_row = y /\ rit2[y].dst_row = r
        /\ \A z \in DOMAIN rit1 : rit2[z] = rit1[z]
        /\ \A size \in Int : Fits(rit1, size - 2) => Fits(rit2, size)
    BY <2>4, <2>5 DEF Joined
  <2>7. Contents(c2) /\ \A z \in R!distribution : FoundFor(rit2, c2, z) = FoundFor(rit1, c1, z)
    BY <2>3, <2>4, SwapFinds
  <2>8. ASSUME NEW z \in DOMAIN rit2
        PROVE  (\E e \in {z, rit2[z].dst_row} : e = r) \/ (z \in DOMAIN rit /\ rit2[z] = rit[z])
    BY <2>3, <2>6
  <2>9. /\ Pairs(rit2) /\ Contents(c2)
        /\ Whole /\ Fits(rit, m_num_rit_entries) => Fits(rit2, m_num_rit_entries)
        /\ \A z \in R!distribution : FoundFor(rit2, c2, z) = FoundFor(rit, c, z)
    BY <1>1, <2>3, <2>6, <2>7
  <2> QED BY <2>8, <2>9 DEF rit2, c2
<1>4. CASE r \in DOMAIN rit /\ ~rit[r].lock
  <2>1. new \in R!SwapAgain(rit, c, hrt, r)
    BY <1>4 DEF R!Swaps, R!SwappedNow, R!SwappedBefore
  <2> DEFINE prev == rit[r].dst_row
             rit1 == R!rit_remove_entry(rit, r, prev)
             c1 == R!issue_swap(c, r, prev)
             rit2 == new.rit
             c2 == new.c
  <2>2. PICK y \in R!get_rand_row(hrt, rit, r) : rit2 = R!rit_insert_entry(rit1, r, y) /\ c2 = R!issue_swap(c1, r, y)
    BY <2>1 DEF R!SwapAgain
  <2>3. prev = rit[r].dst_row /\ rit1 = R!rit_remove_entry(rit, r, prev) /\ c1 = R!issue_swap(c, r, prev)
    OBVIOUS
  <2> HIDE DEF prev, rit1, c1, rit2, c2
  <2>4. /\ Pairs(rit1) /\ DOMAIN rit1 = DOMAIN rit \ {r, prev} /\ \A z \in DOMAIN rit1 : rit1[z] = rit[z]
        /\ \A size \in Int : Fits(rit, size) => Fits(rit1, size - 2)
    BY <1>4, <2>3, RemovePair
  <2>5. Contents(c1) /\ \A z \in R!distribution : FoundFor(rit1, c1, z) = FoundFor(rit, c, z)
    BY <1>4, <2>3, UnswapFinds
  <2>6. y \in R!distribution /\ y \notin DOMAIN rit1 /\ y # r /\ r \notin DOMAIN rit1
    BY <1>2, <2>4
  <2>7. Joined(R!rit_insert_entry(rit1, r, y), rit1, r, y)
    BY <2>4, <2>6, InsertPair
  <2>8. /\ Pairs(rit2) /\ DOMAIN rit2 = DOMAIN rit1 \cup {r, y}
        /\ rit2[r].dst_row = y /\ rit2[y].dst_row = r
        /\ \A z \in DOMAIN rit1 : rit2[z] = rit1[z]
        /\ \A size \in Int : Fits(rit1, size - 2) => Fits(rit2, size)
    BY <2>2, <2>7 DEF Joined
  <2>9. Contents(c2) /\ \A z \in R!distribution : FoundFor(rit2, c2, z) = FoundFor(rit1, c1, z)
    BY <2>2, <2>4, <2>5, <2>6, SwapFinds
  <2>10. ASSUME NEW z \in DOMAIN rit2
         PROVE  (\E e \in {z, rit2[z].dst_row} : e = r) \/ (z \in DOMAIN rit /\ rit2[z] = rit[z])
    BY <2>4, <2>8
  <2>11. /\ Pairs(rit2) /\ Contents(c2)
         /\ Whole /\ Fits(rit, m_num_rit_entries) => Fits(rit2, m_num_rit_entries)
         /\ \A z \in R!distribution : FoundFor(rit2, c2, z) = FoundFor(rit, c, z)
    BY <1>1, <2>4, <2>5, <2>8, <2>9
  <2> QED BY <2>10, <2>11 DEF rit2, c2
<1>5. CASE r \in DOMAIN rit /\ rit[r].lock
  <2>1. new \in R!SwapBoth(rit, c, hrt, r)
    BY <1>5 DEF R!Swaps, R!SwappedNow
  <2>2. PICK u \in R!MakingRoom(rit, c, hrt) :
          \E d \in R!get_rand_row(hrt, u.rit, r) \X R!get_rand_row(hrt, u.rit, r) :
            new = R!NewPartners(u, r, rit[r].dst_row, d[1], d[2])
    BY <2>1 DEF R!SwapBoth
  <2>3. PICK d0 \in R!get_rand_row(hrt, u.rit, r), d1 \in R!get_rand_row(hrt, u.rit, r) :
          new = R!NewPartners(u, r, rit[r].dst_row, d0, d1)
    BY <2>2
  <2> DEFINE prev == rit[r].dst_row
             rit1 == u.rit
             c1 == u.c
             rit2 == new.rit
             c2 == new.c
  <2>4. /\ Pairs(rit1) /\ Contents(c1) /\ r \in DOMAIN rit1
        /\ \A z \in DOMAIN rit1 : z \in DOMAIN rit /\ rit1[z] = rit[z]
        /\ \A z \in R!distribution : FoundFor(rit1, c1, z) = FoundFor(rit, c, z)
        /\ Whole /\ Fits(rit, m_num_rit_entries) => Fits(rit1, m_num_rit_entries - 2)
    BY <1>5, RoomSound
  <2>5. prev = rit1[r].dst_row
    BY <2>4
  <2>6. new.drawn = {d0, d1}
    BY <2>3 DEF R!NewPartners
  <2>7. d0 # d1
    <3>1. Cardinality({d0}) = 1
      BY FS_Singleton
    <3>2. d0 = d1 => {d0, d1} = {d0}
      OBVIOUS
    <3> QED BY <2>6, <3>1, <3>2
  <2>8. /\ d0 \in R!distribution /\ d0 \notin DOMAIN rit1 /\ d1 \in R!distribution /\ d1 \notin DOMAIN rit1
    BY <1>2
  <2>9. rit2 = R!NewPartners(u, r, prev, d0, d1).rit /\ c2 = R!NewPartners(u, r, prev, d0, d1).c
    BY <2>3
  <2> HIDE DEF prev, rit2, c2
  <2>10. /\ Pairs(rit2) /\ Contents(c2)
         /\ \A size \in Int : Fits(rit1, size - 2) => Fits(rit2, size)
         /\ \A z \in R!distribution \ {d0, d1} : FoundFor(rit2, c2, z) = FoundFor(rit1, c1, z)
         /\ \A z \in DOMAIN rit2 : \/ z \in {r, prev} \/ rit2[z].dst_row \in {r, prev}
                                   \/ z \in DOMAIN rit1 /\ rit2[z] = rit1[z]
    BY <2>4, <2>5, <2>7, <2>8, <2>9, NewPartnersSound
  <2> HIDE DEF rit1, c1
  <2>11. Parting(rit, r) = {prev}
    BY <1>5 DEF Parting, R!SwappedNow, prev
  <2>12. ASSUME NEW z \in DOMAIN rit2
         PROVE  \/ \E e \in {z, rit2[z].dst_row} : e = r \/ e \in Parting(rit, r)
                \/ z \in DOMAIN rit /\ rit2[z] = rit[z]
    BY <2>4, <2>10, <2>11
  <2>13. /\ Pairs(rit2) /\ Contents(c2)
         /\ Whole /\ Fits(rit, m_num_rit_entries) => Fits(rit2, m_num_rit_entries)
         /\ \A z \in R!distribution \ new.drawn : FoundFor(rit2, c2, z) = FoundFor(rit, c, z)
    BY <1>1, <2>4, <2>6, <2>10
  <2> QED BY <2>12, <2>13 DEF rit2, c2
<1> QED BY <1>3, <1>4, <1>5

(* No update issues more than three swaps.                                  *)
LEMMA AtMostThreeSwaps ==
  ASSUME R!RRSAssumption, NEW rit, NEW c, NEW hrt, NEW r, NEW n \in Nat,
         NEW swaps \in R!Sendings(rit, c, hrt, r), R!Refused(n, swaps)
  PROVE  R!Refused(n, 3)
<1>1. ASSUME NEW u \in R!MakingRoom(rit, c, hrt) PROVE u.swaps \in 0..1
  BY DEF R!MakingRoom
<1>2. ASSUME NEW s \in R!Swaps(rit, c, hrt, r) PROVE s.swaps \in 0..3
  <2>1. CASE s \in R!SwapNew(rit, c, hrt, r)
    <3>1. PICK u \in R!MakingRoom(rit, c, hrt) : s.swaps = u.swaps + 1
      BY <2>1 DEF R!SwapNew
    <3> QED BY <1>1, <3>1
  <2>2. CASE s \in R!SwapAgain(rit, c, hrt, r)
    <3>1. s.swaps = 2
      BY <2>2 DEF R!SwapAgain
    <3> QED BY <3>1
  <2>3. CASE s \in R!SwapBoth(rit, c, hrt, r)
    <3>1. PICK u \in R!MakingRoom(rit, c, hrt) : s.swaps = u.swaps + 2
      BY <2>3 DEF R!SwapBoth, R!NewPartners
    <3> QED BY <1>1, <3>1
  <2> QED BY <2>1, <2>2, <2>3 DEF R!Swaps
<1>3. swaps \in 0..3
  <2>1. CASE \E s \in R!Swaps(rit, c, hrt, r) : swaps = s.swaps
    BY <1>2, <2>1
  <2>2. CASE \E u \in R!MakingRoom(rit, c, hrt) : swaps = u.swaps
    BY <1>1, <2>2
  <2> QED BY <2>1, <2>2 DEF R!Sendings
<1>4. m_num_cls \in Nat /\ max_size \in Nat
  BY DEF R!RRSAssumption
<1>5. n + 4 * m_num_cls * swaps > max_size + 1
  BY DEF R!Refused
<1>6. 4 * m_num_cls * swaps <= 4 * m_num_cls * 3
  <2>1. swaps = 0 \/ swaps = 1 \/ swaps = 2 \/ swaps = 3
    BY <1>3
  <2> QED BY <1>4, <2>1
<1> QED BY <1>4, <1>3, <1>5, <1>6 DEF R!Refused

(* An entry is locked only if one of its rows has been hot since the last   *)
(* reset, so that the tracker has not dropped it, or has been parted from   *)
(* its partner.                                                             *)
LocksHeld(rit, f, P) ==
  \A x \in DOMAIN rit : rit[x].lock =>
    \E e \in {x, rit[x].dst_row} : e \in P \/ (e \in DOMAIN f /\ f[e] >= Threshold)

BankSound(rit, c, f, P, A) ==
  /\ Pairs(rit) /\ Contents(c) /\ LocksHeld(rit, f, P)
  /\ Whole => Fits(rit, m_num_rit_entries)
  /\ \A z \in R!distribution \ A : FoundFor(rit, c, z) = z

Shapes ==
  /\ contents = [t \in Tables |-> contents[t]] /\ exited = [t \in Tables |-> exited[t]]
  /\ astray = [t \in Tables |-> astray[t]] /\ parted \in [Tables -> SUBSET R!distribution]
  /\ twins \subseteq Tables

DataInv ==
  /\ RRSInv /\ Shapes
  /\ \A t \in Tables \ twins :
       BankSound(m_row_indirection_table[t], contents[t], m_hot_row_tracker[t], parted[t], astray[t])
  /\ R!ExitsForWantOfRoom

LEMMA DataStart ==
  ASSUME DataInv
  PROVE  /\ R!Parted \in [Tables -> SUBSET R!distribution]
         /\ \A t \in Tables \ twins :
              BankSound(R!RITs[t], contents[t], R!HRT[t], R!Parted[t], astray[t])
<1>1. CASE R!Now # 0
  BY <1>1 DEF DataInv, Shapes, R!RITs, R!HRT, R!Parted
<1>2. CASE R!Now = 0
  <2>1. /\ R!RITs = [t \in Tables |-> R!rit_unlock(m_row_indirection_table[t])]
        /\ R!Parted = [t \in Tables |-> {}]
    BY <1>2, RRSNames DEF R!RITs, R!Parted
  <2>2. ASSUME NEW t \in Tables \ twins
        PROVE  BankSound(R!RITs[t], contents[t], R!HRT[t], R!Parted[t], astray[t])
    <3> DEFINE rit == m_row_indirection_table[t]
               new == R!RITs[t]
    <3>1. /\ Pairs(rit) /\ Contents(contents[t]) /\ (Whole => Fits(rit, m_num_rit_entries))
          /\ \A z \in R!distribution \ astray[t] : FoundFor(rit, contents[t], z) = z
      BY DEF DataInv, BankSound
    <3>2. new = R!rit_unlock(rit)
      BY <2>1
    <3> HIDE DEF rit, new
    <3>3. /\ Pairs(new) /\ \A x \in DOMAIN new : ~new[x].lock
          /\ \A z \in R!distribution : R!apply_indirection(new, z) = R!apply_indirection(rit, z)
          /\ \A size \in Int : Fits(rit, size) => Fits(new, size)
      BY <3>1, <3>2, UnlockPairs
    <3>4. Whole => Fits(new, m_num_rit_entries)
      BY <3>1, <3>3 DEF Whole
    <3>5. \A z \in R!distribution \ astray[t] : FoundFor(new, contents[t], z) = z
      BY <3>1, <3>3 DEF FoundFor
    <3>6. BankSound(new, contents[t], R!HRT[t], R!Parted[t], astray[t])
      BY <3>1, <3>3, <3>4, <3>5 DEF BankSound, LocksHeld
    <3> QED BY <3>6 DEF new
  <2> QED BY <2>1, <2>2
<1> QED BY <1>1, <1>2

(* The tracker goes on counting what has been hot.                          *)
LEMMA LocksCounted ==
  ASSUME RowHammerAssumption, R!RRSAssumption, NEW f, NEW s, NEW a, NEW n, Tracked(f, s, a, n),
         s < Threshold, NEW r \in R!distribution, NEW g \in R!Counting(f, r, s)
  PROVE  /\ \A e \in DOMAIN f : f[e] >= Threshold => e \in DOMAIN g /\ g[e] >= Threshold
         /\ \A rit, P : LocksHeld(rit, f, P) => LocksHeld(rit, g, P)
<1>1. /\ \A x \in DOMAIN f : f[x] > s => x \in DOMAIN g /\ g[x] >= f[x]
      /\ Tracked(g, s, [a EXCEPT ![r] = Activations(g[r], a[r])], n + 1)
  BY CountingTracked
<1>2. /\ Threshold \in Nat /\ s \in Nat /\ \A e \in DOMAIN f : f[e] \in Nat
      /\ \A e \in DOMAIN g : g[e] \in Nat
  BY <1>1 DEF Tracked, RowHammerAssumption
<1>3. ASSUME NEW e \in DOMAIN f, f[e] >= Threshold PROVE e \in DOMAIN g /\ g[e] >= Threshold
  <2>1. f[e] > s
    BY <1>2, <1>3
  <2> QED BY <1>1, <1>2, <1>3, <2>1
<1>4. ASSUME NEW rit, NEW P, LocksHeld(rit, f, P) PROVE LocksHeld(rit, g, P)
  BY <1>3, <1>4 DEF LocksHeld
<1> QED BY <1>3, <1>4

LEMMA HotAtThreshold ==
  ASSUME RowHammerAssumption, NEW k \in Nat \ {0}, R!Hot(k)
  PROVE  k >= Threshold
<1>1. Threshold \in Nat \ {0} /\ k % Threshold = 0
  BY DEF RowHammerAssumption, R!Hot
<1>2. k < Threshold => k % Threshold = k
  BY <1>1, SmallRest
<1> QED BY <1>1, <1>2

(* If no pair may be unswapped, each has a row that is in the tracker or    *)
(* was parted, and one of these is left over: the hot row, if it is in no   *)
(* pair, or else the one that it would part from.                           *)
LEMMA NoPairLeft ==
  ASSUME RowHammerAssumption, R!RRSAssumption, R!RITAssumption,
         NEW rit, Pairs(rit), NEW f, IsFiniteSet(DOMAIN f), Cardinality(DOMAIN f) <= m_num_hrt_entries,
         NEW P \in SUBSET R!distribution, LocksHeld(rit, f, P),
         NEW r \in DOMAIN f, R!NoPair(rit, f, r)
  PROVE  m_num_rit_entries < 2 * (m_num_hrt_entries + Cardinality(P \cup Parting(rit, r)))
<1> DEFINE Q == P \cup Parting(rit, r)
           X == DOMAIN f \cup Q
           out == IF R!SwappedNow(rit, r) THEN rit[r].dst_row ELSE r
           Y == X \ {out}
<1>1. /\ R!is_rit_full(rit) /\ R!get_unswap_pair(rit, DOMAIN f) = {}
      /\ r \in DOMAIN rit => R!SwappedNow(rit, r)
  BY DEF R!NoPair, R!SwappedNow, R!SwappedBefore
<1>2. IsFiniteSet(Q) /\ Cardinality(Q) \in Nat
  <2>1. IsFiniteSet(R!distribution)
    <3>1. R!distribution = 0..Cardinality(Rows) /\ Cardinality(Rows) \in Nat
      BY RRSNames, FS_CardinalityType DEF R!distribution, R!m_num_rows_per_bank, RowHammerAssumption
    <3> QED BY <3>1, FS_Interval
  <2>2. Q \subseteq R!distribution
    BY PairsFacts DEF Parting, R!SwappedNow
  <2> HIDE DEF Q
  <2> QED BY <2>1, <2>2, FS_Subset, FS_CardinalityType
<1> HIDE DEF Q
<1>3. IsFiniteSet(X) /\ Cardinality(X) \in Nat /\ Cardinality(X) <= m_num_hrt_entries + Cardinality(Q)
  <2>1. /\ IsFiniteSet(X) /\ IsFiniteSet(DOMAIN f \cap Q)
        /\ Cardinality(X) = Cardinality(DOMAIN f) + Cardinality(Q) - Cardinality(DOMAIN f \cap Q)
    BY <1>2, FS_Union, FS_Intersection
  <2>2. /\ Cardinality(X) \in Nat /\ Cardinality(DOMAIN f) \in Nat
        /\ Cardinality(DOMAIN f \cap Q) \in Nat /\ m_num_hrt_entries \in Nat
    BY <2>1, FS_CardinalityType DEF R!RRSAssumption
  <2> HIDE DEF X
  <2> QED BY <1>2, <2>1, <2>2
<1>4. out \in X
  BY DEF Parting, Q
<1>5. IsFiniteSet(Y) /\ Cardinality(Y) = Cardinality(X) - 1
  <2> HIDE DEF X, out
  <2> QED BY <1>3, <1>4, FS_RemoveElement
<1>6. ASSUME NEW x \in DOMAIN rit PROVE x \in Y \/ rit[x].dst_row \in Y
  <2> DEFINE y == rit[x].dst_row
  <2>1. y \in DOMAIN rit /\ y # x /\ rit[y].dst_row = x
    BY PairsFacts
  <2>2. x \in X \/ y \in X
    <3>1. CASE rit[x].lock
      BY <3>1 DEF LocksHeld, Q
    <3>2. CASE ~rit[x].lock
      <4> DEFINE pair == <<x, rit[x].dst_row>>
      <4>1. pair[1] = x /\ pair[2] = y /\ pair \in {<<z, rit[z].dst_row>> : z \in DOMAIN rit}
        OBVIOUS
      <4> HIDE DEF pair
      <4> QED BY <1>1, <3>2, <4>1 DEF R!get_unswap_pair
    <3> QED BY <3>1, <3>2
  <2>3. CASE x # out /\ y # out
    BY <2>2, <2>3
  <2>4. CASE x = out \/ y = out
    <3>1. R!SwappedNow(rit, r) /\ r \in DOMAIN rit
      BY <1>1, <2>1, <2>4 DEF R!SwappedNow
    <3>2. out = rit[r].dst_row /\ rit[out].dst_row = r /\ out # r
      BY <3>1, PairsFacts
    <3>3. x = r \/ y = r
      BY <2>1, <2>4, <3>2
    <3>4. r \in Y
      BY <3>2
    <3> QED BY <3>3, <3>4
  <2> QED BY <2>3, <2>4
<1> HIDE DEF X, Y, out
<1>7. IsFiniteSet(DOMAIN rit) /\ Cardinality(DOMAIN rit) <= 2 * Cardinality(Y)
  BY <1>5, <1>6, PairsCovered
<1>8. Cardinality(DOMAIN rit) >= m_num_rit_entries
  BY <1>1, RRSNames DEF R!is_rit_full
<1>9. /\ Cardinality(DOMAIN rit) \in Nat /\ m_num_rit_entries \in Nat /\ m_num_hrt_entries \in Nat
  BY <1>7, FS_CardinalityType DEF R!RITAssumption, R!RRSAssumption
<1>10. m_num_rit_entries < 2 * (m_num_hrt_entries + Cardinality(Q))
  BY <1>2, <1>3, <1>5, <1>7, <1>8, <1>9
<1> QED BY <1>10 DEF Q

(* Row r of a bank is swapped, or the program stops for want of room.       *)
LEMMA SwapSound ==
  ASSUME RowHammerAssumption, R!RRSAssumption, R!RITAssumption,
         NEW rit, NEW c, NEW f, NEW P, NEW A, BankSound(rit, c, f, P, A),
         NEW r \in R!distribution, r \in DOMAIN f, f[r] >= Threshold,
         NEW new \in R!Swaps(rit, c, f, r), Cardinality(new.drawn) # 1
  PROVE  /\ BankSound(new.rit, new.c, f, P \cup Parting(rit, r), A \cup new.drawn)
         /\ Whole => ~R!RITOverflows(new.rit)
<1> DEFINE rit2 == new.rit
           c2 == new.c
           drawn == new.drawn
<1>1. /\ Pairs(rit) /\ Contents(c) /\ LocksHeld(rit, f, P)
      /\ Whole => Fits(rit, m_num_rit_entries)
      /\ \A z \in R!distribution \ A : FoundFor(rit, c, z) = z
  BY DEF BankSound
<1>2. /\ Pairs(rit2) /\ Contents(c2)
      /\ Whole /\ Fits(rit, m_num_rit_entries) => Fits(rit2, m_num_rit_entries)
      /\ \A z \in R!distribution \ drawn : FoundFor(rit2, c2, z) = FoundFor(rit, c, z)
      /\ \A z \in DOMAIN rit2 :
           \/ \E e \in {z, rit2[z].dst_row} : e = r \/ e \in Parting(rit, r)
           \/ z \in DOMAIN rit /\ rit2[z] = rit[z]
  BY <1>1, SwapsSound
<1> HIDE DEF rit2, c2, drawn
<1>3. LocksHeld(rit2, f, P \cup Parting(rit, r))
  <2> SUFFICES ASSUME NEW z \in DOMAIN rit2, rit2[z].lock
               PROVE  \E e \in {z, rit2[z].dst_row} :
                        e \in P \cup Parting(rit, r) \/ (e \in DOMAIN f /\ f[e] >= Threshold)
    BY DEF LocksHeld
  <2>1. CASE \E e \in {z, rit2[z].dst_row} : e = r \/ e \in Parting(rit, r)
    BY <2>1
  <2>2. CASE z \in DOMAIN rit /\ rit2[z] = rit[z]
    BY <1>1, <2>2 DEF LocksHeld
  <2> QED BY <1>2, <2>1, <2>2
<1>4. BankSound(rit2, c2, f, P \cup Parting(rit, r), A \cup drawn)
  BY <1>1, <1>2, <1>3 DEF BankSound
<1>5. ASSUME Whole PROVE ~R!RITOverflows(rit2)
  <2>1. PICK k \in Nat : Cardinality(DOMAIN rit2) = 2 * k /\ 2 * k <= m_num_rit_entries
    BY <1>1, <1>2, <1>5 DEF Fits
  <2> QED BY <1>5, <2>1, RRSNames DEF R!RITOverflows, Whole
<1> QED BY <1>4, <1>5 DEF rit2, c2, drawn

LEMMA WholeOrOdd ==
  ASSUME R!RITAssumption, ~Whole
  PROVE  m_num_rit_entries % 2 = 1
<1>1. m_num_rit_entries \in Nat
  BY DEF R!RITAssumption
<1>2. /\ m_num_rit_entries = (m_num_rit_entries \div 2) * 2 + (m_num_rit_entries % 2)
      /\ m_num_rit_entries \div 2 \in Nat /\ m_num_rit_entries % 2 \in 0..1
  BY <1>1, DivMod
<1>3. m_num_rit_entries % 2 = 0 => Whole
  <2> DEFINE k == m_num_rit_entries \div 2
  <2>1. k \in Nat /\ (m_num_rit_entries % 2 = 0 => m_num_rit_entries = 2 * k)
    BY <1>1, <1>2
  <2> HIDE DEF k
  <2> QED BY <1>1, <2>1 DEF Whole
<1> QED BY <1>2, <1>3

LEMMA DataActivated ==
  ASSUME RowHammerAssumption, R!RRSAssumption, R!RITAssumption, DataInv,
         NEW b \in Banks, NEW r \in R!distribution, R!Activate(b, r)
  PROVE  DataInv'
<1> DEFINE t == flat_bank_id(b)
           f == R!HRT[t]
           s == R!Spills[t]
           a == R!Acts[t]
           rit == R!RITs[t]
           c == contents[t]
           P == R!Parted[t]
           A == astray[t]
<1>1. RRSInv /\ Shapes
  BY DEF DataInv
<1>2. /\ t \in Tables
      /\ s < Threshold /\ Tracked(f, s, a, R!Now)
      /\ \/ m_hot_row_tracker' = [R!HRT EXCEPT ![t] = f] /\ RRSKept
         \/ \E g \in R!Counting(f, r, s) :
              /\ m_hot_row_tracker' = [R!HRT EXCEPT ![t] = g]
              /\ RRSKept \/ (R!Hot(g[r]) /\ R!Swap(t, r, g))
  BY <1>1, RRSActivated
<1>3. /\ R!HRT = [u \in Tables |-> R!HRT[u]] /\ R!RITs = [u \in Tables |-> R!RITs[u]]
  BY <1>1, RRSStart DEF AllTracked, AllLead
<1>4. RRSInv'
  BY <1>1, RRSActivateTracked
<1>5. /\ R!Parted \in [Tables -> SUBSET R!distribution]
      /\ \A u \in Tables \ twins :
           BankSound(R!RITs[u], contents[u], R!HRT[u], R!Parted[u], astray[u])
  BY DataStart
<1>6. /\ t \notin twins => BankSound(rit, c, f, P, A)
      /\ P \in SUBSET R!distribution
  BY <1>2, <1>5
<1>7. \A u \in Tables : exited[u] = "no"
  BY RRSNames DEF R!Activate, R!Running
<1> HIDE DEF t, f, s, a, rit, c, P, A
<1>8. ASSUME NEW g, NEW rit2, NEW c2, NEW P2 \in SUBSET R!distribution, NEW A2, NEW why,
             m_hot_row_tracker' = [R!HRT EXCEPT ![t] = g],
             m_row_indirection_table' = [R!RITs EXCEPT ![t] = rit2],
             contents' = [contents EXCEPT ![t] = c2], parted' = [R!Parted EXCEPT ![t] = P2],
             astray' = [astray EXCEPT ![t] = A2], exited' = [exited EXCEPT ![t] = why],
             twins' \in {twins, twins \cup {t}},
             t \notin twins' => BankSound(rit2, c2, g, P2, A2),
             why = "Check priority queue max size." => R!Refused(waiting', 3),
             why = "RIT is full!" => t \in twins' \/ m_num_rit_entries % 2 = 1,
             why = "No unlocked entry found in the RIT!" =>
               \/ t \in twins'
               \/ m_num_rit_entries < 2 * (m_num_hrt_entries + Cardinality(P2))
      PROVE  DataInv'
  <2>1. Shapes'
    BY <1>1, <1>2, <1>5, <1>8 DEF Shapes
  <2>2. /\ m_hot_row_tracker'[t] = g /\ m_row_indirection_table'[t] = rit2 /\ contents'[t] = c2
        /\ parted'[t] = P2 /\ astray'[t] = A2 /\ exited'[t] = why
    BY <1>1, <1>2, <1>3, <1>5, <1>8 DEF Shapes
  <2>3. ASSUME NEW u \in Tables, u # t
        PROVE  /\ m_hot_row_tracker'[u] = R!HRT[u] /\ m_row_indirection_table'[u] = R!RITs[u]
               /\ contents'[u] = contents[u] /\ parted'[u] = R!Parted[u] /\ astray'[u] = astray[u]
               /\ exited'[u] = "no"
    BY <1>1, <1>3, <1>5, <1>7, <1>8, <2>3 DEF Shapes
  <2>4. ASSUME NEW u \in Tables \ twins'
        PROVE  BankSound(m_row_indirection_table'[u], contents'[u], m_hot_row_tracker'[u],
                         parted'[u], astray'[u])
    <3>1. CASE u = t
      BY <1>8, <2>2, <2>4, <3>1
    <3>2. CASE u # t
      <4>1. u \in Tables \ twins
        BY <1>8, <2>4
      <4> QED BY <1>5, <2>3, <3>2, <4>1
    <3> QED BY <3>1, <3>2
  <2>5. ASSUME NEW u \in Tables
        PROVE  /\ exited'[u] = "Check priority queue max size." => R!Refused(waiting', 3)
               /\ exited'[u] = "RIT is full!" => u \in twins' \/ m_num_rit_entries % 2 = 1
               /\ exited'[u] = "No unlocked entry found in the RIT!" =>
                    \/ u \in twins'
                    \/ m_num_rit_entries < 2 * (m_num_hrt_entries + Cardinality(parted'[u]))
    <3>1. CASE u = t
      BY <1>8, <2>2, <3>1
    <3>2. CASE u # t
      BY <2>3, <3>2
    <3> QED BY <3>1, <3>2
  <2>6. R!ExitsForWantOfRoom'
    BY <2>5, RRSNames DEF R!ExitsForWantOfRoom, R!Refused
  <2> QED BY <1>4, <2>1, <2>4, <2>6 DEF DataInv
<1>9. /\ R!RITs = [R!RITs EXCEPT ![t] = rit] /\ contents = [contents EXCEPT ![t] = c]
      /\ R!Parted = [R!Parted EXCEPT ![t] = P] /\ astray = [astray EXCEPT ![t] = A]
      /\ exited = [exited EXCEPT ![t] = "no"]
  BY <1>1, <1>2, <1>3, <1>5, <1>7 DEF rit, c, P, A, Shapes
<1>10. ASSUME NEW g, m_hot_row_tracker' = [R!HRT EXCEPT ![t] = g], RRSKept,
              t \notin twins => BankSound(rit, c, g, P, A)
       PROVE  DataInv'
  <2> DEFINE why == "no"
  <2>1. /\ m_row_indirection_table' = [R!RITs EXCEPT ![t] = rit]
        /\ contents' = [contents EXCEPT ![t] = c] /\ parted' = [R!Parted EXCEPT ![t] = P]
        /\ astray' = [astray EXCEPT ![t] = A] /\ exited' = [exited EXCEPT ![t] = why]
        /\ twins' = twins
    BY <1>9, <1>10 DEF RRSKept
  <2>2. /\ why # "Check priority queue max size." /\ why # "RIT is full!"
        /\ why # "No unlocked entry found in the RIT!"
    OBVIOUS
  <2> HIDE DEF why
  <2> QED BY <1>6, <1>8, <1>10, <2>1, <2>2
<1>11. CASE m_hot_row_tracker' = [R!HRT EXCEPT ![t] = f] /\ RRSKept
  BY <1>6, <1>10, <1>11
<1>12. ASSUME NEW g \in R!Counting(f, r, s)
       PROVE  t \notin twins => BankSound(rit, c, g, P, A)
  <2>1. \A x, Q : LocksHeld(x, f, Q) => LocksHeld(x, g, Q)
    BY <1>2, LocksCounted
  <2> QED BY <1>6, <2>1 DEF BankSound
<1>13. ASSUME NEW g \in R!Counting(f, r, s), m_hot_row_tracker' = [R!HRT EXCEPT ![t] = g],
              R!Hot(g[r]), R!Swap(t, r, g)
       PROVE  DataInv'
  <2>1. /\ Tracked(g, s, [a EXCEPT ![r] = Activations(g[r], a[r])], R!Now + 1)
        /\ r \in DOMAIN g /\ g[r] \in Nat \ {0}
    BY <1>2, CountingTracked
  <2>2. g[r] >= Threshold
    BY <1>13, <2>1, HotAtThreshold
  <2>3. IsFiniteSet(DOMAIN g) /\ Cardinality(DOMAIN g) <= m_num_hrt_entries
    BY <2>1 DEF Tracked
  <2> DEFINE P2 == P \cup Parting(rit, r)
  <2>4. parted' = [R!Parted EXCEPT ![t] = P2]
    <3>1. parted' = IF R!SwappedNow(rit, r)
                    THEN [R!Parted EXCEPT ![t] = @ \cup {rit[r].dst_row}] ELSE R!Parted
      BY <1>13 DEF R!Swap, rit
    <3> QED BY <1>2, <1>5, <1>9, <3>1 DEF Parting, P
  <2> HIDE DEF P2
  <2>5. P2 \in SUBSET R!distribution
    <3>1. Leads(rit)
      BY <1>1, <1>2, RRSStart DEF AllLead, rit
    <3> QED BY <1>6, <3>1, LeadsFacts DEF P2, Parting, R!SwappedNow
  <2>6. CASE R!Swapping(t, r, g)
    <3>1. PICK new \in R!Swaps(rit, c, g, r) :
            /\ m_row_indirection_table' = [R!RITs EXCEPT ![t] = new.rit]
            /\ contents' = [contents EXCEPT ![t] = new.c]
            /\ exited' = [exited EXCEPT ![t] = IF R!RITOverflows(new.rit) THEN "RIT is full!" ELSE "no"]
            /\ astray' = [astray EXCEPT ![t] = @ \cup new.drawn]
            /\ twins' = IF R!Cardinality(new.drawn) = 1 THEN twins \cup {t} ELSE twins
      BY <2>6 DEF R!Swapping, rit, c
    <3> DEFINE rit2 == new.rit
               c2 == new.c
               A2 == A \cup new.drawn
               why == IF R!RITOverflows(rit2) THEN "RIT is full!" ELSE "no"
    <3>2. astray' = [astray EXCEPT ![t] = A2]
      BY <1>1, <1>2, <3>1 DEF A, Shapes
    <3>3. /\ t \notin twins' => BankSound(rit2, c2, g, P2, A2)
          /\ why = "RIT is full!" => t \in twins' \/ m_num_rit_entries % 2 = 1
      <4>1. CASE t \in twins'
        BY <4>1
      <4>2. CASE t \notin twins'
        <5>1. Cardinality(new.drawn) # 1 /\ t \notin twins
          BY <3>1, <4>2, RRSNames
        <5>2. BankSound(rit, c, g, P, A)
          BY <1>12, <5>1
        <5>3. BankSound(rit2, c2, g, P2, A2) /\ (Whole => ~R!RITOverflows(rit2))
          BY <2>1, <2>2, <5>1, <5>2, SwapSound DEF P2
        <5> QED BY <4>2, <5>3, WholeOrOdd
      <4> QED BY <4>1, <4>2
    <3>4. twins' \in {twins, twins \cup {t}}
      BY <3>1
    <3>5. /\ why # "Check priority queue max size." /\ why # "No unlocked entry found in the RIT!"
          /\ m_row_indirection_table' = [R!RITs EXCEPT ![t] = rit2]
          /\ contents' = [contents EXCEPT ![t] = c2] /\ exited' = [exited EXCEPT ![t] = why]
      BY <3>1
    <3> HIDE DEF rit2, c2, A2, why
    <3> QED BY <1>8, <1>13, <2>4, <2>5, <3>2, <3>3, <3>4, <3>5
  <2>7. CASE R!Stopping(t, r, g)
    <3>1. /\ m_row_indirection_table' = R!RITs /\ UNCHANGED <<contents, astray, twins>>
          /\ \/ /\ R!NoPair(rit, g, r)
                /\ exited' = [exited EXCEPT ![t] = "No unlocked entry found in the RIT!"]
             \/ \E n \in 0..(max_size + 1), swaps \in R!Sendings(rit, c, g, r) :
                  /\ R!Refused(n, swaps) /\ waiting' = n
                  /\ exited' = [exited EXCEPT ![t] = "Check priority queue max size."]
      BY <2>7 DEF R!Stopping, rit, c
    <3>2. t \notin twins => BankSound(rit, c, g, P2, A)
      <4>1. t \notin twins => BankSound(rit, c, g, P, A)
        BY <1>12
      <4> QED BY <4>1 DEF BankSound, LocksHeld, P2
    <3>3. CASE /\ R!NoPair(rit, g, r)
               /\ exited' = [exited EXCEPT ![t] = "No unlocked entry found in the RIT!"]
      <4>1. t \in twins \/ m_num_rit_entries < 2 * (m_num_hrt_entries + Cardinality(P2))
        <5> SUFFICES ASSUME t \notin twins
                     PROVE  m_num_rit_entries < 2 * (m_num_hrt_entries + Cardinality(P2))
          OBVIOUS
        <5>1. Pairs(rit) /\ LocksHeld(rit, g, P)
          BY <1>12 DEF BankSound
        <5> QED BY <1>6, <2>1, <2>3, <3>3, <5>1, NoPairLeft DEF P2
      <4> QED BY <1>8, <1>9, <1>13, <2>4, <2>5, <3>1, <3>2, <3>3, <4>1
    <3>4. ASSUME NEW n \in 0..(max_size + 1), NEW swaps \in R!Sendings(rit, c, g, r),
                 R!Refused(n, swaps), waiting' = n,
                 exited' = [exited EXCEPT ![t] = "Check priority queue max size."]
          PROVE  DataInv'
      <4>1. R!Refused(n, 3)
        <5>1. n \in Nat
          BY DEF R!RRSAssumption
        <5> QED BY <3>4, <5>1, AtMostThreeSwaps
      <4>2. R!Refused(waiting', 3)
        BY <3>4, <4>1
      <4> QED BY <1>8, <1>9, <1>13, <2>4, <2>5, <3>1, <3>2, <3>4, <4>2
    <3> QED BY <3>1, <3>3, <3>4
  <2> QED BY <1>13, <2>6, <2>7 DEF R!Swap
<1>14. ASSUME NEW g \in R!Counting(f, r, s), m_hot_row_tracker' = [R!HRT EXCEPT ![t] = g], RRSKept
       PROVE  DataInv'
  BY <1>10, <1>12, <1>14
<1> QED BY <1>2, <1>11, <1>13, <1>14

LEMMA DataInit ==
  ASSUME RowHammerAssumption, R!RRSAssumption, R!RITAssumption, R!Init
  PROVE  DataInv
<1>1. /\ m_row_indirection_table = [t \in Tables |-> R!EmptyRIT]
      /\ contents = [t \in Tables |-> [r \in R!distribution |-> r]]
      /\ exited = [t \in Tables |-> "no"] /\ twins = {}
      /\ astray = [t \in Tables |-> {}] /\ parted = [t \in Tables |-> {}]
  BY RRSNames DEF R!Init
<1>2. DOMAIN R!EmptyRIT = {} /\ Leads(R!EmptyRIT)
  BY DEF R!EmptyRIT, Leads
<1>3. ASSUME NEW t \in Tables
      PROVE  BankSound(R!EmptyRIT, [r \in R!distribution |-> r], m_hot_row_tracker[t], {}, {})
  <2>1. Whole => Fits(R!EmptyRIT, m_num_rit_entries)
    <3>1. IsFiniteSet({}) /\ Cardinality({}) = 2 * 0
      BY FS_EmptySet
    <3>2. Whole => 2 * 0 <= m_num_rit_entries
      BY DEF Whole
    <3> QED BY <1>2, <3>1, <3>2 DEF Fits
  <2>2. \A z \in R!distribution : FoundFor(R!EmptyRIT, [r \in R!distribution |-> r], z) = z
    BY <1>2 DEF FoundFor, R!apply_indirection
  <2> QED BY <1>2, <2>1, <2>2 DEF BankSound, Pairs, Contents, LocksHeld
<1>4. R!ExitsForWantOfRoom
  BY <1>1, RRSNames DEF R!ExitsForWantOfRoom
<1>5. Shapes
  BY <1>1 DEF Shapes
<1>6. RRSInv
  BY RRSInit
<1> QED BY <1>1, <1>3, <1>4, <1>5, <1>6 DEF DataInv

LEMMA DataInvariance ==
  ASSUME RowHammerAssumption, R!RRSAssumption, R!RITAssumption
  PROVE  R!Spec => []DataInv
<1>1. R!Init => DataInv
  BY DataInit
<1>2. DataInv /\ [R!Next]_R!vars => DataInv'
  <2> SUFFICES ASSUME DataInv, [R!Next]_R!vars PROVE DataInv'
    OBVIOUS
  <2>1. CASE R!Idle
    <3>1. /\ m_clk' = R!Now /\ m_hot_row_tracker' = R!HRT /\ m_spillover_counter' = R!Spills
          /\ acts' = R!Acts /\ m_row_indirection_table' = R!RITs /\ parted' = R!Parted
          /\ UNCHANGED <<exited, contents, waiting, astray, twins>> /\ R!Running
      BY <2>1 DEF R!Idle
    <3>2. /\ R!Now \in 0..(m_reset_period_clk - 1) /\ AllTracked(R!HRT, R!Spills, R!Acts, R!Now)
          /\ AllLead(R!RITs)
      BY RRSStart DEF DataInv
    <3>3. AllTracked(R!HRT, R!Spills, R!Acts, R!Now + 1)
      BY <3>2, TrackedLater DEF AllTracked
    <3>4. RRSInv'
      BY <3>1, <3>2, <3>3 DEF RRSInv
    <3>5. /\ R!Parted \in [Tables -> SUBSET R!distribution]
          /\ \A t \in Tables \ twins :
               BankSound(R!RITs[t], contents[t], R!HRT[t], R!Parted[t], astray[t])
      BY DataStart
    <3>6. Shapes'
      BY <3>1, <3>5 DEF DataInv, Shapes
    <3>7. R!ExitsForWantOfRoom'
      BY <3>1, RRSNames DEF R!ExitsForWantOfRoom, R!Running
    <3> QED BY <3>1, <3>4, <3>5, <3>6, <3>7 DEF DataInv
  <2>2. ASSUME NEW b \in Banks, NEW r \in R!distribution, R!Activate(b, r) PROVE DataInv'
    BY <2>2, DataActivated
  <2>3. CASE UNCHANGED R!vars
    BY <2>3 DEF R!vars, R!history, DataInv, RRSInv, Shapes, R!ExitsForWantOfRoom, R!Refused
  <2> QED BY <2>1, <2>2, <2>3, RRSNames DEF R!Next
<1> QED BY <1>1, <1>2, PTL DEF R!Spec

(* The indirection leads to the row's own data, through swaps, unswaps for  *)
(* room, unswaps of old pairs and second swaps in a period, whichever rows  *)
(* and pairs are chosen; it loses only the rows that a second swap draws,   *)
(* as long as it does not draw one row twice.                               *)
THEOREM RRSDataFollows ==
  ASSUME RowHammerAssumption, R!RRSAssumption, R!RITAssumption
  PROVE  R!Spec => []R!DataFollows
<1>1. ASSUME DataInv, NEW t \in Tables \ twins, NEW r \in Rows \ astray[t]
      PROVE  R!Found[t][r] = r
  <2>1. FoundFor(m_row_indirection_table[t], contents[t], r) = r
    BY <1>1, RowsDrawn DEF DataInv, BankSound
  <2> QED BY <2>1, RRSNames DEF R!Found, FoundFor
<1>2. DataInv => R!DataFollows
  BY <1>1, RRSNames DEF R!DataFollows
<1> QED BY <1>2, DataInvariance, PTL

(* The program stops only when a priority buffer has no room for three      *)
(* swaps, when pairs do not fit the table evenly, when the rows that the    *)
(* tracker holds or that second swaps have parted may take up all its       *)
(* pairs, or after one row has been drawn twice.                            *)
THEOREM RRSExitsForWantOfRoom ==
  ASSUME RowHammerAssumption, R!RRSAssumption, R!RITAssumption
  PROVE  R!Spec => []R!ExitsForWantOfRoom
<1>1. DataInv => R!ExitsForWantOfRoom
  BY DEF DataInv
<1> QED BY <1>1, DataInvariance, PTL
=============================================================================
