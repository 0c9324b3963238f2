--------------------------- MODULE SimpleO3_proofs ---------------------------
(***************************************************************************)
(* Proofs about the SimpleO3 cores and their cache, for any number of       *)
(* cores, any traces, any sizes of the cache, the registers and the window, *)
(* and a memory that answers in any order: registers and lines in flight    *)
(* agree, no store is lost, and the loads of a single core will be woken.   *)
(***************************************************************************)
EXTENDS SimpleO3, FiniteSetTheorems, FunctionTheorems, SequenceTheorems, WellFoundedInduction, TLAPS

-----------------------------------------------------------------------------
(* Numbers *)

LEMMA LeastNatural ==
  ASSUME NEW T \in SUBSET Nat, T # {}
  PROVE  \E n \in T : \A m \in T : n <= m
<1>1. IsWellFoundedOn(OpToRel(<, Nat), Nat)
  BY NatLessThanWellFounded
<1>2. PICK n \in T : \A m \in T : <<m, n>> \notin OpToRel(<, Nat)
  BY <1>1, WFMin, Zenon
<1>3. \A m \in T : ~(m < n)
  BY <1>2 DEF OpToRel
<1> QED BY <1>3

LEMMA MinFacts ==
  ASSUME NEW T \in SUBSET Nat, T # {}
  PROVE  Min(T) \in T /\ \A m \in T : Min(T) <= m
<1>1. \E n \in T : \A m \in T : n <= m
  BY LeastNatural
<1> QED BY <1>1 DEF Min

LEMMA Monotone ==
  ASSUME NEW x \in Int, NEW y \in Int, NEW n \in Nat, x <= y
  PROVE  x * n <= y * n
BY SMT

LEMMA DivMod ==
  ASSUME NEW x \in Nat, NEW n \in Nat \ {0}
  PROVE  x \div n \in Nat /\ x % n \in 0 .. (n - 1) /\ x = (x \div n) * n + (x % n)
<1>1. n * (x \div n) + (x % n) = x
  BY Z3
<1>2. x \div n \in Nat /\ x % n \in 0 .. (n - 1)
  OBVIOUS
<1>3. x = (x \div n) * n + (x % n)
  BY <1>1, <1>2
<1> QED BY <1>3, <1>2

(* Numbers with digits below n are equal when their digits are.             *)
LEMMA DigitsUnique ==
  ASSUME NEW n \in Nat, NEW p \in Nat, NEW q \in Nat, NEW x \in 0 .. (n - 1), NEW y \in 0 .. (n - 1),
         p * n + x = q * n + y
  PROVE  p = q /\ x = y
<1>1. ASSUME NEW u \in Nat, NEW v \in Nat, u < v PROVE u * n + n <= v * n
  <2>1. (u + 1) * n <= v * n
    BY <1>1, Monotone
  <2>2. (u + 1) * n = u * n + n
    OBVIOUS
  <2> QED BY <2>1, <2>2
<1>2. ~(p < q)
  BY <1>1
<1>3. ~(q < p)
  BY <1>1
<1>4. p = q
  BY <1>2, <1>3
<1> QED BY <1>4

(* Dividing by a product is dividing twice.                                 *)
LEMMA DivTwice ==
  ASSUME NEW a \in Nat, NEW L \in Nat \ {0}, NEW S \in Nat \ {0}
  PROVE  a \div (L * S) = (a \div L) \div S
<1> DEFINE p == a \div L
           q == p \div S
           P == L * S
           u == a \div P
           v == a % P
           x == a % L
           y == p % S
<1>1. P \in Nat \ {0}
  OBVIOUS
<1>2. p \in Nat /\ x \in 0 .. (L - 1) /\ a = p * L + x
  BY DivMod
<1>3. q \in Nat /\ y \in 0 .. (S - 1) /\ p = q * S + y
  BY <1>2, DivMod
<1>4. u \in Nat /\ v \in 0 .. (P - 1) /\ a = u * P + v
  BY <1>1, DivMod
<1> HIDE DEF p, q, u, v, x, y
<1>5. a = q * P + (y * L + x)
  <2>1. (q * S + y) * L = q * (L * S) + y * L
    BY <1>3, Z3
  <2>2. a = (q * S + y) * L + x
    BY <1>2, <1>3
  <2>3. q * (L * S) \in Int /\ y * L \in Int /\ (q * S + y) * L \in Int
    BY <1>3
  <2> QED BY <1>2, <2>1, <2>2, <2>3
<1>6. y * L + x \in 0 .. (P - 1)
  <2>1. y * L <= (S - 1) * L
    BY <1>3, Monotone
  <2>2. (S - 1) * L = L * S - L
    BY Z3
  <2>3. 0 <= y * L /\ y * L \in Int /\ L * S \in Int
    BY <1>3
  <2> QED BY <1>2, <2>1, <2>2, <2>3
<1> HIDE DEF P
<1>7. q = u
  <2> DEFINE z == y * L + x
  <2>1. q * P + z = u * P + v /\ z \in 0 .. (P - 1)
    BY <1>4, <1>5, <1>6
  <2> HIDE DEF z
  <2> QED BY <1>1, <1>3, <1>4, <2>1, DigitsUnique
<1> QED BY <1>7 DEF q, u, p, P

(* A line is a set and a tag: both together are the number of the line.     *)
LEMMA SameLine ==
  ASSUME LLCAssumption, NEW a \in Addr, NEW b \in Addr
  PROVE  /\ align(a) = align(b) <=> get_index(a) = get_index(b) /\ get_tag(a) = get_tag(b)
         /\ get_index(a) \in Sets /\ get_tag(a) \in Nat
<1> DEFINE L == m_linesize_bytes
           S == m_set_size
           p == a \div L
           q == b \div L
           x == a % L
           y == b % L
<1>1. L \in Nat \ {0} /\ S \in Nat \ {0} /\ a \in Nat /\ b \in Nat
  BY DEF LLCAssumption
<1>2. p \in Nat /\ x \in 0 .. (L - 1) /\ a = p * L + x
  BY <1>1, DivMod
<1>3. q \in Nat /\ y \in 0 .. (L - 1) /\ b = q * L + y
  BY <1>1, DivMod
<1>4. get_tag(a) = p \div S /\ get_tag(b) = q \div S
  BY <1>1, DivTwice DEF get_tag
<1>5. get_index(a) = p % S /\ get_index(b) = q % S
  BY DEF get_index
<1>6. align(a) = p * L /\ align(b) = q * L
  <2>1. align(a) = a - x /\ align(b) = b - y
    BY DEF align
  <2>2. p * L \in Int /\ q * L \in Int
    BY <1>1, <1>2, <1>3
  <2> HIDE DEF p, q, x, y
  <2> QED BY <1>1, <1>2, <1>3, <2>1, <2>2
<1> HIDE DEF L, S, p, q, x, y
<1>7. p * L = q * L => p = q
  <2>1. 0 \in 0 .. (L - 1) /\ p * L \in Int /\ q * L \in Int
    BY <1>1, <1>2, <1>3
  <2>2. ASSUME p * L = q * L PROVE p * L + 0 = q * L + 0
    BY <2>1, <2>2
  <2> QED BY <1>1, <1>2, <1>3, <2>1, <2>2, DigitsUnique
<1>8. p % S = q % S /\ p \div S = q \div S => p = q
  <2>1. p = (p \div S) * S + (p % S) /\ q = (q \div S) * S + (q % S)
    BY <1>1, <1>2, <1>3, DivMod
  <2> QED BY <2>1
<1>9. p % S \in 0 .. (S - 1) /\ p \div S \in Nat
  BY <1>1, <1>2, DivMod
<1> QED BY <1>4, <1>5, <1>6, <1>7, <1>8, <1>9 DEF Sets, S

-----------------------------------------------------------------------------
(* Sequences *)

LEMMA RemoveFacts ==
  ASSUME NEW T, NEW s \in Seq(T), NEW i \in DOMAIN s
  PROVE  /\ RemoveAt(s, i) \in Seq(T)
         /\ Len(s) \in Nat /\ i \in 1 .. Len(s)
         /\ Len(RemoveAt(s, i)) = Len(s) - 1
         /\ DOMAIN RemoveAt(s, i) = 1 .. (Len(s) - 1)
         /\ \A j \in 1 .. (Len(s) - 1) : RemoveAt(s, i)[j] = IF j < i THEN s[j] ELSE s[j + 1]
<1> DEFINE before == SubSeq(s, 1, i - 1)
           after == SubSeq(s, i + 1, Len(s))
<1>1. Len(s) \in Nat /\ i \in 1 .. Len(s)
  OBVIOUS
<1>2. /\ before \in Seq(T) /\ Len(before) = i - 1
      /\ \A j \in 1 .. (i - 1) : before[j] = s[j]
  BY <1>1
<1>3. /\ after \in Seq(T) /\ Len(after) = Len(s) - i
      /\ \A j \in 1 .. (Len(s) - i) : after[j] = s[i + j]
  BY <1>1
<1>4. RemoveAt(s, i) = before \o after
  BY DEF RemoveAt
<1> HIDE DEF before, after
<1>5. /\ RemoveAt(s, i) \in Seq(T)
      /\ Len(RemoveAt(s, i)) = Len(s) - 1
  BY <1>1, <1>2, <1>3, <1>4
<1>6. ASSUME NEW j \in 1 .. (Len(s) - 1)
      PROVE  RemoveAt(s, i)[j] = IF j < i THEN s[j] ELSE s[j + 1]
  <2>1. CASE j < i
    BY <1>1, <1>2, <1>3, <1>4, <2>1
  <2>2. CASE ~(j < i)
    <3>1. j - (i - 1) \in 1 .. (Len(s) - i)
      BY <1>1, <2>2
    <3>2. RemoveAt(s, i)[j] = after[j - Len(before)]
      <4>1. j \in 1 .. Len(before) + Len(after) /\ ~(j <= Len(before))
        BY <1>1, <1>2, <1>3, <2>2
      <4>2. (before \o after)[j] = IF j <= Len(before) THEN before[j] ELSE after[j - Len(before)]
        BY <1>2, <1>3, <4>1, ConcatProperties
      <4> QED BY <1>4, <4>1, <4>2
    <3>3. after[j - (i - 1)] = s[j + 1]
      BY <1>1, <1>3, <2>2, <3>1, SMTT(30)
    <3> QED BY <1>2, <2>2, <3>2, <3>3
  <2> QED BY <2>1, <2>2
<1> QED BY <1>1, <1>5, <1>6

LEMMA AppendFacts ==
  ASSUME NEW T, NEW s \in Seq(T), NEW e \in T
  PROVE  /\ Append(s, e) \in Seq(T)
         /\ Len(s) \in Nat /\ DOMAIN s = 1 .. Len(s)
         /\ Len(Append(s, e)) = Len(s) + 1
         /\ DOMAIN Append(s, e) = 1 .. (Len(s) + 1)
         /\ \A j \in 1 .. Len(s) : Append(s, e)[j] = s[j]
         /\ Append(s, e)[Len(s) + 1] = e
OBVIOUS

(* Where the elements of a sequence come from when its k-th is taken out    *)
(* and another put at the end.                                              *)
From(n, k) == [j \in 1 .. n |-> IF j < k THEN j ELSE IF j < n THEN j + 1 ELSE k]

Moved(s, k, e) == Append(RemoveAt(s, k), e)

(* t is s with its k-th element replaced by e at the end, and f says which  *)
(* element came where.                                                      *)
Rearranged(s, k, e, t, f) ==
  /\ Len(t) = Len(s)
  /\ DOMAIN s = 1 .. Len(s) /\ Len(s) \in Nat /\ Len(s) \in DOMAIN s
  /\ DOMAIN t = DOMAIN s
  /\ \A j \in DOMAIN s :
       /\ f[j] \in DOMAIN s
       /\ f[j] = k <=> j = Len(s)
       /\ t[j] = IF j = Len(s) THEN e ELSE s[f[j]]
  /\ \A j, m \in DOMAIN s : f[j] = f[m] => j = m
  /\ \A m \in DOMAIN s : \E j \in DOMAIN s : f[j] = m

LEMMA MovedFacts ==
  ASSUME NEW T, NEW s \in Seq(T), NEW k \in DOMAIN s, NEW e \in T
  PROVE  /\ Moved(s, k, e) \in Seq(T)
         /\ Rearranged(s, k, e, Moved(s, k, e), From(Len(s), k))
<1> DEFINE n == Len(s)
           r == RemoveAt(s, k)
           t == Append(r, e)
<1>1. /\ r \in Seq(T) /\ n \in Nat /\ k \in 1 .. n /\ Len(r) = n - 1
      /\ \A j \in 1 .. (n - 1) : r[j] = IF j < k THEN s[j] ELSE s[j + 1]
  BY RemoveFacts
<1>2. DOMAIN s = 1 .. n
  OBVIOUS
<1> HIDE DEF n, r
<1>3. /\ t \in Seq(T) /\ Len(t) = n /\ DOMAIN t = 1 .. n
      /\ (\A j \in 1 .. (n - 1) : t[j] = r[j]) /\ t[n] = e
  <2>1. /\ t \in Seq(T) /\ Len(t) = Len(r) + 1 /\ DOMAIN t = 1 .. (Len(r) + 1)
        /\ (\A j \in 1 .. Len(r) : t[j] = r[j]) /\ t[Len(r) + 1] = e
    BY <1>1, AppendFacts
  <2>2. Len(r) + 1 = n
    BY <1>1
  <2> HIDE DEF t
  <2> QED BY <1>1, <2>1, <2>2
<1> HIDE DEF t
<1>4. ASSUME NEW j \in 1 .. n
      PROVE  /\ From(n, k)[j] = IF j < k THEN j ELSE IF j < n THEN j + 1 ELSE k
             /\ From(n, k)[j] \in 1 .. n
             /\ From(n, k)[j] = k <=> j = n
  BY <1>1 DEF From
<1>5. ASSUME NEW j \in 1 .. n
      PROVE  t[j] = IF j = n THEN e ELSE s[From(n, k)[j]]
  BY <1>1, <1>3, <1>4
<1>6. \A j, m \in 1 .. n : From(n, k)[j] = From(n, k)[m] => j = m
  BY <1>1, <1>4
<1>7. ASSUME NEW m \in 1 .. n PROVE \E j \in 1 .. n : From(n, k)[j] = m
  <2>1. CASE m < k
    BY <1>1, <1>4, <2>1
  <2>2. CASE m = k
    BY <1>1, <1>4, <2>2
  <2>3. CASE m > k
    <3>1. m - 1 \in 1 .. n /\ ~(m - 1 < k) /\ m - 1 < n /\ (m - 1) + 1 = m
      BY <1>1, <2>3
    <3> QED BY <1>4, <3>1
  <2> QED BY <1>1, <2>1, <2>2, <2>3
<1> QED BY <1>1, <1>2, <1>3, <1>4, <1>5, <1>6, <1>7 DEF n, r, t, Moved, Rearranged

(* InOrder names every element of a finite set of positions once, so that   *)
(* Kept has exactly the elements that are kept.                             *)
LEMMA InOrderFacts ==
  ASSUME NEW S \in SUBSET Nat, IsFiniteSet(S)
  PROVE  /\ Cardinality(S) \in Nat
         /\ InOrder(S) \in [1 .. Cardinality(S) -> S]
         /\ \A i \in S : \E n \in 1 .. Cardinality(S) : InOrder(S)[n] = i
<1> DEFINE N == Cardinality(S)
           upto(i) == {j \in S : j <= i}
           rank(i) == Cardinality(upto(i))
           ranks == {rank(i) : i \in S}
<1>1. N \in Nat
  BY FS_CardinalityType
<1>2. ASSUME NEW i \in S PROVE rank(i) \in 1 .. N /\ IsFiniteSet(upto(i))
  <2>1. upto(i) \subseteq S /\ i \in upto(i)
    OBVIOUS
  <2>2. IsFiniteSet(upto(i)) /\ rank(i) <= N
    BY <2>1, FS_Subset
  <2>3. rank(i) \in Nat /\ rank(i) # 0
    BY <2>1, <2>2, FS_CardinalityType, FS_EmptySet
  <2> QED BY <1>1, <2>2, <2>3
<1>3. ASSUME NEW i \in S, NEW j \in S, i < j PROVE rank(i) < rank(j)
  <2>1. upto(i) \subseteq upto(j) /\ j \in upto(j) /\ j \notin upto(i)
    <3>1. i \in Nat /\ j \in Nat
      OBVIOUS
    <3>2. ASSUME NEW m \in upto(i) PROVE m \in upto(j)
      <4>1. m \in S /\ m \in Nat /\ m <= i
        OBVIOUS
      <4> QED BY <1>3, <3>1, <4>1
    <3>3. j <= j /\ ~(j <= i)
      BY <1>3, <3>1
    <3> QED BY <3>2, <3>3
  <2>2. IsFiniteSet(upto(j)) /\ IsFiniteSet(upto(i))
    BY <1>2
  <2>3. rank(i) <= rank(j) /\ rank(i) \in Nat /\ rank(j) \in Nat
    BY <2>1, <2>2, FS_Subset, FS_CardinalityType
  <2>4. rank(i) = rank(j) => upto(i) = upto(j)
    BY <2>1, <2>2, FS_Subset
  <2> HIDE DEF upto, rank
  <2> QED BY <2>1, <2>3, <2>4
<1> HIDE DEF N, rank, upto
<1>4. \A i, j \in S : rank(i) = rank(j) => i = j
  <2>1. ASSUME NEW i \in S, NEW j \in S, rank(i) = rank(j) PROVE i = j
    <3>1. ~(rank(i) < rank(i))
      <4>1. rank(i) \in Int
        BY <1>1, <1>2
      <4> QED BY <4>1
    <3>2. ~(i < j) /\ ~(j < i)
      BY <1>3, <2>1, <3>1
    <3> QED BY <3>2
  <2> QED BY <2>1
<1>5. ranks = 1 .. N
  <2>1. ranks \subseteq 1 .. N
    BY <1>2
  <2>2. IsFiniteSet(1 .. N) /\ Cardinality(1 .. N) = N
    <3>1. Cardinality(1 .. N) = IF 1 > N THEN 0 ELSE N - 1 + 1
      BY <1>1, FS_Interval
    <3>2. IsFiniteSet(1 .. N)
      BY <1>1, FS_Interval
    <3> QED BY <1>1, <3>1, <3>2
  <2>3. IsFiniteSet(ranks)
    BY <2>1, <2>2, FS_Subset
  <2>4. Cardinality(ranks) = N
    <3> DEFINE f == [i \in S |-> rank(i)]
    <3>1. f \in Bijection(S, ranks)
      <4>1. f \in [S -> ranks]
        OBVIOUS
      <4>2. \A i, j \in S : f[i] = f[j] => i = j
        BY <1>4
      <4>3. \A n \in ranks : \E i \in S : f[i] = n
        OBVIOUS
      <4> HIDE DEF f, ranks
      <4> QED BY <4>1, <4>2, <4>3, Fun_IsBij
    <3>2. ExistsBijection(S, ranks)
      BY <3>1 DEF ExistsBijection
    <3> QED BY <3>2, FS_Bijection DEF N
  <2> HIDE DEF ranks
  <2> QED BY <2>1, <2>2, <2>3, <2>4, FS_Subset
<1>6. ASSUME NEW n \in 1 .. N
      PROVE  InOrder(S)[n] \in S /\ rank(InOrder(S)[n]) = n
  <2>1. InOrder(S)[n] = CHOOSE i \in S : rank(i) = n
    BY DEF InOrder, N, rank, upto
  <2>2. \E i \in S : rank(i) = n
    BY <1>5
  <2> QED BY <2>1, <2>2
<1>7. InOrder(S) \in [1 .. N -> S]
  BY <1>6 DEF InOrder, N
<1>8. ASSUME NEW i \in S PROVE \E n \in 1 .. N : InOrder(S)[n] = i
  <2>1. rank(i) \in 1 .. N
    BY <1>2
  <2>2. InOrder(S)[rank(i)] \in S /\ rank(InOrder(S)[rank(i)]) = rank(i)
    BY <1>6, <2>1
  <2> QED BY <1>4, <2>1, <2>2
<1> QED BY <1>1, <1>7, <1>8 DEF N

LEMMA KeptFacts ==
  ASSUME NEW T, NEW list \in Seq(T), NEW keep \in SUBSET DOMAIN list
  PROVE  /\ Kept(list, keep) \in Seq(T)
         /\ \A n \in DOMAIN Kept(list, keep) : \E i \in keep : Kept(list, keep)[n] = list[i]
         /\ \A i \in keep : \E n \in DOMAIN Kept(list, keep) : Kept(list, keep)[n] = list[i]
<1>1. DOMAIN list = 1 .. Len(list) /\ Len(list) \in Nat
  OBVIOUS
<1>2. keep \in SUBSET Nat /\ IsFiniteSet(keep)
  <2>1. IsFiniteSet(1 .. Len(list))
    BY <1>1, FS_Interval
  <2>2. keep \subseteq 1 .. Len(list)
    BY <1>1
  <2> QED BY <1>1, <2>1, <2>2, FS_Subset
<1>3. /\ Cardinality(keep) \in Nat
      /\ InOrder(keep) \in [1 .. Cardinality(keep) -> keep]
      /\ \A i \in keep : \E n \in 1 .. Cardinality(keep) : InOrder(keep)[n] = i
  BY <1>2, InOrderFacts
<1> DEFINE N == Cardinality(keep)
           p == InOrder(keep)
           t == Kept(list, keep)
<1>4. t = [n \in 1 .. N |-> list[p[n]]]
  BY DEF Kept
<1> HIDE DEF N, p, t
<1>5. /\ N \in Nat /\ p \in [1 .. N -> keep]
      /\ \A i \in keep : \E n \in 1 .. N : p[n] = i
  BY <1>3 DEF N, p
<1>6. ASSUME NEW n \in 1 .. N PROVE p[n] \in keep /\ list[p[n]] \in T
  BY <1>1, <1>5
<1>7. t \in Seq(T) /\ DOMAIN t = 1 .. N /\ \A n \in 1 .. N : t[n] = list[p[n]]
  BY <1>4, <1>5, <1>6
<1>8. \A n \in DOMAIN t : \E i \in keep : t[n] = list[i]
  BY <1>6, <1>7
<1>9. ASSUME NEW i \in keep PROVE \E n \in DOMAIN t : t[n] = list[i]
  <2>1. PICK n \in 1 .. N : p[n] = i
    BY <1>5
  <2>2. t[n] = list[i] /\ n \in DOMAIN t
    BY <1>7, <2>1
  <2> QED BY <2>2
<1> QED BY <1>7, <1>8, <1>9 DEF t

-----------------------------------------------------------------------------
(* The cache *)

DelayedRequest == [wait : 0 .. m_latency, req : Request]

(* A set keeps its size; its lines are at home in it, and have tags of      *)
(* their own.                                                               *)
SetSound(s, i) ==
  /\ s \in Seq(Line) /\ Len(s) <= m_associativity
  /\ \A j \in DOMAIN s : s[j].tag = get_tag(s[j].addr) /\ get_index(s[j].addr) = i
  /\ \A j, k \in DOMAIN s : s[j].tag = s[k].tag => j = k

(* The lines of set i whose data is not there are those the registers name. *)
InFlight(s, i, M) ==
  /\ \A j \in DOMAIN s : ~s[j].ready =>
       \E x \in M : get_index(x) = i /\ get_tag(x) = s[j].tag
  /\ \A x \in M : get_index(x) = i =>
       \E j \in DOMAIN s : s[j].tag = get_tag(x) /\ ~s[j].ready

Registers(M) ==
  /\ M \subseteq Addr /\ IsFiniteSet(M) /\ Cardinality(M) <= m_num_mshrs
  /\ \A x, y \in M : align(x) = align(y) => x = y

SetsInv(C, M) ==
  /\ C \in [Sets -> Seq(Line)]
  /\ \A i \in Sets : SetSound(C[i], i) /\ InFlight(C[i], i, M)
  /\ Registers(M)

(* A store to line a is in the set.                                         *)
DirtyLine(s, a) == \E j \in DOMAIN s : align(s[j].addr) = a /\ s[j].dirty

(* It is enough to look at the set that an access changes.                  *)
LEMMA OneSet ==
  ASSUME NEW C, NEW M, SetsInv(C, M), NEW i \in Sets, NEW s, NEW N,
         SetSound(s, i), InFlight(s, i, N), Registers(N),
         \A x : get_index(x) # i => (x \in N <=> x \in M)
  PROVE  SetsInv([C EXCEPT ![i] = s], N)
<1> DEFINE D == [C EXCEPT ![i] = s]
<1>1. C \in [Sets -> Seq(Line)] /\ s \in Seq(Line)
  BY DEF SetsInv, SetSound
<1>2. D \in [Sets -> Seq(Line)] /\ D[i] = s /\ \A k \in Sets : k # i => D[k] = C[k]
  BY <1>1
<1> HIDE DEF D
<1>3. ASSUME NEW k \in Sets, k # i PROVE SetSound(D[k], k) /\ InFlight(D[k], k, N)
  <2>1. SetSound(C[k], k) /\ InFlight(C[k], k, M) /\ D[k] = C[k]
    BY <1>2, <1>3 DEF SetsInv
  <2>2. \A x : get_index(x) = k => (x \in N <=> x \in M)
    BY <1>3
  <2>3. InFlight(C[k], k, N)
    BY <2>1, <2>2 DEF InFlight
  <2> QED BY <2>1, <2>3
<1>4. SetSound(D[i], i) /\ InFlight(D[i], i, N)
  BY <1>2
<1> QED BY <1>2, <1>3, <1>4 DEF SetsInv, D

(* A line that is used moves to the end of its set.                         *)
LEMMA HitSet ==
  ASSUME NEW i \in Sets, NEW s, NEW M, SetSound(s, i), InFlight(s, i, M),
         NEW k \in DOMAIN s, NEW l \in Line,
         l.tag = s[k].tag, l.ready = s[k].ready, get_index(l.addr) = i, l.tag = get_tag(l.addr)
  PROVE  /\ SetSound(Moved(s, k, l), i)
         /\ InFlight(Moved(s, k, l), i, M)
         /\ \A j \in DOMAIN s : j # k =>
              \E m \in DOMAIN Moved(s, k, l) : Moved(s, k, l)[m] = s[j]
         /\ \E m \in DOMAIN Moved(s, k, l) : Moved(s, k, l)[m] = l
<1>1. s \in Seq(Line) /\ (\A j, m \in DOMAIN s : s[j].tag = s[m].tag => j = m)
  BY DEF SetSound
<1>0. Moved(s, k, l) \in Seq(Line) /\ Rearranged(s, k, l, Moved(s, k, l), From(Len(s), k))
  BY <1>1, MovedFacts
<1> DEFINE t == Moved(s, k, l)
           f == From(Len(s), k)
<1>2. /\ t \in Seq(Line) /\ Len(t) = Len(s) /\ DOMAIN t = DOMAIN s /\ Len(s) \in DOMAIN s
      /\ \A j \in DOMAIN s : /\ f[j] \in DOMAIN s
                             /\ f[j] = k <=> j = Len(s)
                             /\ t[j] = IF j = Len(s) THEN l ELSE s[f[j]]
      /\ \A j, m \in DOMAIN s : f[j] = f[m] => j = m
      /\ \A m \in DOMAIN s : \E j \in DOMAIN s : f[j] = m
  BY <1>0 DEF Rearranged
<1> HIDE DEF t, f
<1>3. ASSUME NEW j \in DOMAIN s
      PROVE  t[j].tag = s[f[j]].tag /\ t[j].ready = s[f[j]].ready /\ f[j] \in DOMAIN s
             /\ get_index(t[j].addr) = i /\ t[j].tag = get_tag(t[j].addr)
  <2>1. CASE j = Len(s)
    BY <1>2, <2>1
  <2>2. CASE j # Len(s)
    <3>1. f[j] \in DOMAIN s /\ t[j] = s[f[j]]
      BY <1>2, <2>2
    <3> QED BY <3>1 DEF SetSound
  <2> QED BY <2>1, <2>2
<1>4. SetSound(t, i)
  <2>1. ASSUME NEW j \in DOMAIN s, NEW m \in DOMAIN s, t[j].tag = t[m].tag PROVE j = m
    <3>1. s[f[j]].tag = s[f[m]].tag
      BY <1>3, <2>1
    <3>2. f[j] = f[m]
      <4>1. f[j] \in DOMAIN s /\ f[m] \in DOMAIN s
        BY <1>2
      <4> QED BY <1>1, <3>1, <4>1
    <3> QED BY <1>2, <3>2
  <2>2. Len(s) <= m_associativity
    BY DEF SetSound
  <2> QED BY <1>2, <1>3, <2>1, <2>2 DEF SetSound
<1>5. InFlight(t, i, M)
  <2>1. ASSUME NEW j \in DOMAIN s, ~t[j].ready
        PROVE  \E x \in M : get_index(x) = i /\ get_tag(x) = t[j].tag
    BY <1>3, <2>1 DEF InFlight
  <2>2. ASSUME NEW x \in M, get_index(x) = i
        PROVE  \E j \in DOMAIN s : t[j].tag = get_tag(x) /\ ~t[j].ready
    <3>1. PICK m \in DOMAIN s : s[m].tag = get_tag(x) /\ ~s[m].ready
      BY <2>2 DEF InFlight
    <3>2. PICK j \in DOMAIN s : f[j] = m
      BY <1>2
    <3> QED BY <1>3, <3>1, <3>2
  <2> QED BY <1>2, <2>1, <2>2 DEF InFlight
<1>6. ASSUME NEW j \in DOMAIN s, j # k PROVE \E m \in DOMAIN t : t[m] = s[j]
  <2>1. PICK m \in DOMAIN s : f[m] = j
    BY <1>2
  <2> QED BY <1>2, <1>6, <2>1
<1>7. \E m \in DOMAIN t : t[m] = l
  BY <1>2
<1> QED BY <1>4, <1>5, <1>6, <1>7 DEF t

(* A new line takes the place of a ready one, or of none.                   *)
LEMMA EvictedSet ==
  ASSUME NEW i \in Sets, NEW s, NEW M, SetSound(s, i), InFlight(s, i, M),
         NEW k \in DOMAIN s, s[k].ready, NEW l \in Line, ~l.ready,
         get_index(l.addr) = i, l.tag = get_tag(l.addr), \A j \in DOMAIN s : s[j].tag # l.tag
  PROVE  /\ SetSound(Moved(s, k, l), i)
         /\ InFlight(Moved(s, k, l), i, M \cup {l.addr})
         /\ \A j \in DOMAIN s : j # k =>
              \E m \in DOMAIN Moved(s, k, l) : Moved(s, k, l)[m] = s[j]
         /\ \E m \in DOMAIN Moved(s, k, l) : Moved(s, k, l)[m] = l
<1>1. s \in Seq(Line) /\ (\A j, m \in DOMAIN s : s[j].tag = s[m].tag => j = m)
  BY DEF SetSound
<1>0. Moved(s, k, l) \in Seq(Line) /\ Rearranged(s, k, l, Moved(s, k, l), From(Len(s), k))
  BY <1>1, MovedFacts
<1> DEFINE t == Moved(s, k, l)
           f == From(Len(s), k)
<1>2. /\ t \in Seq(Line) /\ Len(t) = Len(s) /\ DOMAIN t = DOMAIN s /\ Len(s) \in DOMAIN s
      /\ \A j \in DOMAIN s : /\ f[j] \in DOMAIN s
                             /\ f[j] = k <=> j = Len(s)
                             /\ t[j] = IF j = Len(s) THEN l ELSE s[f[j]]
      /\ \A j, m \in DOMAIN s : f[j] = f[m] => j = m
      /\ \A m \in DOMAIN s : \E j \in DOMAIN s : f[j] = m
  BY <1>0 DEF Rearranged
<1> HIDE DEF t, f
<1>3. ASSUME NEW j \in DOMAIN s
      PROVE  /\ f[j] \in DOMAIN s
             /\ j = Len(s) => t[j] = l
             /\ j # Len(s) => t[j] = s[f[j]] /\ t[j].tag # l.tag /\ f[j] # k
             /\ get_index(t[j].addr) = i /\ t[j].tag = get_tag(t[j].addr)
  <2>1. CASE j = Len(s)
    BY <1>2, <2>1
  <2>2. CASE j # Len(s)
    <3>1. f[j] \in DOMAIN s /\ t[j] = s[f[j]] /\ f[j] # k
      BY <1>2, <2>2
    <3> QED BY <2>2, <3>1 DEF SetSound
  <2> QED BY <2>1, <2>2
<1>4. SetSound(t, i)
  <2>1. ASSUME NEW j \in DOMAIN s, NEW m \in DOMAIN s, t[j].tag = t[m].tag PROVE j = m
    <3>1. CASE j = Len(s) \/ m = Len(s)
      BY <1>3, <2>1, <3>1
    <3>2. CASE j # Len(s) /\ m # Len(s)
      <4>1. s[f[j]].tag = s[f[m]].tag /\ f[j] \in DOMAIN s /\ f[m] \in DOMAIN s
        BY <1>3, <2>1, <3>2
      <4>2. f[j] = f[m]
        BY <1>1, <4>1
      <4> QED BY <1>2, <4>2
    <3> QED BY <3>1, <3>2
  <2>2. Len(s) <= m_associativity
    BY DEF SetSound
  <2> QED BY <1>2, <1>3, <2>1, <2>2 DEF SetSound
<1>5. InFlight(t, i, M \cup {l.addr})
  <2>1. ASSUME NEW j \in DOMAIN s, ~t[j].ready
        PROVE  \E x \in M \cup {l.addr} : get_index(x) = i /\ get_tag(x) = t[j].tag
    <3>1. CASE j = Len(s)
      BY <1>3, <3>1
    <3>2. CASE j # Len(s)
      <4>1. t[j] = s[f[j]] /\ f[j] \in DOMAIN s
        BY <1>3, <3>2
      <4>2. \E x \in M : get_index(x) = i /\ get_tag(x) = s[f[j]].tag
        BY <2>1, <4>1 DEF InFlight
      <4> QED BY <4>1, <4>2
    <3> QED BY <3>1, <3>2
  <2>2. ASSUME NEW x \in M \cup {l.addr}, get_index(x) = i
        PROVE  \E j \in DOMAIN s : t[j].tag = get_tag(x) /\ ~t[j].ready
    <3>1. CASE x = l.addr
      BY <1>2, <1>3, <3>1
    <3>2. CASE x \in M
      <4>1. PICK m \in DOMAIN s : s[m].tag = get_tag(x) /\ ~s[m].ready
        BY <2>2, <3>2 DEF InFlight
      <4>2. PICK j \in DOMAIN s : f[j] = m
        BY <1>2
      <4>3. f[j] # k
        BY <4>1, <4>2
      <4>4. j # Len(s)
        BY <1>2, <4>3
      <4> QED BY <1>3, <4>1, <4>2, <4>4
    <3> QED BY <3>1, <3>2
  <2> QED BY <1>2, <2>1, <2>2 DEF InFlight
<1>6. ASSUME NEW j \in DOMAIN s, j # k PROVE \E m \in DOMAIN t : t[m] = s[j]
  <2>1. PICK m \in DOMAIN s : f[m] = j
    BY <1>2
  <2> QED BY <1>2, <1>6, <2>1
<1>7. \E m \in DOMAIN t : t[m] = l
  BY <1>2
<1> QED BY <1>4, <1>5, <1>6, <1>7 DEF t

LEMMA FilledSet ==
  ASSUME NEW i \in Sets, NEW s, NEW M, SetSound(s, i), InFlight(s, i, M), LLCAssumption,
         Len(s) < m_associativity, NEW l \in Line, ~l.ready,
         get_index(l.addr) = i, l.tag = get_tag(l.addr), \A j \in DOMAIN s : s[j].tag # l.tag
  PROVE  /\ SetSound(Append(s, l), i)
         /\ InFlight(Append(s, l), i, M \cup {l.addr})
         /\ \A j \in DOMAIN s : \E m \in DOMAIN Append(s, l) : Append(s, l)[m] = s[j]
         /\ \E m \in DOMAIN Append(s, l) : Append(s, l)[m] = l
<1>0. s \in Seq(Line) /\ m_associativity \in Nat
  BY DEF SetSound, LLCAssumption
<1>1. /\ Append(s, l) \in Seq(Line) /\ Len(s) \in Nat /\ DOMAIN s = 1 .. Len(s)
      /\ Len(Append(s, l)) = Len(s) + 1 /\ DOMAIN Append(s, l) = 1 .. (Len(s) + 1)
      /\ \A j \in 1 .. Len(s) : Append(s, l)[j] = s[j]
      /\ Append(s, l)[Len(s) + 1] = l
  BY <1>0, AppendFacts
<1> DEFINE t == Append(s, l)
           n == Len(s) + 1
<1>2. /\ t \in Seq(Line) /\ n \in Nat /\ DOMAIN s = 1 .. (n - 1) /\ Len(t) = n /\ DOMAIN t = 1 .. n
      /\ (\A j \in 1 .. (n - 1) : t[j] = s[j]) /\ t[n] = l
      /\ n \in DOMAIN t /\ n \notin DOMAIN s /\ (\A j \in DOMAIN t : j # n => j \in DOMAIN s)
      /\ n <= m_associativity /\ DOMAIN s \subseteq DOMAIN t
  BY <1>0, <1>1
<1> HIDE DEF t, n
<1>3. SetSound(t, i)
  <2>1. ASSUME NEW j \in DOMAIN t
        PROVE t[j].tag = get_tag(t[j].addr) /\ get_index(t[j].addr) = i
    BY <1>2 DEF SetSound
  <2>2. ASSUME NEW j \in DOMAIN t, NEW m \in DOMAIN t, t[j].tag = t[m].tag PROVE j = m
    BY <1>2, <2>2 DEF SetSound
  <2> QED BY <1>2, <2>1, <2>2 DEF SetSound
<1>4. InFlight(t, i, M \cup {l.addr})
  <2>1. ASSUME NEW j \in DOMAIN t, ~t[j].ready
        PROVE  \E x \in M \cup {l.addr} : get_index(x) = i /\ get_tag(x) = t[j].tag
    <3>1. CASE j = n
      BY <1>2, <3>1
    <3>2. CASE j # n
      <4>1. j \in DOMAIN s /\ t[j] = s[j]
        BY <1>2, <3>2
      <4> QED BY <2>1, <4>1 DEF InFlight
    <3> QED BY <3>1, <3>2
  <2>2. ASSUME NEW x \in M \cup {l.addr}, get_index(x) = i
        PROVE  \E j \in DOMAIN t : t[j].tag = get_tag(x) /\ ~t[j].ready
    <3>1. CASE x = l.addr
      BY <1>2, <3>1
    <3>2. CASE x \in M
      <4>1. PICK m \in DOMAIN s : s[m].tag = get_tag(x) /\ ~s[m].ready
        BY <2>2, <3>2 DEF InFlight
      <4>2. m \in DOMAIN t /\ t[m] = s[m]
        BY <1>2
      <4> QED BY <4>1, <4>2
    <3> QED BY <3>1, <3>2
  <2> QED BY <2>1, <2>2 DEF InFlight
<1>5. /\ \A j \in DOMAIN s : t[j] = s[j] /\ j \in DOMAIN t
      /\ n \in DOMAIN t /\ t[n] = l
  BY <1>2
<1>6. /\ \A j \in DOMAIN s : \E m \in DOMAIN t : t[m] = s[j]
      /\ \E m \in DOMAIN t : t[m] = l
  BY <1>5
<1> QED BY <1>3, <1>4, <1>6 DEF t

(* A set whose lines keep their place, and what becomes of the registers.   *)
LEMMA MappedSet ==
  ASSUME NEW i \in Sets, NEW s, NEW M, SetSound(s, i), InFlight(s, i, M),
         NEW t, t \in [DOMAIN s -> Line], NEW N,
         \A j \in DOMAIN s : t[j].tag = s[j].tag /\ t[j].addr = s[j].addr,
         \A j \in DOMAIN s : ~t[j].ready <=>
            ~s[j].ready /\ \E x \in N : get_index(x) = i /\ get_tag(x) = s[j].tag,
         N \subseteq M
  PROVE  SetSound(t, i) /\ InFlight(t, i, N)
<1>1. /\ s \in Seq(Line) /\ Len(s) <= m_associativity
      /\ \A j \in DOMAIN s : s[j].tag = get_tag(s[j].addr) /\ get_index(s[j].addr) = i
      /\ \A j, m \in DOMAIN s : s[j].tag = s[m].tag => j = m
  BY DEF SetSound
<1>2. t \in Seq(Line) /\ DOMAIN t = DOMAIN s /\ Len(t) = Len(s)
  <2>1. DOMAIN s = 1 .. Len(s) /\ Len(s) \in Nat
    BY <1>1
  <2>2. t \in [1 .. Len(s) -> Line]
    BY <2>1
  <2> QED BY <2>1, <2>2
<1>3. SetSound(t, i)
  BY <1>1, <1>2 DEF SetSound
<1>4. InFlight(t, i, N)
  <2>1. ASSUME NEW j \in DOMAIN t, ~t[j].ready
        PROVE  \E x \in N : get_index(x) = i /\ get_tag(x) = t[j].tag
    BY <1>2, <2>1
  <2>2. ASSUME NEW x \in N, get_index(x) = i
        PROVE  \E j \in DOMAIN t : t[j].tag = get_tag(x) /\ ~t[j].ready
    <3>1. PICK m \in DOMAIN s : s[m].tag = get_tag(x) /\ ~s[m].ready
      BY <2>2 DEF InFlight
    <3> QED BY <1>2, <2>2, <3>1
  <2> QED BY <2>1, <2>2 DEF InFlight
<1> QED BY <1>3, <1>4

-----------------------------------------------------------------------------
(* Lists, and what they hold *)

LEMMA ConcatSet ==
  ASSUME NEW T, NEW s \in Seq(T), NEW t \in Seq(T)
  PROVE  s \o t \in Seq(T) /\ ToSet(s \o t) = ToSet(s) \cup ToSet(t)
<1> DEFINE u == s \o t
           n == Len(s)
<1>1. /\ u \in Seq(T) /\ n \in Nat /\ Len(t) \in Nat /\ DOMAIN s = 1 .. n /\ DOMAIN t = 1 .. Len(t)
      /\ DOMAIN u = 1 .. (n + Len(t))
      /\ \A i \in 1 .. (n + Len(t)) : u[i] = IF i <= n THEN s[i] ELSE t[i - n]
  BY ConcatProperties
<1> HIDE DEF u, n
<1>2. ASSUME NEW i \in DOMAIN u PROVE u[i] \in ToSet(s) \cup ToSet(t)
  <2>1. CASE i <= n
    BY <1>1, <2>1 DEF ToSet
  <2>2. CASE ~(i <= n)
    <3>1. i - n \in DOMAIN t /\ u[i] = t[i - n]
      BY <1>1, <2>2
    <3> QED BY <3>1 DEF ToSet
  <2> QED BY <2>1, <2>2
<1>3. ASSUME NEW i \in DOMAIN s PROVE s[i] \in ToSet(u)
  BY <1>1 DEF ToSet
<1>4. ASSUME NEW i \in DOMAIN t PROVE t[i] \in ToSet(u)
  <2>1. i + n \in DOMAIN u /\ ~(i + n <= n) /\ (i + n) - n = i
    BY <1>1
  <2>2. u[i + n] = t[i]
    BY <1>1, <2>1
  <2> QED BY <2>1, <2>2 DEF ToSet
<1>5. ToSet(u) = ToSet(s) \cup ToSet(t)
  BY <1>2, <1>3, <1>4 DEF ToSet
<1> QED BY <1>1, <1>5 DEF u

LEMMA AppendSet ==
  ASSUME NEW T, NEW s \in Seq(T), NEW e \in T
  PROVE  Append(s, e) \in Seq(T) /\ ToSet(Append(s, e)) = ToSet(s) \cup {e}
<1>1. /\ Append(s, e) \in Seq(T)
      /\ Len(s) \in Nat /\ DOMAIN s = 1 .. Len(s)
      /\ DOMAIN Append(s, e) = 1 .. (Len(s) + 1)
      /\ \A j \in 1 .. Len(s) : Append(s, e)[j] = s[j]
      /\ Append(s, e)[Len(s) + 1] = e
  BY AppendFacts
<1> DEFINE t == Append(s, e)
<1> HIDE DEF t
<1>2. DOMAIN t = DOMAIN s \cup {Len(s) + 1} /\ (\A j \in DOMAIN s : t[j] = s[j]) /\ t[Len(s) + 1] = e
  BY <1>1 DEF t
<1>3. ToSet(t) = ToSet(s) \cup {e}
  BY <1>2 DEF ToSet
<1> QED BY <1>1, <1>3 DEF t

LEMMA RemoveSet ==
  ASSUME NEW T, NEW s \in Seq(T), NEW i \in DOMAIN s
  PROVE  /\ RemoveAt(s, i) \in Seq(T) /\ Len(s) \in Nat
         /\ Len(RemoveAt(s, i)) = Len(s) - 1
         /\ ToSet(RemoveAt(s, i)) \subseteq ToSet(s)
         /\ \A e \in ToSet(s) : e = s[i] \/ e \in ToSet(RemoveAt(s, i))
<1>1. /\ RemoveAt(s, i) \in Seq(T)
      /\ Len(s) \in Nat /\ i \in 1 .. Len(s)
      /\ Len(RemoveAt(s, i)) = Len(s) - 1
      /\ DOMAIN RemoveAt(s, i) = 1 .. (Len(s) - 1)
      /\ \A j \in 1 .. (Len(s) - 1) : RemoveAt(s, i)[j] = IF j < i THEN s[j] ELSE s[j + 1]
  BY RemoveFacts
<1>2. DOMAIN s = 1 .. Len(s)
  OBVIOUS
<1> DEFINE t == RemoveAt(s, i)
           n == Len(s)
<1> HIDE DEF t, n
<1>3. /\ n \in Nat /\ i \in 1 .. n /\ DOMAIN s = 1 .. n /\ DOMAIN t = 1 .. (n - 1)
      /\ \A j \in 1 .. (n - 1) : t[j] = IF j < i THEN s[j] ELSE s[j + 1]
  BY <1>1, <1>2 DEF t, n
<1>4. ASSUME NEW j \in DOMAIN t PROVE t[j] \in ToSet(s)
  <2>1. j \in DOMAIN s /\ j + 1 \in DOMAIN s /\ (t[j] = s[j] \/ t[j] = s[j + 1])
    BY <1>3
  <2> QED BY <2>1 DEF ToSet
<1>5. ASSUME NEW j \in DOMAIN s, j # i PROVE s[j] \in ToSet(t)
  <2>1. CASE j < i
    BY <1>3, <2>1 DEF ToSet
  <2>2. CASE j > i
    <3>1. j - 1 \in DOMAIN t /\ ~(j - 1 < i) /\ (j - 1) + 1 = j
      BY <1>3, <2>2
    <3>2. t[j - 1] = s[j]
      BY <1>3, <3>1
    <3> QED BY <3>1, <3>2 DEF ToSet
  <2> QED BY <1>3, <1>5, <2>1, <2>2
<1>6. ToSet(t) \subseteq ToSet(s)
  BY <1>4 DEF ToSet
<1>7. \A e \in ToSet(s) : e = s[i] \/ e \in ToSet(t)
  BY <1>5 DEF ToSet
<1> QED BY <1>1, <1>6, <1>7 DEF t

(* What a list of requests holds, whatever the cycles they wait.            *)
Requests(list) == {e.req : e \in ToSet(list)}

LEMMA AgedFacts ==
  ASSUME m_latency \in Nat, NEW list \in Seq(DelayedRequest)
  PROVE  /\ Aged(list) \in Seq(DelayedRequest) /\ DOMAIN Aged(list) = DOMAIN list
         /\ \A i \in DOMAIN list : Aged(list)[i].req = list[i].req
         /\ Requests(Aged(list)) = Requests(list)
<1> DEFINE t == Aged(list)
<1>1. DOMAIN t = DOMAIN list
  BY DEF Aged
<1>2. ASSUME NEW i \in DOMAIN list PROVE t[i] \in DelayedRequest /\ t[i].req = list[i].req
  <2>1. list[i] \in DelayedRequest
    OBVIOUS
  <2>2. t[i] = [list[i] EXCEPT !.wait = IF list[i].wait = 0 THEN 0 ELSE list[i].wait - 1]
    BY DEF Aged
  <2> QED BY <2>1, <2>2 DEF DelayedRequest
<1> HIDE DEF t
<1>3. t \in Seq(DelayedRequest)
  <2>1. DOMAIN list = 1 .. Len(list) /\ Len(list) \in Nat
    OBVIOUS
  <2>2. t \in [1 .. Len(list) -> DelayedRequest]
    <3>1. t = [i \in DOMAIN list |-> t[i]]
      BY <1>1 DEF t, Aged
    <3> QED BY <1>2, <2>1, <3>1
  <2> QED BY <2>1, <2>2
<1>4. Requests(t) = Requests(list)
  BY <1>1, <1>2 DEF Requests, ToSet
<1> QED BY <1>1, <1>2, <1>3, <1>4 DEF t

-----------------------------------------------------------------------------
(* send() *)

Dirty(C, a) == \E i \in Sets : DirtyLine(C[i], a)

LEMMA OneDirty ==
  ASSUME NEW C \in [Sets -> Seq(Line)], NEW i \in Sets, NEW s, NEW a,
         Dirty(C, a), DirtyLine(C[i], a) => DirtyLine(s, a)
  PROVE  Dirty([C EXCEPT ![i] = s], a)
<1> DEFINE D == [C EXCEPT ![i] = s]
<1>1. D[i] = s /\ \A k \in Sets : k # i => D[k] = C[k]
  OBVIOUS
<1> HIDE DEF D
<1>2. PICK k \in Sets : DirtyLine(C[k], a)
  BY DEF Dirty
<1>3. DirtyLine(D[k], a)
  BY <1>1, <1>2
<1> QED BY <1>3 DEF Dirty, D

LEMMA TheSet ==
  ASSUME NEW C \in [Sets -> Seq(Line)], NEW i \in Sets, NEW s, NEW a, DirtyLine(s, a)
  PROVE  Dirty([C EXCEPT ![i] = s], a)
<1>1. [C EXCEPT ![i] = s][i] = s
  OBVIOUS
<1> QED BY <1>1 DEF Dirty

(* The line a hit finds, and what the hit makes of it.                      *)
LEMMA TouchedLine ==
  ASSUME LLCAssumption, NEW q \in Request, NEW l \in Line,
         l.tag = get_tag(l.addr), get_index(l.addr) = get_index(q.addr), l.tag = get_tag(q.addr)
  PROVE  /\ Touched(l, q) \in Line
         /\ Touched(l, q).addr = q.addr /\ Touched(l, q).tag = l.tag
         /\ Touched(l, q).ready = l.ready
         /\ align(l.addr) = align(q.addr)
         /\ l.dirty \/ q.type = "Write" => Touched(l, q).dirty
<1>1. l.addr \in Addr /\ q.addr \in Addr /\ l.dirty \in BOOLEAN
  BY DEF Line, Request
<1>2. align(l.addr) = align(q.addr)
  BY <1>1, SameLine
<1> QED BY <1>1, <1>2 DEF Touched, Line

LEMMA SendHitFacts ==
  ASSUME LLCAssumption, SetsInv(m_cache_sets, m_mshrs), NEW q \in Request, SendHit(q)
  PROVE  /\ SetsInv(m_cache_sets', m_mshrs')
         /\ \A a : Dirty(m_cache_sets, a) => Dirty(m_cache_sets', a)
         /\ q.type = "Write" => Dirty(m_cache_sets', align(q.addr))
<1> DEFINE i == get_index(q.addr)
           s == m_cache_sets[i]
<1>1. q.addr \in Addr /\ i \in Sets
  BY SameLine DEF Request
<1>2. /\ m_cache_sets \in [Sets -> Seq(Line)] /\ Registers(m_mshrs)
      /\ SetSound(s, i) /\ InFlight(s, i, m_mshrs)
  BY <1>1 DEF SetsInv
<1>3. PICK k \in check_set_hit(s, q.addr) :
         /\ m_cache_sets' = [m_cache_sets EXCEPT ![i] = Append(RemoveAt(s, k), Touched(s[k], q))]
         /\ m_mshrs' = m_mshrs
  BY DEF SendHit, get_set
<1> HIDE DEF i, s
<1> DEFINE l == Touched(s[k], q)
           t == Moved(s, k, l)
<1>4. k \in DOMAIN s /\ s[k].tag = get_tag(q.addr)
  BY DEF check_set_hit, WithTag
<1>5. s \in Seq(Line) /\ s[k] \in Line /\ s[k].tag = get_tag(s[k].addr) /\ get_index(s[k].addr) = i
  BY <1>2, <1>4 DEF SetSound
<1>6. /\ l \in Line /\ l.addr = q.addr /\ l.tag = s[k].tag /\ l.ready = s[k].ready
      /\ align(s[k].addr) = align(q.addr) /\ (s[k].dirty \/ q.type = "Write" => l.dirty)
  BY <1>4, <1>5, TouchedLine DEF i
<1> HIDE DEF l
<1>7. /\ SetSound(t, i) /\ InFlight(t, i, m_mshrs)
      /\ \A j \in DOMAIN s : j # k => \E m \in DOMAIN t : t[m] = s[j]
      /\ \E m \in DOMAIN t : t[m] = l
  <2>1. get_index(l.addr) = i /\ l.tag = get_tag(l.addr)
    BY <1>4, <1>6 DEF i
  <2> QED BY <1>1, <1>2, <1>4, <1>6, <2>1, HitSet
<1>8. m_cache_sets' = [m_cache_sets EXCEPT ![i] = t]
  BY <1>3 DEF Moved, l
<1> HIDE DEF t
<1>9. SetsInv(m_cache_sets', m_mshrs')
  <2>1. SetsInv([m_cache_sets EXCEPT ![i] = t], m_mshrs)
    BY <1>1, <1>2, <1>7, OneSet
  <2> QED BY <1>3, <1>8, <2>1
<1>10. ASSUME NEW a, Dirty(m_cache_sets, a) PROVE Dirty(m_cache_sets', a)
  <2>1. ASSUME DirtyLine(s, a) PROVE DirtyLine(t, a)
    <3>1. PICK j \in DOMAIN s : align(s[j].addr) = a /\ s[j].dirty
      BY <2>1 DEF DirtyLine
    <3>2. CASE j = k
      BY <1>6, <1>7, <3>1, <3>2 DEF DirtyLine
    <3>3. CASE j # k
      BY <1>7, <3>1, <3>3 DEF DirtyLine
    <3> QED BY <3>2, <3>3
  <2> QED BY <1>1, <1>2, <1>8, <1>10, <2>1, OneDirty DEF s
<1>11. ASSUME q.type = "Write" PROVE Dirty(m_cache_sets', align(q.addr))
  <2>1. DirtyLine(t, align(q.addr))
    BY <1>6, <1>7, <1>11 DEF DirtyLine
  <2> QED BY <1>1, <1>2, <1>8, <2>1, TheSet
<1> QED BY <1>9, <1>10, <1>11

LEMMA SendMSHRHitFacts ==
  ASSUME LLCAssumption, SetsInv(m_cache_sets, m_mshrs), NEW q \in Request, SendMSHRHit(q)
  PROVE  /\ SetsInv(m_cache_sets', m_mshrs')
         /\ \A a : Dirty(m_cache_sets, a) => Dirty(m_cache_sets', a)
         /\ q.type = "Write" => Dirty(m_cache_sets', align(q.addr))
<1> DEFINE i == get_index(q.addr)
           s == m_cache_sets[i]
           t == [j \in DOMAIN s |->
                   IF j \in WithTag(s, q.addr)
                     THEN [s[j] EXCEPT !.dirty = @ \/ q.type = "Write"] ELSE s[j]]
<1>1. q.addr \in Addr /\ i \in Sets
  BY SameLine DEF Request
<1>2. /\ m_cache_sets \in [Sets -> Seq(Line)] /\ Registers(m_mshrs)
      /\ SetSound(s, i) /\ InFlight(s, i, m_mshrs)
  BY <1>1 DEF SetsInv
<1>3. m_cache_sets' = [m_cache_sets EXCEPT ![i] = t] /\ m_mshrs' = m_mshrs
  BY DEF SendMSHRHit, get_set
<1>4. PICK x \in m_mshrs : align(x) = align(q.addr)
  BY DEF SendMSHRHit, check_mshr_hit
<1>5. get_index(x) = i /\ get_tag(x) = get_tag(q.addr)
  <2>1. x \in Addr
    BY <1>2 DEF Registers
  <2> QED BY <1>1, <1>4, <2>1, SameLine
<1>6. DOMAIN t = DOMAIN s
  OBVIOUS
<1>7. ASSUME NEW j \in DOMAIN s
      PROVE  /\ t[j] \in Line /\ t[j].tag = s[j].tag /\ t[j].addr = s[j].addr
             /\ t[j].ready = s[j].ready /\ t[j].ready \in BOOLEAN /\ (s[j].dirty => t[j].dirty)
             /\ s[j].tag = get_tag(q.addr) /\ q.type = "Write" => t[j].dirty
  <2>1. s[j] \in Line
    BY <1>2 DEF SetSound
  <2>2. t[j] = IF s[j].tag = get_tag(q.addr)
                 THEN [s[j] EXCEPT !.dirty = s[j].dirty \/ q.type = "Write"] ELSE s[j]
    BY DEF WithTag
  <2> HIDE DEF t
  <2> QED BY <2>1, <2>2 DEF Line
<1>0. t \in [DOMAIN s -> Line]
  BY <1>6, <1>7
<1> HIDE DEF s, t
<1>8. SetSound(t, i) /\ InFlight(t, i, m_mshrs)
  <2>1. \A j \in DOMAIN s : t[j].tag = s[j].tag /\ t[j].addr = s[j].addr
    BY <1>7
  <2>2. \A j \in DOMAIN s : ~t[j].ready <=>
          ~s[j].ready /\ \E y \in m_mshrs : get_index(y) = i /\ get_tag(y) = s[j].tag
    BY <1>2, <1>7 DEF InFlight
  <2> QED BY <1>0, <1>1, <1>2, <2>1, <2>2, MappedSet
<1>9. SetsInv(m_cache_sets', m_mshrs')
  <2> HIDE DEF i
  <2>1. \A y : get_index(y) # i => (y \in m_mshrs' <=> y \in m_mshrs)
    BY <1>3
  <2> QED BY <1>1, <1>2, <1>3, <1>8, <2>1, OneSet
<1>10. ASSUME NEW a, Dirty(m_cache_sets, a) PROVE Dirty(m_cache_sets', a)
  <2>1. ASSUME DirtyLine(s, a) PROVE DirtyLine(t, a)
    BY <1>6, <1>7, <2>1 DEF DirtyLine
  <2> QED BY <1>1, <1>2, <1>3, <1>10, <2>1, OneDirty DEF s
<1>11. ASSUME q.type = "Write" PROVE Dirty(m_cache_sets', align(q.addr))
  <2>1. PICK j \in DOMAIN s : s[j].tag = get_tag(x) /\ ~s[j].ready
    BY <1>2, <1>4, <1>5 DEF InFlight
  <2>2. align(s[j].addr) = align(q.addr)
    <3>0. s[j] \in Line /\ s[j].tag = get_tag(s[j].addr) /\ get_index(s[j].addr) = i
      BY <1>2 DEF SetSound
    <3>1. s[j].addr \in Addr /\ s[j].tag = get_tag(s[j].addr) /\ get_index(s[j].addr) = i
      BY <3>0 DEF Line
    <3> QED BY <1>1, <1>5, <2>1, <3>1, SameLine
  <2>3. DirtyLine(t, align(q.addr))
    <3>1. j \in DOMAIN t /\ t[j].dirty /\ align(t[j].addr) = align(q.addr)
      BY <1>5, <1>6, <1>7, <1>11, <2>1, <2>2
    <3> QED BY <3>1 DEF DirtyLine
  <2> QED BY <1>1, <1>2, <1>3, <2>3, TheSet
<1> QED BY <1>9, <1>10, <1>11

(* A miss appends to the list: the write-back of a dirty victim, the read.  *)
LEMMA DelayedFacts ==
  ASSUME LLCAssumption, NEW q \in Request
  PROVE  /\ Delayed(q) \in DelayedRequest /\ Delayed(q).req = q
         /\ AsRead(q) \in Request /\ AsRead(q).addr = q.addr /\ AsRead(q).type = "Read"
         /\ AsRead(q).source = q.source
BY DEF LLCAssumption, Delayed, DelayedRequest, AsRead, Request

LEMMA EvictedLine ==
  ASSUME LLCAssumption, NEW l \in Line
  PROVE  /\ evict_line(l) \in Seq(DelayedRequest)
         /\ l.dirty => \E r \in Requests(evict_line(l)) : r.addr = l.addr /\ r.type = "Write"
<1> DEFINE r == [addr |-> l.addr, type |-> "Write", source |-> NoCore]
<1>1. r \in Request /\ r.addr = l.addr /\ r.type = "Write"
  BY DEF Request, Line
<1> HIDE DEF r
<1>2. Delayed(r) \in DelayedRequest /\ Delayed(r).req = r
  BY <1>1, DelayedFacts
<1>3. evict_line(l) = IF l.dirty THEN <<Delayed(r)>> ELSE <<>>
  BY DEF evict_line, r
<1>4. evict_line(l) \in Seq(DelayedRequest)
  <2> DEFINE d == Delayed(r)
  <2>1. d \in DelayedRequest
    BY <1>2
  <2> HIDE DEF d
  <2>2. <<d>> \in Seq(DelayedRequest) /\ <<>> \in Seq(DelayedRequest)
    BY <2>1
  <2> QED BY <1>3, <2>2 DEF d
<1>5. ASSUME l.dirty PROVE r \in Requests(evict_line(l))
  <2> DEFINE d == Delayed(r)
             u == <<d>>
  <2>1. evict_line(l) = u
    BY <1>3, <1>5
  <2>2. 1 \in DOMAIN u /\ u[1] = d
    OBVIOUS
  <2> HIDE DEF u
  <2>3. d \in ToSet(u)
    BY <2>2 DEF ToSet
  <2>4. d.req = r
    BY <1>2
  <2> HIDE DEF d
  <2> QED BY <2>1, <2>3, <2>4 DEF Requests
<1> QED BY <1>1, <1>4, <1>5

LEMMA ReadyVictim ==
  ASSUME NEW s \in Seq(Line), Ready(s) # {}
  PROVE  victim(s) \in DOMAIN s /\ s[victim(s)].ready
<1>1. Ready(s) \subseteq Nat
  <2>1. DOMAIN s = 1 .. Len(s)
    OBVIOUS
  <2> QED BY <2>1 DEF Ready
<1>2. Min(Ready(s)) \in Ready(s)
  BY <1>1, MinFacts
<1> QED BY <1>2 DEF victim, Ready

Written(R, a) == \E r \in R : align(r.addr) = a /\ r.type = "Write"

LEMMA MissList ==
  ASSUME LLCAssumption, m_miss_list \in Seq(DelayedRequest), NEW q \in Request,
         NEW e \in Seq(DelayedRequest), m_miss_list' = m_miss_list \o e \o <<Delayed(AsRead(q))>>
  PROVE  /\ m_miss_list' \in Seq(DelayedRequest)
         /\ Requests(m_miss_list') = Requests(m_miss_list) \cup Requests(e) \cup {AsRead(q)}
<1> DEFINE d == Delayed(AsRead(q))
           u == <<d>>
<1>1. d \in DelayedRequest /\ d.req = AsRead(q)
  BY DelayedFacts
<1>2. u \in Seq(DelayedRequest) /\ ToSet(u) = {d}
  <2> HIDE DEF d
  <2>1. u \in Seq(DelayedRequest) /\ DOMAIN u = {1} /\ u[1] = d
    BY <1>1
  <2> HIDE DEF u
  <2> QED BY <2>1 DEF ToSet
<1> HIDE DEF u, d
<1>3. m_miss_list \o e \in Seq(DelayedRequest) /\ ToSet(m_miss_list \o e) = ToSet(m_miss_list) \cup ToSet(e)
  BY ConcatSet
<1>4. /\ m_miss_list' \in Seq(DelayedRequest)
      /\ ToSet(m_miss_list') = ToSet(m_miss_list) \cup ToSet(e) \cup {d}
  <2> DEFINE v == m_miss_list \o e
  <2>1. v \in Seq(DelayedRequest) /\ m_miss_list' = v \o u
    BY <1>3 DEF u, d
  <2>2. ToSet(v) = ToSet(m_miss_list) \cup ToSet(e)
    BY <1>3
  <2> HIDE DEF v
  <2>3. v \o u \in Seq(DelayedRequest) /\ ToSet(v \o u) = ToSet(v) \cup ToSet(u)
    BY <1>2, <2>1, ConcatSet
  <2> QED BY <1>2, <2>1, <2>2, <2>3
<1> QED BY <1>1, <1>4 DEF Requests

LEMMA NewRegister ==
  ASSUME LLCAssumption, NEW M, Registers(M), NEW a \in Addr, \A x \in M : align(x) # align(a),
         Cardinality(M) # m_num_mshrs
  PROVE  Registers(M \cup {a})
<1>1. a \notin M /\ IsFiniteSet(M) /\ Cardinality(M) <= m_num_mshrs /\ m_num_mshrs \in Nat
  BY DEF Registers, LLCAssumption
<1>2. /\ IsFiniteSet(M \cup {a}) /\ Cardinality(M) \in Nat
      /\ Cardinality(M \cup {a}) = Cardinality(M) + 1
  BY <1>1, FS_AddElement, FS_CardinalityType
<1>3. Cardinality(M \cup {a}) <= m_num_mshrs
  BY <1>1, <1>2
<1>4. ASSUME NEW x \in M \cup {a}, NEW y \in M \cup {a}, align(x) = align(y) PROVE x = y
  BY <1>4 DEF Registers
<1>5. M \cup {a} \subseteq Addr
  BY DEF Registers
<1> QED BY <1>2, <1>3, <1>4, <1>5 DEF Registers

(* A miss finds no line of its tag: a ready one would have been a hit, one  *)
(* in flight would have had a register.                                     *)
LEMMA NoSuchLine ==
  ASSUME LLCAssumption, SetsInv(m_cache_sets, m_mshrs), NEW q \in Request,
         check_set_hit(get_set(q.addr), q.addr) = {}, check_mshr_hit(q.addr) = {}
  PROVE  \A j \in DOMAIN get_set(q.addr) : get_set(q.addr)[j].tag # get_tag(q.addr)
<1> DEFINE i == get_index(q.addr)
           s == m_cache_sets[i]
<1>1. q.addr \in Addr /\ i \in Sets /\ get_set(q.addr) = s
  BY SameLine DEF Request, get_set
<1>2. InFlight(s, i, m_mshrs) /\ m_mshrs \subseteq Addr
  BY <1>1 DEF SetsInv, Registers
<1> SUFFICES ASSUME NEW j \in DOMAIN s, s[j].tag = get_tag(q.addr) PROVE FALSE
  BY <1>1
<1>3. ~s[j].ready
  BY <1>1 DEF check_set_hit, WithTag
<1>4. PICK x \in m_mshrs : get_index(x) = i /\ get_tag(x) = s[j].tag
  BY <1>2, <1>3 DEF InFlight
<1>5. align(x) = align(q.addr)
  BY <1>1, <1>2, <1>4, SameLine
<1> QED BY <1>5 DEF check_mshr_hit

LEMMA SendMissFacts ==
  ASSUME LLCAssumption, SetsInv(m_cache_sets, m_mshrs), m_miss_list \in Seq(DelayedRequest),
         NEW q \in Request, Accepts(q.addr), SendMiss(q)
  PROVE  /\ SetsInv(m_cache_sets', m_mshrs')
         /\ m_miss_list' \in Seq(DelayedRequest)
         /\ Requests(m_miss_list) \cup {AsRead(q)} \subseteq Requests(m_miss_list')
         /\ \A a : Dirty(m_cache_sets, a) =>
              Dirty(m_cache_sets', a) \/ Written(Requests(m_miss_list'), a)
         /\ q.type = "Write" => Dirty(m_cache_sets', align(q.addr))
<1> DEFINE i == get_index(q.addr)
           s == m_cache_sets[i]
           k == victim(s)
           l == NewLine(q)
           t == allocate_line(s, q)
           e == IF need_eviction(s) THEN evict_line(s[k]) ELSE <<>>
           M == m_mshrs \cup {q.addr}
<1>1. q.addr \in Addr /\ i \in Sets /\ get_set(q.addr) = s
  BY SameLine DEF Request, get_set
<1>2. /\ m_cache_sets \in [Sets -> Seq(Line)] /\ Registers(m_mshrs)
      /\ SetSound(s, i) /\ InFlight(s, i, m_mshrs) /\ s \in Seq(Line)
  BY <1>1 DEF SetsInv, SetSound
<1>3. /\ check_set_hit(s, q.addr) = {} /\ check_mshr_hit(q.addr) = {}
      /\ m_cache_sets' = [m_cache_sets EXCEPT ![i] = t] /\ m_mshrs' = M
      /\ m_miss_list' = m_miss_list \o e \o <<Delayed(AsRead(q))>>
  BY DEF SendMiss, get_set
<1>4. \A j \in DOMAIN s : s[j].tag # get_tag(q.addr)
  BY <1>1, <1>3, NoSuchLine
<1>5. Registers(M) /\ LineAvailable(s)
  <2>1. Cardinality(m_mshrs) # m_num_mshrs /\ LineAvailable(s)
    BY <1>1, <1>3 DEF Accepts
  <2>2. \A x \in m_mshrs : align(x) # align(q.addr)
    BY <1>3 DEF check_mshr_hit
  <2> QED BY <1>1, <1>2, <2>1, <2>2, NewRegister
<1>6. /\ l \in Line /\ ~l.ready /\ l.addr = q.addr /\ l.tag = get_tag(l.addr) /\ get_index(l.addr) = i
      /\ (q.type = "Write" => l.dirty)
  BY <1>1, SameLine DEF NewLine, Line
<1>7. \A j \in DOMAIN s : s[j].tag # l.tag
  BY <1>4, <1>6
<1>8. need_eviction(s) => k \in DOMAIN s /\ s[k].ready /\ s[k] \in Line
  <2>1. ASSUME need_eviction(s) PROVE Ready(s) # {}
    <3>1. Len(s) \in Nat /\ m_associativity \in Nat
      BY <1>2 DEF LLCAssumption
    <3> QED BY <1>5, <2>1, <3>1 DEF need_eviction, LineAvailable
  <2> QED BY <1>2, <2>1, ReadyVictim
<1>9. ~need_eviction(s) => Len(s) < m_associativity
  <2>1. Len(s) \in Nat /\ m_associativity \in Nat
    BY <1>2 DEF LLCAssumption
  <2> QED BY <2>1 DEF need_eviction
<1>10. t = IF need_eviction(s) THEN Moved(s, k, l) ELSE Append(s, l)
  BY DEF allocate_line, Moved
<1>11. /\ SetSound(t, i) /\ InFlight(t, i, M)
       /\ \A j \in DOMAIN s :
            (\E m \in DOMAIN t : t[m] = s[j]) \/ (need_eviction(s) /\ j = k)
       /\ \E m \in DOMAIN t : t[m] = l
  <2> HIDE DEF i, s, k, l, t
  <2>1. CASE need_eviction(s)
    <3>1. k \in DOMAIN s /\ s[k].ready
      BY <1>8, <2>1
    <3> DEFINE u == Moved(s, k, l)
    <3>2. /\ SetSound(u, i) /\ InFlight(u, i, m_mshrs \cup {l.addr})
          /\ \A j \in DOMAIN s : j # k => \E m \in DOMAIN u : u[m] = s[j]
          /\ \E m \in DOMAIN u : u[m] = l
      <4>1. /\ i \in Sets /\ SetSound(s, i) /\ InFlight(s, i, m_mshrs)
            /\ l \in Line /\ ~l.ready /\ l.tag = get_tag(l.addr) /\ get_index(l.addr) = i
        BY <1>1, <1>2, <1>6
      <4> QED BY ONLY <1>7, <3>1, <4>1, EvictedSet
    <3> HIDE DEF u
    <3>3. t = u
      BY <1>10, <2>1 DEF u
    <3> QED BY <1>6, <2>1, <3>2, <3>3
  <2>2. CASE ~need_eviction(s)
    <3>1. /\ SetSound(Append(s, l), i)
          /\ InFlight(Append(s, l), i, m_mshrs \cup {l.addr})
          /\ \A j \in DOMAIN s : \E m \in DOMAIN Append(s, l) : Append(s, l)[m] = s[j]
          /\ \E m \in DOMAIN Append(s, l) : Append(s, l)[m] = l
      <4>1. /\ i \in Sets /\ SetSound(s, i) /\ InFlight(s, i, m_mshrs) /\ Registers(m_mshrs)
            /\ l \in Line /\ ~l.ready /\ l.tag = get_tag(l.addr) /\ get_index(l.addr) = i
        BY <1>1, <1>2, <1>6
      <4> QED BY <1>7, <1>9, <2>2, <4>1, FilledSet
    <3> QED BY <1>6, <1>10, <2>2, <3>1
  <2> QED BY <2>1, <2>2
<1>12. /\ e \in Seq(DelayedRequest)
       /\ need_eviction(s) /\ s[k].dirty => Written(Requests(e), align(s[k].addr))
  <2>1. CASE need_eviction(s)
    <3>1. e = evict_line(s[k]) /\ s[k] \in Line
      BY <1>8, <2>1
    <3> HIDE DEF e, s, k
    <3> QED BY <3>1, EvictedLine DEF Written
  <2>2. CASE ~need_eviction(s)
    BY <2>2
  <2> QED BY <2>1, <2>2
<1> HIDE DEF e
<1>13. /\ m_miss_list' \in Seq(DelayedRequest)
       /\ Requests(m_miss_list') = Requests(m_miss_list) \cup Requests(e) \cup {AsRead(q)}
  BY <1>3, <1>12, MissList
<1> HIDE DEF i, s, k, l, t
<1>14. SetsInv(m_cache_sets', m_mshrs')
  <2>1. \A x : get_index(x) # i => (x \in M <=> x \in m_mshrs)
    BY DEF i
  <2> HIDE DEF M
  <2> QED BY <1>1, <1>3, <1>5, <1>11, <2>1, OneSet
<1>15. ASSUME NEW a, Dirty(m_cache_sets, a)
       PROVE  Dirty(m_cache_sets', a) \/ Written(Requests(m_miss_list'), a)
  <2>1. CASE need_eviction(s) /\ s[k].dirty /\ align(s[k].addr) = a
    BY <1>12, <1>13, <2>1 DEF Written
  <2>2. CASE ~(need_eviction(s) /\ s[k].dirty /\ align(s[k].addr) = a)
    <3>1. ASSUME DirtyLine(s, a) PROVE DirtyLine(t, a)
      <4>1. PICK j \in DOMAIN s : align(s[j].addr) = a /\ s[j].dirty
        BY <3>1 DEF DirtyLine
      <4>2. \E m \in DOMAIN t : t[m] = s[j]
        BY <1>11, <2>2, <4>1
      <4> QED BY <4>1, <4>2 DEF DirtyLine
    <3>2. Dirty([m_cache_sets EXCEPT ![i] = t], a)
      BY <1>1, <1>2, <1>15, <3>1, OneDirty DEF s
    <3> QED BY <1>3, <3>2
  <2> QED BY <2>1, <2>2
<1>16. ASSUME q.type = "Write" PROVE Dirty(m_cache_sets', align(q.addr))
  <2>1. DirtyLine(t, align(q.addr))
    BY <1>6, <1>11, <1>16 DEF DirtyLine
  <2> QED BY <1>1, <1>2, <1>3, <2>1, TheSet
<1> QED BY <1>13, <1>14, <1>15, <1>16

(* Everything that is invariant of the cache.                               *)
CacheInv ==
  /\ SetsInv(m_cache_sets, m_mshrs)
  /\ m_receive_requests \in [Addr -> SUBSET Request]
  /\ m_miss_list \in Seq(DelayedRequest)
  /\ m_hit_list \in Seq(DelayedRequest)

(* A line with a store is dirty, or its write-back waits for the memory.    *)
Saved(a) == Dirty(m_cache_sets, a) \/ Written(Requests(m_miss_list), a)

LEMMA SendFacts ==
  ASSUME LLCAssumption, CacheInv, NEW q \in Request, send(q)
  PROVE  /\ CacheInv'
         /\ \A a : Saved(a) => Saved(a)'
         /\ q.type = "Write" => Saved(align(q.addr))'
<1>1. /\ SetsInv(m_cache_sets, m_mshrs) /\ m_receive_requests \in [Addr -> SUBSET Request]
      /\ m_miss_list \in Seq(DelayedRequest) /\ m_hit_list \in Seq(DelayedRequest)
  BY DEF CacheInv
<1>2. Delayed(q) \in DelayedRequest /\ AsRead(q) \in Request /\ q.addr \in Addr
  BY DelayedFacts DEF Request
<1>3. CASE SendHit(q)
  <2>1. /\ SetsInv(m_cache_sets', m_mshrs')
        /\ \A a : Dirty(m_cache_sets, a) => Dirty(m_cache_sets', a)
        /\ q.type = "Write" => Dirty(m_cache_sets', align(q.addr))
    BY <1>1, <1>3, SendHitFacts
  <2>2. /\ m_hit_list' = Append(m_hit_list, Delayed(q))
        /\ m_receive_requests' = m_receive_requests /\ m_miss_list' = m_miss_list
    BY <1>3 DEF SendHit
  <2>3. m_hit_list' \in Seq(DelayedRequest)
    <3>1. Append(m_hit_list, Delayed(q)) \in Seq(DelayedRequest)
      BY <1>1, <1>2, AppendFacts
    <3> QED BY <2>2, <3>1
  <2> QED BY <1>1, <2>1, <2>2, <2>3 DEF CacheInv, Saved
<1>4. CASE SendMSHRHit(q)
  <2>1. /\ SetsInv(m_cache_sets', m_mshrs')
        /\ \A a : Dirty(m_cache_sets, a) => Dirty(m_cache_sets', a)
        /\ q.type = "Write" => Dirty(m_cache_sets', align(q.addr))
    BY <1>1, <1>4, SendMSHRHitFacts
  <2>2. m_hit_list' = m_hit_list /\ m_miss_list' = m_miss_list
    BY <1>4 DEF SendMSHRHit
  <2>3. m_receive_requests' \in [Addr -> SUBSET Request]
    <3>1. PICK x \in check_mshr_hit(q.addr) :
            m_receive_requests' = [m_receive_requests EXCEPT ![x] = @ \cup {AsRead(q)}]
      BY <1>4 DEF SendMSHRHit
    <3>2. x \in Addr
      BY <1>1 DEF check_mshr_hit, SetsInv, Registers
    <3> QED BY <1>1, <1>2, <3>1, <3>2
  <2> QED BY <1>1, <2>1, <2>2, <2>3 DEF CacheInv, Saved
<1>5. CASE SendMiss(q)
  <2>0. Accepts(q.addr)
    BY DEF send
  <2>1. /\ SetsInv(m_cache_sets', m_mshrs')
        /\ m_miss_list' \in Seq(DelayedRequest)
        /\ Requests(m_miss_list) \cup {AsRead(q)} \subseteq Requests(m_miss_list')
        /\ \A a : Dirty(m_cache_sets, a) =>
             Dirty(m_cache_sets', a) \/ Written(Requests(m_miss_list'), a)
        /\ q.type = "Write" => Dirty(m_cache_sets', align(q.addr))
    BY <1>1, <1>5, <2>0, SendMissFacts
  <2>2. /\ m_hit_list' = m_hit_list
        /\ m_receive_requests' = [m_receive_requests EXCEPT ![q.addr] = {AsRead(q)}]
    BY <1>5 DEF SendMiss
  <2>3. m_receive_requests' \in [Addr -> SUBSET Request]
    BY <1>1, <1>2, <2>2
  <2>4. \A a : Written(Requests(m_miss_list), a) => Written(Requests(m_miss_list'), a)
    BY <2>1 DEF Written
  <2> QED BY <1>1, <2>1, <2>2, <2>3, <2>4 DEF CacheInv, Saved
<1> QED BY <1>3, <1>4, <1>5 DEF send

-----------------------------------------------------------------------------
(* receive() *)

LEMMA ReceiveFacts ==
  ASSUME LLCAssumption, SetsInv(m_cache_sets, m_mshrs), NEW a \in Addr, receive(a)
  PROVE  /\ SetsInv(m_cache_sets', m_mshrs')
         /\ \A b : Dirty(m_cache_sets, b) => Dirty(m_cache_sets', b)
<1> DEFINE i == get_index(a)
           s == m_cache_sets[i]
           t == [j \in DOMAIN s |->
                   IF j \in WithTag(s, a) THEN [s[j] EXCEPT !.ready = TRUE] ELSE s[j]]
           N == m_mshrs \ check_mshr_hit(a)
<1>1. i \in Sets
  BY SameLine
<1>2. /\ m_cache_sets \in [Sets -> Seq(Line)] /\ Registers(m_mshrs)
      /\ SetSound(s, i) /\ InFlight(s, i, m_mshrs)
  BY <1>1 DEF SetsInv
<1>3. /\ m_mshrs' = N
      /\ m_cache_sets' = IF check_mshr_hit(a) = {} THEN m_cache_sets
                         ELSE [m_cache_sets EXCEPT ![i] = t]
  <2>1. m_cache_sets' = IF check_mshr_hit(a) = {} THEN m_cache_sets ELSE
           [m_cache_sets EXCEPT ![get_index(a)] =
              [j \in DOMAIN m_cache_sets[get_index(a)] |->
                 IF j \in WithTag(m_cache_sets[get_index(a)], a)
                   THEN [m_cache_sets[get_index(a)][j] EXCEPT !.ready = TRUE]
                   ELSE m_cache_sets[get_index(a)][j]]]
    BY DEF receive
  <2> QED BY <2>1 DEF receive
<1>4. CASE check_mshr_hit(a) = {}
  <2>1. m_cache_sets' = m_cache_sets /\ m_mshrs' = m_mshrs
    BY <1>3, <1>4
  <2> QED BY <2>1
<1>5. CASE check_mshr_hit(a) # {}
  <2>1. m_cache_sets' = [m_cache_sets EXCEPT ![i] = t]
    BY <1>3, <1>5
  <2>2. DOMAIN t = DOMAIN s
    OBVIOUS
  <2>3. ASSUME NEW j \in DOMAIN s
        PROVE  /\ t[j] \in Line /\ t[j].tag = s[j].tag /\ t[j].addr = s[j].addr
               /\ t[j].dirty = s[j].dirty
               /\ t[j].ready = (s[j].ready \/ s[j].tag = get_tag(a))
    <3>1. s[j] \in Line
      BY <1>2 DEF SetSound
    <3>2. t[j] = IF s[j].tag = get_tag(a) THEN [s[j] EXCEPT !.ready = TRUE] ELSE s[j]
      BY DEF WithTag
    <3> HIDE DEF t
    <3> QED BY <3>1, <3>2 DEF Line
  <2>4. t \in [DOMAIN s -> Line]
    BY <2>2, <2>3
  <2>5. ASSUME NEW x \in m_mshrs, get_index(x) = i
        PROVE  x \in N <=> get_tag(x) # get_tag(a)
    <3>1. x \in Addr
      BY <1>2 DEF Registers
    <3> QED BY <2>5, <3>1, SameLine DEF check_mshr_hit
  <2>6. ASSUME NEW x, get_index(x) # i PROVE x \in N <=> x \in m_mshrs
    <3>1. ASSUME x \in m_mshrs PROVE align(x) # align(a)
      <4>1. x \in Addr
        BY <1>2, <3>1 DEF Registers
      <4> QED BY <2>6, <4>1, SameLine
    <3> QED BY <3>1 DEF check_mshr_hit
  <2>7. Registers(N)
    <3>1. N \subseteq m_mshrs
      OBVIOUS
    <3>2. IsFiniteSet(m_mshrs) /\ Cardinality(m_mshrs) \in Nat
      BY <1>2, FS_CardinalityType DEF Registers
    <3>3. IsFiniteSet(N) /\ Cardinality(N) \in Nat /\ Cardinality(N) <= Cardinality(m_mshrs)
      BY <3>1, <3>2, FS_Subset, FS_CardinalityType
    <3>4. Cardinality(m_mshrs) <= m_num_mshrs /\ m_num_mshrs \in Nat
      BY <1>2 DEF Registers, LLCAssumption
    <3>5. Cardinality(N) <= m_num_mshrs
      BY <3>2, <3>3, <3>4
    <3> QED BY <1>2, <3>1, <3>3, <3>5 DEF Registers
  <2> HIDE DEF t, N, s
  <2>8. SetSound(t, i) /\ InFlight(t, i, N)
    <3>1. N \subseteq m_mshrs
      BY DEF N
    <3>2. \A j \in DOMAIN s : t[j].tag = s[j].tag /\ t[j].addr = s[j].addr
      BY <2>3
    <3>3. ASSUME NEW j \in DOMAIN s
          PROVE  ~t[j].ready <=>
                   ~s[j].ready /\ \E x \in N : get_index(x) = i /\ get_tag(x) = s[j].tag
      <4>1. ~t[j].ready <=> ~s[j].ready /\ s[j].tag # get_tag(a)
        BY <2>3
      <4>2. ASSUME ~s[j].ready, s[j].tag # get_tag(a)
            PROVE  \E x \in N : get_index(x) = i /\ get_tag(x) = s[j].tag
        <5>1. PICK x \in m_mshrs : get_index(x) = i /\ get_tag(x) = s[j].tag
          BY <1>2, <4>2 DEF InFlight
        <5> QED BY <2>5, <4>2, <5>1
      <4>3. ASSUME NEW x \in N, get_index(x) = i, get_tag(x) = s[j].tag
            PROVE  s[j].tag # get_tag(a)
        BY <2>5, <3>1, <4>3
      <4> QED BY <4>1, <4>2, <4>3
    <3> QED BY <1>1, <1>2, <2>4, <3>1, <3>2, <3>3, MappedSet
  <2>9. SetsInv(m_cache_sets', m_mshrs')
    <3> HIDE DEF i
    <3> QED BY <1>1, <1>3, <2>1, <2>6, <2>7, <2>8, OneSet
  <2>10. ASSUME NEW b, Dirty(m_cache_sets, b) PROVE Dirty(m_cache_sets', b)
    <3>1. ASSUME DirtyLine(s, b) PROVE DirtyLine(t, b)
      BY <2>2, <2>3, <3>1 DEF DirtyLine
    <3> QED BY <1>1, <1>2, <2>1, <2>10, <3>1, OneDirty DEF s
  <2> QED BY <2>9, <2>10
<1> QED BY <1>4, <1>5

-----------------------------------------------------------------------------
(* The memory takes matured misses, as many as it has room for.             *)

MemoryInv == memory \in Seq(Request) /\ Len(memory) <= MemCapacity

LEMMA TickMissesFacts ==
  ASSUME LLCAssumption, SimpleO3Assumption, CacheInv, MemoryInv, TickMisses
  PROVE  /\ m_miss_list' \in Seq(DelayedRequest) /\ m_hit_list' \in Seq(DelayedRequest)
         /\ Requests(m_hit_list') = Requests(m_hit_list)
         /\ MemoryInv'
         /\ \E S : /\ \A r \in Requests(m_miss_list) : r \in Requests(m_miss_list') \/ r \in S
                   /\ ToSet(memory') = ToSet(memory) \cup S
                   /\ unsaved' = unsaved \ {align(r.addr) : r \in {x \in S : x.type = "Write"}}
<1> DEFINE aged == Aged(m_miss_list)
           due == Matured(aged)
           room == MemCapacity - Len(memory)
           n == IF Cardinality(due) <= room THEN Cardinality(due) ELSE room
<1>1. PICK taken \in SUBSET due :
        /\ Cardinality(taken) = n
        /\ memory' = memory \o [i \in 1 .. n |-> aged[InOrder(taken)[i]].req]
        /\ m_miss_list' = Left(aged, taken)
        /\ unsaved' = unsaved \ {align(aged[i].req.addr) :
                         i \in {j \in taken : aged[j].req.type = "Write"}}
        /\ m_hit_list' = Aged(m_hit_list)
  BY DEF TickMisses
<1> DEFINE sent == InOrder(taken)
           went == [i \in 1 .. n |-> aged[sent[i]].req]
           S == {aged[i].req : i \in taken}
<1>2. m_latency \in Nat /\ MemCapacity \in Nat
  BY DEF LLCAssumption, SimpleO3Assumption
<1>3. m_hit_list' \in Seq(DelayedRequest) /\ Requests(m_hit_list') = Requests(m_hit_list)
  BY <1>1, <1>2, AgedFacts DEF CacheInv
<1>4. /\ aged \in Seq(DelayedRequest) /\ DOMAIN aged = DOMAIN m_miss_list
      /\ Requests(aged) = Requests(m_miss_list)
  BY <1>2, AgedFacts DEF CacheInv
<1> HIDE DEF aged
<1>5. DOMAIN aged = 1 .. Len(aged) /\ Len(aged) \in Nat
  BY <1>4
<1>6. due \subseteq DOMAIN aged /\ IsFiniteSet(due)
  <2>1. due \subseteq 1 .. Len(aged)
    BY <1>5 DEF Matured
  <2>2. IsFiniteSet(1 .. Len(aged))
    BY <1>5, FS_Interval
  <2> QED BY <1>5, <2>1, <2>2, FS_Subset
<1>7. Cardinality(due) \in Nat
  BY <1>6, FS_CardinalityType
<1> HIDE DEF due
<1>8. room \in Nat
  BY <1>2 DEF MemoryInv
<1> HIDE DEF room
<1>9. n \in Nat /\ n <= room
  BY <1>7, <1>8
<1> HIDE DEF n
<1>10. taken \subseteq DOMAIN aged /\ IsFiniteSet(taken) /\ taken \in SUBSET Nat
  BY <1>1, <1>5, <1>6, FS_Subset
<1>11. sent \in [1 .. n -> taken] /\ \A i \in taken : \E k \in 1 .. n : sent[k] = i
  BY <1>1, <1>10, InOrderFacts
<1>12. memory' = memory \o went
  BY <1>1
<1> HIDE DEF sent
<1>13. \A i \in 1 .. n : sent[i] \in DOMAIN aged
  BY <1>10, <1>11
<1>14. ASSUME NEW i \in DOMAIN aged PROVE aged[i].req \in Request
  <2>1. aged[i] \in DelayedRequest
    BY <1>4
  <2> QED BY <2>1 DEF DelayedRequest
<1>15. went \in Seq(Request) /\ Len(went) = n /\ ToSet(went) = S
  <2>1. \A i \in 1 .. n : aged[sent[i]].req \in Request
    BY <1>13, <1>14
  <2>2. went \in [1 .. n -> Request] /\ DOMAIN went = 1 .. n
    BY <2>1
  <2>3. \A i \in 1 .. n : went[i] = aged[sent[i]].req
    OBVIOUS
  <2> HIDE DEF went
  <2>4. went \in Seq(Request) /\ Len(went) = n
    BY <1>9, <2>2
  <2>5. ToSet(went) = S
    BY <1>11, <2>2, <2>3 DEF ToSet
  <2> QED BY <2>4, <2>5
<1> HIDE DEF went
<1>16. MemoryInv'
  <2>1. memory \o went \in Seq(Request)
    BY <1>15, ConcatSet DEF MemoryInv
  <2>2. Len(memory \o went) = Len(memory) + n
    BY <1>15 DEF MemoryInv
  <2> QED BY <1>12, <1>2, <1>9, <2>1, <2>2 DEF MemoryInv, room
<1>17. ToSet(memory') = ToSet(memory) \cup S
  BY <1>12, <1>15, ConcatSet DEF MemoryInv
<1>18. unsaved' = unsaved \ {align(r.addr) : r \in {x \in S : x.type = "Write"}}
  BY <1>1
<1> DEFINE K == DOMAIN aged \ taken
<1>19. m_miss_list' = Kept(aged, K) /\ K \in SUBSET DOMAIN aged
  BY <1>1 DEF Left
<1> HIDE DEF K
<1>20. /\ m_miss_list' \in Seq(DelayedRequest)
       /\ \A i \in K : \E j \in DOMAIN m_miss_list' : m_miss_list'[j] = aged[i]
  BY <1>4, <1>19, KeptFacts
<1>21. ASSUME NEW r \in Requests(m_miss_list) PROVE r \in Requests(m_miss_list') \/ r \in S
  <2>1. PICK i \in DOMAIN aged : aged[i].req = r
    BY <1>4 DEF Requests, ToSet
  <2>2. CASE i \in taken
    BY <2>1, <2>2
  <2>3. CASE i \in K
    <3>1. PICK j \in DOMAIN m_miss_list' : m_miss_list'[j] = aged[i]
      BY <1>20, <2>3
    <3> QED BY <2>1, <3>1 DEF Requests, ToSet
  <2> QED BY <2>1, <2>2, <2>3 DEF K
<1> QED BY <1>3, <1>16, <1>17, <1>18, <1>20, <1>21

-----------------------------------------------------------------------------
(* The cores *)

CoresInv ==
  /\ m_trace \in [Core -> Seq(Inst) \ {<<>>}]
  /\ trace_idx \in [Core -> Nat \ {0}] /\ \A c \in Core : trace_idx[c] \in DOMAIN m_trace[c]
  /\ fetched \in [Core -> Inst]
  /\ m_window \in [Core -> Seq(Entry)] /\ \A c \in Core : Len(m_window[c]) <= m_depth
  /\ retired \in [Core -> 0 .. m_num_expected_insts]

LEMMA WokenFacts ==
  ASSUME m_window \in [Core -> Seq(Entry)], NEW Q
  PROVE  /\ Woken(Q) \in [Core -> Seq(Entry)]
         /\ \A c \in Core :
              /\ Len(Woken(Q)[c]) = Len(m_window[c])
              /\ DOMAIN Woken(Q)[c] = DOMAIN m_window[c]
              /\ \A i \in DOMAIN m_window[c] :
                   /\ Woken(Q)[c][i].addr = m_window[c][i].addr
                   /\ ~Woken(Q)[c][i].ready =>
                        /\ ~m_window[c][i].ready
                        /\ \A q \in Q : q.source = c => q.addr # m_window[c][i].addr
<1> SUFFICES ASSUME NEW c \in Core
             PROVE  /\ Woken(Q)[c] \in Seq(Entry)
                    /\ Len(Woken(Q)[c]) = Len(m_window[c])
                    /\ DOMAIN Woken(Q)[c] = DOMAIN m_window[c]
                    /\ \A i \in DOMAIN m_window[c] :
                         /\ Woken(Q)[c][i].addr = m_window[c][i].addr
                         /\ ~Woken(Q)[c][i].ready =>
                              /\ ~m_window[c][i].ready
                              /\ \A q \in Q : q.source = c => q.addr # m_window[c][i].addr
  BY DEF Woken
<1> DEFINE w == m_window[c]
           A == {q.addr : q \in {x \in Q : x.source = c}}
           v == set_ready(w, A)
<1>1. Woken(Q)[c] = v
  BY DEF Woken
<1>2. w \in Seq(Entry) /\ DOMAIN w = 1 .. Len(w) /\ Len(w) \in Nat
  OBVIOUS
<1>3. \A q \in Q : q.source = c => q.addr \in A
  OBVIOUS
<1> HIDE DEF w, A
<1>4. DOMAIN v = DOMAIN w
  BY DEF set_ready
<1>5. ASSUME NEW i \in DOMAIN w
      PROVE  /\ v[i] \in Entry /\ v[i].addr = w[i].addr
             /\ ~v[i].ready => ~w[i].ready /\ w[i].addr \notin A
  <2>1. w[i] \in Entry
    BY <1>2
  <2>2. v[i] = IF w[i].addr \in A THEN [w[i] EXCEPT !.ready = TRUE] ELSE w[i]
    BY DEF set_ready
  <2> HIDE DEF v
  <2> QED BY <2>1, <2>2 DEF Entry
<1>6. v \in [1 .. Len(w) -> Entry]
  <2>1. v = [i \in DOMAIN w |-> v[i]]
    BY <1>4 DEF set_ready
  <2> HIDE DEF v
  <2> QED BY <1>2, <1>5, <2>1
<1> HIDE DEF v
<1>7. v \in Seq(Entry) /\ Len(v) = Len(w)
  BY <1>2, <1>4, <1>6
<1> QED BY <1>1, <1>3, <1>4, <1>5, <1>7 DEF w

LEMMA RetireFacts ==
  ASSUME SimpleO3Assumption, NEW c \in Core, CoresInv
  PROVE  /\ retire(m_window[c]) \in 0 .. Len(m_window[c])
         /\ \A i \in 1 .. retire(m_window[c]) : m_window[c][i].ready
         /\ AfterRetire(c) \in Seq(Entry)
         /\ Len(AfterRetire(c)) = Len(m_window[c]) - retire(m_window[c])
         /\ Len(AfterRetire(c)) <= m_depth
         /\ \A i \in 1 .. Len(AfterRetire(c)) : AfterRetire(c)[i] = m_window[c][retire(m_window[c]) + i]
<1> DEFINE w == m_window[c]
           T == {Len(w), m_ipc} \cup {i - 1 : i \in {j \in DOMAIN w : ~w[j].ready}}
           r == retire(w)
<1>1. w \in Seq(Entry) /\ Len(w) \in Nat /\ DOMAIN w = 1 .. Len(w) /\ Len(w) <= m_depth
  BY DEF CoresInv
<1>2. m_ipc \in Nat /\ m_depth \in Nat
  BY DEF SimpleO3Assumption
<1> HIDE DEF w
<1>3. T \in SUBSET Nat /\ T # {}
  BY <1>1, <1>2
<1>4. r \in T /\ \A m \in T : r <= m
  <2> HIDE DEF T
  <2>1. Min(T) \in T /\ \A m \in T : Min(T) <= m
    BY <1>3, MinFacts
  <2> QED BY <2>1 DEF retire, T
<1>5. r \in 0 .. Len(w)
  BY <1>1, <1>3, <1>4
<1>6. ASSUME NEW i \in 1 .. r PROVE w[i].ready
  <2>1. i \in DOMAIN w
    BY <1>1, <1>5
  <2>2. ASSUME ~w[i].ready PROVE FALSE
    <3>1. i - 1 \in T
      BY <2>1, <2>2
    <3>2. r <= i - 1
      BY <1>4, <3>1
    <3> QED BY <1>5, <3>2
  <2> QED BY <2>2
<1> HIDE DEF T, r
<1>7. AfterRetire(c) = SubSeq(w, r + 1, Len(w))
  BY DEF AfterRetire, w, r
<1> DEFINE u == SubSeq(w, r + 1, Len(w))
<1>8. /\ u \in Seq(Entry) /\ Len(u) = Len(w) - r
      /\ \A i \in 1 .. (Len(w) - r) : u[i] = w[r + i]
  <2> DEFINE p == r + 1
             n == Len(w)
  <2>1. p \in 1 .. (Len(w) + 1) /\ n \in (p - 1) .. Len(w)
    BY <1>1, <1>5
  <2> HIDE DEF p, n
  <2>2. /\ SubSeq(w, p, n) \in Seq(Entry) /\ Len(SubSeq(w, p, n)) = n - p + 1
        /\ \A i \in 1 .. (n - p + 1) : SubSeq(w, p, n)[i] = w[p + i - 1]
    BY <1>1, <2>1, SubSeqProperties
  <2>3. n - p + 1 = Len(w) - r /\ \A i \in Nat : p + i - 1 = r + i
    BY <1>1, <1>5 DEF p, n
  <2>4. u = SubSeq(w, p, n)
    BY DEF p, n
  <2> HIDE DEF u
  <2>5. \A i \in 1 .. (Len(w) - r) : u[i] = w[r + i]
    <3> SUFFICES ASSUME NEW i \in 1 .. (Len(w) - r) PROVE u[i] = w[r + i]
      OBVIOUS
    <3>1. i \in 1 .. (n - p + 1) /\ p + i - 1 = r + i
      BY <2>3
    <3> QED BY <2>2, <2>4, <3>1
  <2> QED BY <2>2, <2>3, <2>4, <2>5
<1>9. Len(u) <= m_depth
  <2> HIDE DEF u
  <2> QED BY <1>1, <1>2, <1>5, <1>8
<1> HIDE DEF u
<1>10. /\ AfterRetire(c) \in Seq(Entry) /\ Len(AfterRetire(c)) = Len(w) - r
       /\ Len(AfterRetire(c)) <= m_depth
       /\ \A i \in 1 .. Len(AfterRetire(c)) : AfterRetire(c)[i] = w[r + i]
  BY <1>7, <1>8, <1>9 DEF u
<1> QED BY <1>5, <1>6, <1>10 DEF w, r

LEMMA BubbleFacts ==
  ASSUME SimpleO3Assumption, NEW c \in Core, CoresInv
  PROVE  /\ Bubbles(c) \in Nat /\ Bubbles(c) <= fetched[c].bubble_count
         /\ AfterBubbles(c) \in Seq(Entry)
         /\ Len(AfterBubbles(c)) \in 0 .. m_depth
         /\ \A i \in DOMAIN AfterBubbles(c) : ~AfterBubbles(c)[i].ready =>
              \E j \in DOMAIN m_window[c] : AfterBubbles(c)[i] = m_window[c][j]
<1> DEFINE u == AfterRetire(c)
           T == {fetched[c].bubble_count, m_ipc, m_depth - Len(u)}
           b == Bubbles(c)
           e == [ready |-> TRUE, addr |-> NoAddr]
           v == [i \in 1 .. b |-> e]
           w == m_window[c]
           r == retire(w)
<1>1. /\ r \in 0 .. Len(w) /\ u \in Seq(Entry) /\ Len(u) = Len(w) - r /\ Len(u) <= m_depth
      /\ \A i \in 1 .. Len(u) : u[i] = w[r + i]
  BY RetireFacts
<1>2. w \in Seq(Entry) /\ Len(w) \in Nat /\ DOMAIN w = 1 .. Len(w) /\ fetched[c].bubble_count \in Nat
  BY DEF CoresInv, Inst
<1>3. m_ipc \in Nat /\ m_depth \in Nat
  BY DEF SimpleO3Assumption
<1> HIDE DEF u, r, w
<1>4. T \in SUBSET Nat /\ T # {}
  BY <1>1, <1>2, <1>3
<1>5. b \in T /\ \A m \in T : b <= m
  <2> HIDE DEF T
  <2>1. Min(T) \in T /\ \A m \in T : Min(T) <= m
    BY <1>4, MinFacts
  <2> QED BY <2>1 DEF Bubbles, T, u
<1>6. b \in Nat /\ b <= fetched[c].bubble_count /\ b <= m_depth - Len(u)
  BY <1>4, <1>5
<1> HIDE DEF T, b
<1>7. v \in Seq(Entry) /\ Len(v) = b /\ \A i \in 1 .. b : v[i] = e
  <2>1. e \in Entry
    BY DEF Entry
  <2> HIDE DEF e
  <2> QED BY <1>6, <2>1
<1>8. e.ready
  OBVIOUS
<1> HIDE DEF v, e
<1>9. /\ u \o v \in Seq(Entry) /\ Len(u \o v) = Len(u) + b /\ DOMAIN (u \o v) = 1 .. (Len(u) + b)
      /\ \A i \in 1 .. (Len(u) + b) : (u \o v)[i] = IF i <= Len(u) THEN u[i] ELSE v[i - Len(u)]
      /\ Len(u) \in Nat
  <2>1. /\ u \o v \in Seq(Entry) /\ Len(u \o v) = Len(u) + Len(v)
        /\ \A i \in 1 .. (Len(u) + Len(v)) :
             (u \o v)[i] = IF i <= Len(u) THEN u[i] ELSE v[i - Len(u)]
    BY <1>1, <1>7, ConcatProperties
  <2>2. Len(v) = b /\ Len(u) \in Nat
    BY <1>1, <1>7
  <2> DEFINE x == u \o v
  <2>3. x \in Seq(Entry) => DOMAIN x = 1 .. Len(x)
    <3> HIDE DEF x
    <3> QED OBVIOUS
  <2> QED BY <2>1, <2>2, <2>3
<1>10. AfterBubbles(c) = u \o v
  BY DEF AfterBubbles, u, v, e, b
<1>11. ASSUME NEW i \in 1 .. (Len(u) + b), ~(u \o v)[i].ready
       PROVE  \E j \in DOMAIN w : (u \o v)[i] = w[j]
  <2>1. CASE i <= Len(u)
    <3>1. i \in 1 .. Len(u) /\ r + i \in DOMAIN w
      BY <1>1, <1>2, <1>9, <2>1
    <3> QED BY <1>1, <1>9, <2>1, <3>1
  <2>2. CASE ~(i <= Len(u))
    <3>1. i - Len(u) \in 1 .. b
      BY <1>6, <1>9, <2>2
    <3>2. (u \o v)[i] = e
      BY <1>7, <1>9, <2>2, <3>1
    <3> QED BY <1>8, <1>11, <3>2
  <2> QED BY <2>1, <2>2
<1>12. Len(u \o v) \in 0 .. m_depth
  BY <1>1, <1>3, <1>6, <1>9
<1> HIDE DEF AfterBubbles
<1> QED BY <1>6, <1>9, <1>10, <1>11, <1>12 DEF b, w

TurnInv == turn \in {<<"core", c>> : c \in Core} \cup {<<"misses">>, <<"hits">>, <<"memory">>}

SavedInv == unsaved \subseteq Aligned /\ \A a \in unsaved : Saved(a)

Inv == CacheInv /\ MemoryInv /\ CoresInv /\ TurnInv /\ SavedInv

LEMMA InitInv ==
  ASSUME LLCAssumption, SimpleO3Assumption, Init
  PROVE  Inv
<1>1. CacheInv
  <2>1. /\ m_cache_sets = [i \in Sets |-> <<>>] /\ m_mshrs = {}
        /\ m_receive_requests = [a \in Addr |-> {}] /\ m_miss_list = <<>> /\ m_hit_list = <<>>
    BY DEF Init, LLCInit
  <2>2. m_num_mshrs \in Nat /\ m_associativity \in Nat
    BY DEF LLCAssumption
  <2>3. IsFiniteSet({}) /\ Cardinality({}) = 0
    BY FS_EmptySet
  <2>4. Registers(m_mshrs)
    BY <2>1, <2>2, <2>3 DEF Registers
  <2>5. ASSUME NEW i \in Sets PROVE SetSound(<<>>, i) /\ InFlight(<<>>, i, {})
    BY <2>2 DEF SetSound, InFlight
  <2>6. m_cache_sets \in [Sets -> Seq(Line)]
    BY <2>1
  <2>7. SetsInv(m_cache_sets, m_mshrs)
    BY <2>1, <2>4, <2>5, <2>6 DEF SetsInv
  <2>8. m_receive_requests \in [Addr -> SUBSET Request]
    BY <2>1
  <2>9. <<>> \in Seq(DelayedRequest)
    OBVIOUS
  <2> QED BY <2>1, <2>7, <2>8, <2>9 DEF CacheInv
<1>2. MemoryInv
  BY DEF Init, MemoryInv, SimpleO3Assumption
<1>3. CoresInv
  <2>1. m_trace \in [Core -> Seq(Inst) \ {<<>>}]
    BY DEF Init, SimpleO3Assumption
  <2>2. ASSUME NEW c \in Core
        PROVE  /\ 1 + (1 % Len(m_trace[c])) \in DOMAIN m_trace[c]
               /\ 1 + (1 % Len(m_trace[c])) \in Nat \ {0}
               /\ m_trace[c][1] \in Inst
    <3> DEFINE t == m_trace[c]
               n == Len(t)
    <3>1. t \in Seq(Inst) /\ t # <<>>
      BY <2>1
    <3> HIDE DEF t
    <3>2. n \in Nat \ {0} /\ DOMAIN t = 1 .. n
      BY <3>1
    <3> HIDE DEF n
    <3>3. 1 % n \in 0 .. (n - 1)
      BY <3>2, DivMod
    <3>4. 1 + (1 % n) \in 1 .. n
      BY <3>2, <3>3
    <3>5. t[1] \in Inst
      BY <3>1, <3>2
    <3>6. 1 + (1 % n) \in DOMAIN t /\ 1 + (1 % n) \in Nat \ {0}
      BY <3>2, <3>4
    <3> QED BY <3>5, <3>6 DEF t, n
  <2>3. m_depth \in Nat /\ m_num_expected_insts \in Nat
    BY DEF SimpleO3Assumption
  <2>4. trace_idx \in [Core -> Nat \ {0}] /\ (\A c \in Core : trace_idx[c] \in DOMAIN m_trace[c])
    BY <2>2 DEF Init
  <2>5. fetched \in [Core -> Inst]
    BY <2>2 DEF Init
  <2>6. m_window \in [Core -> Seq(Entry)] /\ \A c \in Core : Len(m_window[c]) <= m_depth
    <3>1. <<>> \in Seq(Entry) /\ Len(<<>>) = 0
      OBVIOUS
    <3> QED BY <2>3, <3>1 DEF Init
  <2>7. retired \in [Core -> 0 .. m_num_expected_insts]
    BY <2>3 DEF Init
  <2> QED BY <2>1, <2>4, <2>5, <2>6, <2>7 DEF CoresInv
<1>4. TurnInv /\ SavedInv
  BY DEF Init, TurnInv, SavedInv
<1> QED BY <1>1, <1>2, <1>3, <1>4 DEF Inv

(* What every end of a core's tick does.                                    *)
LEMMA NextInstFacts ==
  ASSUME NEW c \in Core, CoresInv, get_next_inst(c)
  PROVE  /\ trace_idx' \in [Core -> Nat \ {0}]
         /\ \A d \in Core : trace_idx'[d] \in DOMAIN m_trace[d]
         /\ fetched' \in [Core -> Inst]
<1> DEFINE t == m_trace[c]
           n == Len(t)
           j == trace_idx[c]
<1>1. t \in Seq(Inst) /\ j \in DOMAIN t /\ DOMAIN t = 1 .. n /\ n \in Nat
  BY DEF CoresInv
<1>2. trace_idx' = [trace_idx EXCEPT ![c] = 1 + (j % n)] /\ fetched' = [fetched EXCEPT ![c] = t[j]]
  BY DEF get_next_inst
<1>3. /\ trace_idx \in [Core -> Nat \ {0}] /\ fetched \in [Core -> Inst]
      /\ \A d \in Core : trace_idx[d] \in DOMAIN m_trace[d]
  BY DEF CoresInv
<1> HIDE DEF n, j
<1>4. 1 + (j % n) \in 1 .. n
  <2>1. n \in Nat \ {0} /\ j \in Nat
    BY <1>1
  <2>2. j % n \in 0 .. (n - 1)
    BY <2>1, DivMod
  <2> QED BY <2>1, <2>2
<1>5. t[j] \in Inst
  BY <1>1
<1> DEFINE k == 1 + (j % n)
<1>6. k \in DOMAIN t /\ k \in Nat \ {0}
  BY <1>1, <1>4
<1> HIDE DEF k
<1>7. trace_idx' = [trace_idx EXCEPT ![c] = k]
  BY <1>2 DEF k
<1>8. \A d \in Core : trace_idx'[d] \in DOMAIN m_trace[d]
  BY <1>3, <1>6, <1>7
<1>9. trace_idx' \in [Core -> Nat \ {0}]
  BY <1>3, <1>6, <1>7
<1>10. fetched' \in [Core -> Inst]
  BY <1>2, <1>3, <1>5
<1> QED BY <1>8, <1>9, <1>10

LEMMA CoreTurnFacts ==
  ASSUME SimpleO3Assumption, NEW c \in Core, CoresInv, CoreTurn(c)
  PROVE  /\ retired' \in [Core -> 0 .. m_num_expected_insts]
         /\ TurnInv' /\ m_trace' = m_trace /\ memory' = memory
<1> DEFINE n == m_num_expected_insts
           r == retired[c] + retire(m_window[c])
<1>1. n \in Nat
  BY DEF SimpleO3Assumption
<1>2. retired \in [Core -> 0 .. n]
  BY DEF CoresInv
<1>3. r \in Nat
  <2>1. retire(m_window[c]) \in 0 .. Len(m_window[c]) /\ Len(m_window[c]) \in Nat
    <3>1. m_window[c] \in Seq(Entry)
      BY DEF CoresInv
    <3> QED BY <3>1, RetireFacts
  <2>2. retired[c] \in 0 .. n
    BY <1>2
  <2> QED BY <1>1, <2>1, <2>2
<1>4. retired' = [retired EXCEPT ![c] = Min({r, n})]
  BY DEF CoreTurn
<1> HIDE DEF r, n
<1>5. Min({r, n}) \in 0 .. n
  <2>1. Min({r, n}) \in {r, n} /\ Min({r, n}) <= n
    BY <1>1, <1>3, MinFacts
  <2> QED BY <1>1, <1>3, <2>1
<1>6. retired' \in [Core -> 0 .. n]
  BY <1>2, <1>4, <1>5
<1>7. TurnInv'
  <2>1. turn' = IF c + 1 \in Core THEN <<"core", c + 1>> ELSE <<"memory">>
    BY DEF CoreTurn
  <2> QED BY <2>1 DEF TurnInv
<1> QED BY <1>6, <1>7 DEF CoreTurn, n

LEMMA WindowUpdate ==
  ASSUME NEW c \in Core, CoresInv, NEW w \in Seq(Entry), Len(w) <= m_depth,
         m_window' = [m_window EXCEPT ![c] = w]
  PROVE  m_window' \in [Core -> Seq(Entry)] /\ \A d \in Core : Len(m_window'[d]) <= m_depth
BY DEF CoresInv

LEMMA LoadInv ==
  ASSUME LLCAssumption, SimpleO3Assumption, Inv, NEW c \in Core, TickLoad(c)
  PROVE  Inv'
<1> DEFINE e == [ready |-> FALSE, addr |-> fetched[c].load_addr]
<1>1. CacheInv /\ MemoryInv /\ CoresInv /\ SavedInv
  BY DEF Inv
<1>2. fetched[c] \in Inst /\ fetched[c].load_addr \in Addr /\ e \in Entry
  BY <1>1 DEF TickLoad, MayLoad, CoresInv, Inst, Entry
<1>3. Load(c) \in Request
  BY <1>2 DEF Load, Request
<1>4. CacheInv' /\ \A a : Saved(a) => Saved(a)'
  BY <1>1, <1>3, SendFacts DEF TickLoad
<1>5. /\ retired' \in [Core -> 0 .. m_num_expected_insts]
      /\ TurnInv' /\ m_trace' = m_trace /\ memory' = memory
  BY <1>1, CoreTurnFacts DEF TickLoad
<1>6. m_window' \in [Core -> Seq(Entry)] /\ \A d \in Core : Len(m_window'[d]) <= m_depth
  <2>1. AfterBubbles(c) \in Seq(Entry) /\ Len(AfterBubbles(c)) \in 0 .. m_depth
    BY <1>1, BubbleFacts
  <2>2. m_depth \in Nat /\ Len(AfterBubbles(c)) # m_depth
    BY DEF SimpleO3Assumption, TickLoad, MayLoad
  <2> DEFINE u == AfterBubbles(c)
             w == Append(u, e)
  <2>3. m_window' = [m_window EXCEPT ![c] = w]
    BY DEF TickLoad
  <2> HIDE DEF u, e
  <2>4. w \in Seq(Entry) /\ Len(w) = Len(u) + 1
    BY <1>2, <2>1, AppendFacts DEF u
  <2>5. Len(w) <= m_depth
    BY <2>1, <2>2, <2>4 DEF u
  <2> HIDE DEF w
  <2> QED BY <1>1, <2>3, <2>4, <2>5, WindowUpdate
<1>7. /\ trace_idx' \in [Core -> Nat \ {0}]
      /\ \A d \in Core : trace_idx'[d] \in DOMAIN m_trace[d]
      /\ fetched' \in [Core -> Inst]
  <2>1. CASE fetched[c].store_addr = NoAddr
    <3>1. get_next_inst(c)
      BY <2>1 DEF TickLoad
    <3> QED BY <1>1, <3>1, NextInstFacts
  <2>2. CASE fetched[c].store_addr # NoAddr
    <3>1. /\ fetched' = [fetched EXCEPT ![c].load_addr = NoAddr, ![c].bubble_count = 0]
          /\ trace_idx' = trace_idx
      BY <2>2 DEF TickLoad
    <3>2. [fetched[c] EXCEPT !.load_addr = NoAddr, !.bubble_count = 0] \in Inst
      BY <1>2 DEF Inst
    <3>3. fetched \in [Core -> Inst] /\ fetched' = [fetched EXCEPT ![c] =
             [fetched[c] EXCEPT !.load_addr = NoAddr, !.bubble_count = 0]]
      BY <1>1, <3>1 DEF CoresInv
    <3> QED BY <1>1, <3>1, <3>2, <3>3 DEF CoresInv
  <2> QED BY <2>1, <2>2
<1>8. unsaved' = unsaved
  BY DEF TickLoad
<1>9. CoresInv'
  BY <1>1, <1>5, <1>6, <1>7 DEF CoresInv
<1>10. MemoryInv' /\ SavedInv'
  BY <1>1, <1>4, <1>5, <1>8 DEF MemoryInv, SavedInv
<1> QED BY <1>4, <1>5, <1>9, <1>10 DEF Inv

(* A window from which a tick of the core takes and adds no load.           *)
LEMMA NoLoadWindow ==
  ASSUME SimpleO3Assumption, NEW c \in Core, CoresInv, m_window' = [m_window EXCEPT ![c] = AfterBubbles(c)]
  PROVE  m_window' \in [Core -> Seq(Entry)] /\ \A d \in Core : Len(m_window'[d]) <= m_depth
<1>1. AfterBubbles(c) \in Seq(Entry) /\ Len(AfterBubbles(c)) \in 0 .. m_depth
  BY BubbleFacts
<1>2. m_depth \in Nat
  BY DEF SimpleO3Assumption
<1>3. Len(AfterBubbles(c)) <= m_depth
  BY <1>1, <1>2
<1> QED BY <1>1, <1>3, WindowUpdate

LEMMA StoreInv ==
  ASSUME LLCAssumption, SimpleO3Assumption, Inv, NEW c \in Core, TickStore(c)
  PROVE  Inv'
<1>1. CacheInv /\ MemoryInv /\ CoresInv /\ SavedInv
  BY DEF Inv
<1>2. fetched[c].store_addr \in Addr
  BY <1>1 DEF TickStore, MayStore, CoresInv, Inst
<1>3. PICK q \in Request : send(q) /\ q.type = "Write" /\ q.addr = fetched[c].store_addr
  BY <1>2 DEF TickStore, Store, Request
<1>4. CacheInv' /\ (\A a : Saved(a) => Saved(a)') /\ Saved(align(q.addr))'
  BY <1>1, <1>3, SendFacts
<1>5. /\ retired' \in [Core -> 0 .. m_num_expected_insts]
      /\ TurnInv' /\ m_trace' = m_trace /\ memory' = memory
  BY <1>1, CoreTurnFacts DEF TickStore
<1>6. m_window' \in [Core -> Seq(Entry)] /\ \A d \in Core : Len(m_window'[d]) <= m_depth
  BY <1>1, NoLoadWindow DEF TickStore
<1>7. /\ trace_idx' \in [Core -> Nat \ {0}]
      /\ \A d \in Core : trace_idx'[d] \in DOMAIN m_trace[d]
      /\ fetched' \in [Core -> Inst]
  BY <1>1, NextInstFacts DEF TickStore
<1>8. unsaved' = unsaved \cup {align(q.addr)}
  BY <1>3 DEF TickStore
<1>9. CoresInv'
  BY <1>1, <1>5, <1>6, <1>7 DEF CoresInv
<1>10. MemoryInv'
  BY <1>1, <1>5 DEF MemoryInv
<1>11. SavedInv'
  <2>1. align(q.addr) \in Aligned
    BY <1>2, <1>3 DEF Aligned
  <2>2. ASSUME NEW a \in unsaved' PROVE Saved(a)'
    BY <1>1, <1>4, <1>8, <2>2 DEF SavedInv
  <2> QED BY <1>1, <1>8, <2>1, <2>2 DEF SavedInv
<1> QED BY <1>4, <1>5, <1>9, <1>10, <1>11 DEF Inv

(* A step that leaves the cache alone.                                      *)
LEMMA CacheUnchanged ==
  ASSUME UNCHANGED llc_vars
  PROVE  (CacheInv => CacheInv') /\ (\A a : Saved(a) => Saved(a)')
<1>1. /\ m_cache_sets' = m_cache_sets /\ m_mshrs' = m_mshrs /\ m_hit_list' = m_hit_list
      /\ m_receive_requests' = m_receive_requests /\ m_miss_list' = m_miss_list
  BY DEF llc_vars
<1>2. CacheInv => CacheInv'
  BY <1>1 DEF CacheInv
<1>3. \A a : Saved(a) => Saved(a)'
  BY <1>1 DEF Saved
<1> QED BY <1>2, <1>3

LEMMA NoMemoryInv ==
  ASSUME LLCAssumption, SimpleO3Assumption, Inv, NEW c \in Core, TickNoMemory(c)
  PROVE  Inv'
<1>1. CacheInv /\ MemoryInv /\ CoresInv /\ SavedInv
  BY DEF Inv
<1>2. CacheInv' /\ (\A a : Saved(a) => Saved(a)') /\ unsaved' = unsaved
  BY <1>1, CacheUnchanged DEF TickNoMemory
<1>3. /\ retired' \in [Core -> 0 .. m_num_expected_insts]
      /\ TurnInv' /\ m_trace' = m_trace /\ memory' = memory
  BY <1>1, CoreTurnFacts DEF TickNoMemory
<1>4. m_window' \in [Core -> Seq(Entry)] /\ \A d \in Core : Len(m_window'[d]) <= m_depth
  BY <1>1, NoLoadWindow DEF TickNoMemory
<1>5. /\ trace_idx' \in [Core -> Nat \ {0}]
      /\ \A d \in Core : trace_idx'[d] \in DOMAIN m_trace[d]
      /\ fetched' \in [Core -> Inst]
  BY <1>1, NextInstFacts DEF TickNoMemory
<1>6. CoresInv'
  BY <1>1, <1>3, <1>4, <1>5 DEF CoresInv
<1>7. MemoryInv' /\ SavedInv'
  BY <1>1, <1>2, <1>3 DEF MemoryInv, SavedInv
<1> QED BY <1>2, <1>3, <1>6, <1>7 DEF Inv

LEMMA StallInv ==
  ASSUME LLCAssumption, SimpleO3Assumption, Inv, NEW c \in Core, TickStall(c)
  PROVE  Inv'
<1>1. CacheInv /\ MemoryInv /\ CoresInv /\ SavedInv
  BY DEF Inv
<1>2. CacheInv' /\ (\A a : Saved(a) => Saved(a)') /\ unsaved' = unsaved
  BY <1>1, CacheUnchanged DEF TickStall
<1>3. /\ retired' \in [Core -> 0 .. m_num_expected_insts]
      /\ TurnInv' /\ m_trace' = m_trace /\ memory' = memory
  BY <1>1, CoreTurnFacts DEF TickStall
<1>4. m_window' \in [Core -> Seq(Entry)] /\ \A d \in Core : Len(m_window'[d]) <= m_depth
  BY <1>1, NoLoadWindow DEF TickStall
<1>5. trace_idx' = trace_idx /\ fetched' = [fetched EXCEPT ![c].bubble_count = @ - Bubbles(c)]
  BY DEF TickStall
<1>6. fetched' \in [Core -> Inst]
  <2>1. Bubbles(c) \in Nat /\ Bubbles(c) <= fetched[c].bubble_count
    BY <1>1, BubbleFacts
  <2>2. fetched \in [Core -> Inst] /\ fetched[c] \in Inst
    BY <1>1 DEF CoresInv
  <2> DEFINE n == fetched[c].bubble_count - Bubbles(c)
  <2>3. n \in Nat
    BY <2>1, <2>2 DEF Inst
  <2>4. fetched' = [fetched EXCEPT ![c] = [fetched[c] EXCEPT !.bubble_count = n]]
    BY <1>5, <2>2
  <2> HIDE DEF n
  <2>5. [fetched[c] EXCEPT !.bubble_count = n] \in Inst
    BY <2>2, <2>3 DEF Inst
  <2> QED BY <2>2, <2>4, <2>5
<1>7. CoresInv'
  BY <1>1, <1>3, <1>4, <1>5, <1>6 DEF CoresInv
<1>8. MemoryInv' /\ SavedInv'
  BY <1>1, <1>2, <1>3 DEF MemoryInv, SavedInv
<1> QED BY <1>2, <1>3, <1>7, <1>8 DEF Inv

(* The memory has been told of the lines that leave unsaved.                *)
LEMMA MissesInv ==
  ASSUME LLCAssumption, SimpleO3Assumption, Inv, TickMisses
  PROVE  Inv'
<1>1. CacheInv /\ MemoryInv /\ CoresInv /\ SavedInv
  BY DEF Inv
<1>2. /\ m_cache_sets' = m_cache_sets /\ m_mshrs' = m_mshrs
      /\ m_receive_requests' = m_receive_requests /\ turn' = <<"hits">> /\ UNCHANGED core_vars
  BY DEF TickMisses
<1>3. /\ m_miss_list' \in Seq(DelayedRequest) /\ m_hit_list' \in Seq(DelayedRequest)
      /\ MemoryInv'
      /\ \E S : /\ \A r \in Requests(m_miss_list) : r \in Requests(m_miss_list') \/ r \in S
                /\ ToSet(memory') = ToSet(memory) \cup S
                /\ unsaved' = unsaved \ {align(r.addr) : r \in {x \in S : x.type = "Write"}}
  BY <1>1, TickMissesFacts
<1>4. CacheInv'
  BY <1>1, <1>2, <1>3 DEF CacheInv
<1>5. CoresInv'
  BY <1>1, <1>2 DEF CoresInv, core_vars
<1>6. SavedInv'
  <2>1. PICK S : /\ \A r \in Requests(m_miss_list) : r \in Requests(m_miss_list') \/ r \in S
                 /\ unsaved' = unsaved \ {align(r.addr) : r \in {x \in S : x.type = "Write"}}
    BY <1>3
  <2>2. ASSUME NEW a \in unsaved' PROVE Saved(a)'
    <3>1. a \in unsaved /\ \A r \in S : r.type = "Write" => align(r.addr) # a
      BY <2>1, <2>2
    <3>2. Saved(a)
      BY <1>1, <3>1 DEF SavedInv
    <3>3. Written(Requests(m_miss_list), a) => Written(Requests(m_miss_list'), a)
      BY <2>1, <3>1 DEF Written
    <3> QED BY <1>2, <3>2, <3>3 DEF Saved
  <2>3. unsaved' \subseteq Aligned
    BY <1>1, <2>1 DEF SavedInv
  <2> QED BY <2>2, <2>3 DEF SavedInv
<1>7. TurnInv'
  BY <1>2 DEF TurnInv
<1> QED BY <1>3, <1>4, <1>5, <1>6, <1>7 DEF Inv

LEMMA CallbackFacts ==
  ASSUME LLCAssumption, CacheInv, CoresInv, NEW a \in Addr, NEW Q, Callback(a, Q)
  PROVE  /\ SetsInv(m_cache_sets', m_mshrs')
         /\ \A b : Dirty(m_cache_sets, b) => Dirty(m_cache_sets', b)
         /\ m_receive_requests' \in [Addr -> SUBSET Request]
         /\ m_window' \in [Core -> Seq(Entry)] /\ \A c \in Core : Len(m_window'[c]) <= m_depth
<1>1. receive(a) /\ m_window' = Woken(Q) /\ m_receive_requests' = [m_receive_requests EXCEPT ![a] = {}]
  BY DEF Callback
<1>2. /\ SetsInv(m_cache_sets', m_mshrs')
      /\ \A b : Dirty(m_cache_sets, b) => Dirty(m_cache_sets', b)
  BY <1>1, ReceiveFacts DEF CacheInv
<1>3. m_receive_requests' \in [Addr -> SUBSET Request]
  BY <1>1 DEF CacheInv
<1>4. /\ m_window \in [Core -> Seq(Entry)] /\ \A c \in Core : Len(m_window[c]) <= m_depth
  BY DEF CoresInv
<1>5. /\ Woken(Q) \in [Core -> Seq(Entry)]
      /\ \A c \in Core : Len(Woken(Q)[c]) = Len(m_window[c])
  BY <1>4, WokenFacts
<1>6. m_window' \in [Core -> Seq(Entry)] /\ \A c \in Core : Len(m_window'[c]) <= m_depth
  BY <1>1, <1>4, <1>5
<1> QED BY <1>2, <1>3, <1>6

LEMMA HitFacts ==
  ASSUME LLCAssumption, CacheInv, Matured(m_hit_list) # {}
  PROVE  /\ Min(Matured(m_hit_list)) \in DOMAIN m_hit_list
         /\ m_hit_list[Min(Matured(m_hit_list))].req \in Request
<1>1. m_hit_list \in Seq(DelayedRequest) /\ DOMAIN m_hit_list = 1 .. Len(m_hit_list)
  BY DEF CacheInv
<1>2. Matured(m_hit_list) \subseteq Nat /\ Matured(m_hit_list) \subseteq DOMAIN m_hit_list
  BY <1>1 DEF Matured
<1>3. Min(Matured(m_hit_list)) \in DOMAIN m_hit_list
  BY <1>2, MinFacts
<1>4. m_hit_list[Min(Matured(m_hit_list))] \in DelayedRequest
  BY <1>1, <1>3
<1> QED BY <1>3, <1>4 DEF DelayedRequest

LEMMA HitInv ==
  ASSUME LLCAssumption, SimpleO3Assumption, Inv, TickHit
  PROVE  Inv'
<1> DEFINE i == Min(Matured(m_hit_list))
           r == m_hit_list[i].req
<1>1. CacheInv /\ MemoryInv /\ CoresInv /\ SavedInv /\ TurnInv
  BY DEF Inv
<1>2. i \in DOMAIN m_hit_list /\ r \in Request
  BY <1>1, HitFacts DEF TickHit
<1>3. Callback(r.addr, {r}) /\ m_hit_list' = RemoveAt(m_hit_list, i)
  BY DEF TickHit
<1>4. /\ UNCHANGED <<m_miss_list, m_trace, trace_idx, fetched, retired, turn, memory, unsaved>>
  BY DEF TickHit
<1> HIDE DEF i, r
<1>5. /\ SetsInv(m_cache_sets', m_mshrs')
      /\ \A b : Dirty(m_cache_sets, b) => Dirty(m_cache_sets', b)
      /\ m_receive_requests' \in [Addr -> SUBSET Request]
      /\ m_window' \in [Core -> Seq(Entry)] /\ \A c \in Core : Len(m_window'[c]) <= m_depth
  <2>1. r.addr \in Addr
    BY <1>2 DEF Request
  <2> QED BY <1>1, <1>3, <2>1, CallbackFacts
<1>6. m_hit_list' \in Seq(DelayedRequest)
  BY <1>1, <1>2, <1>3, RemoveFacts DEF CacheInv
<1>7. CacheInv'
  BY <1>1, <1>4, <1>5, <1>6 DEF CacheInv
<1>8. CoresInv'
  BY <1>1, <1>4, <1>5 DEF CoresInv
<1>9. SavedInv'
  BY <1>1, <1>4, <1>5 DEF SavedInv, Saved
<1>10. MemoryInv' /\ TurnInv'
  BY <1>1, <1>4 DEF MemoryInv, TurnInv
<1> QED BY <1>7, <1>8, <1>9, <1>10 DEF Inv

LEMMA ServeInv ==
  ASSUME LLCAssumption, SimpleO3Assumption, Inv, NEW i \in DOMAIN memory, MemoryServes(i)
  PROVE  Inv'
<1>1. CacheInv /\ MemoryInv /\ CoresInv /\ SavedInv /\ TurnInv
  BY DEF Inv
<1>2. /\ UNCHANGED <<m_miss_list, m_hit_list, m_trace, trace_idx, fetched, retired, turn, unsaved>>
      /\ memory' = RemoveAt(memory, i)
  BY DEF MemoryServes
<1>3. MemoryInv'
  <2>1. memory \in Seq(Request) /\ Len(memory) <= MemCapacity /\ MemCapacity \in Nat
    BY <1>1 DEF MemoryInv, SimpleO3Assumption
  <2>2. /\ RemoveAt(memory, i) \in Seq(Request) /\ Len(memory) \in Nat
        /\ Len(RemoveAt(memory, i)) = Len(memory) - 1
    BY <2>1, RemoveFacts
  <2>3. Len(RemoveAt(memory, i)) <= MemCapacity
    BY <2>1, <2>2
  <2> QED BY <1>2, <2>2, <2>3 DEF MemoryInv
<1>4. /\ SetsInv(m_cache_sets', m_mshrs')
      /\ \A b : Dirty(m_cache_sets, b) => Dirty(m_cache_sets', b)
      /\ m_receive_requests' \in [Addr -> SUBSET Request]
      /\ m_window' \in [Core -> Seq(Entry)] /\ \A c \in Core : Len(m_window'[c]) <= m_depth
  <2>1. CASE memory[i].type = "Read"
    <3>1. memory[i].addr \in Addr
      <4>1. memory[i] \in Request
        BY <1>1 DEF MemoryInv
      <4> QED BY <4>1 DEF Request
    <3>2. Callback(memory[i].addr, m_receive_requests[memory[i].addr])
      BY <2>1 DEF MemoryServes
    <3> QED BY <1>1, <3>1, <3>2, CallbackFacts
  <2>2. CASE memory[i].type # "Read"
    <3>1. UNCHANGED <<m_cache_sets, m_mshrs, m_receive_requests, m_window>>
      BY <2>2 DEF MemoryServes
    <3> QED BY <1>1, <3>1 DEF CacheInv, CoresInv
  <2> QED BY <2>1, <2>2
<1>5. CacheInv'
  BY <1>1, <1>2, <1>4 DEF CacheInv
<1>6. CoresInv'
  BY <1>1, <1>2, <1>4 DEF CoresInv
<1>7. SavedInv'
  BY <1>1, <1>2, <1>4 DEF SavedInv, Saved
<1>8. TurnInv'
  BY <1>1, <1>2 DEF TurnInv
<1> QED BY <1>3, <1>5, <1>6, <1>7, <1>8 DEF Inv

(* The steps that only pass the turn, and stuttering.                       *)
LEMMA TurnStep ==
  ASSUME Inv, UNCHANGED <<llc_vars, core_vars, memory, unsaved>>, TurnInv'
  PROVE  Inv'
<1>1. CacheInv /\ MemoryInv /\ CoresInv /\ SavedInv /\ TurnInv
  BY DEF Inv
<1>2. CacheInv' /\ \A a : Saved(a) => Saved(a)'
  BY <1>1, CacheUnchanged
<1>3. CoresInv'
  BY <1>1 DEF CoresInv, core_vars
<1>4. MemoryInv' /\ SavedInv'
  BY <1>1, <1>2 DEF MemoryInv, SavedInv
<1> QED BY <1>2, <1>3, <1>4 DEF Inv

LEMMA NextInv ==
  ASSUME LLCAssumption, SimpleO3Assumption, Inv, [Next]_vars
  PROVE  Inv'
<1>1. CASE TickMisses
  BY <1>1, MissesInv
<1>2. CASE TickHit
  BY <1>2, HitInv
<1>3. CASE TickHitsDone
  <2>1. 0 \in Core
    BY DEF SimpleO3Assumption
  <2>2. UNCHANGED <<llc_vars, core_vars, memory, unsaved>> /\ TurnInv'
    BY <1>3, <2>1 DEF TickHitsDone, TurnInv
  <2> QED BY <2>2, TurnStep
<1>4. CASE CoreTick
  BY <1>4, LoadInv, StoreInv, NoMemoryInv, StallInv DEF CoreTick
<1>5. CASE \E i \in DOMAIN memory : MemoryServes(i)
  BY <1>5, ServeInv
<1>6. CASE MemoryTickEnds
  <2>1. UNCHANGED <<llc_vars, core_vars, memory, unsaved>> /\ TurnInv'
    BY <1>6 DEF MemoryTickEnds, TurnInv
  <2> QED BY <2>1, TurnStep
<1>7. CASE Finished \/ UNCHANGED vars
  <2>1. UNCHANGED <<llc_vars, core_vars, memory, unsaved>> /\ turn' = turn
    BY <1>7 DEF Finished, vars
  <2>2. TurnInv'
    BY <2>1 DEF Inv, TurnInv
  <2> QED BY <2>1, <2>2, TurnStep
<1> QED BY <1>1, <1>2, <1>3, <1>4, <1>5, <1>6, <1>7 DEF Next

LEMMA SpecInv ==
  ASSUME LLCAssumption, SimpleO3Assumption
  PROVE  Spec => []Inv
<1>1. Init => Inv
  BY InitInv
<1>2. Inv /\ [Next]_vars => Inv'
  BY NextInv
<1> QED BY <1>1, <1>2, PTL DEF Spec

-----------------------------------------------------------------------------
(* What follows *)

(* The state keeps its shape, and the window, the sets, the registers and   *)
(* the memory never hold more than they may (is_full, m_associativity,      *)
(* m_num_mshrs).                                                            *)
THEOREM CoreTypes ==
  ASSUME LLCAssumption, SimpleO3Assumption
  PROVE  Spec => []TypeOK
<1>1. ASSUME Inv PROVE TypeOK
  <2>1. CacheInv /\ MemoryInv /\ CoresInv /\ SavedInv /\ TurnInv
    BY <1>1 DEF Inv
  <2>2. ASSUME NEW i \in Sets
        PROVE  m_cache_sets[i] \in Seq(Line) /\ Len(m_cache_sets[i]) <= m_associativity
    BY <2>1 DEF CacheInv, SetsInv, SetSound
  <2>3. m_mshrs \subseteq Addr /\ Cardinality(m_mshrs) <= m_num_mshrs
    BY <2>1 DEF CacheInv, SetsInv, Registers
  <2>4. /\ m_receive_requests \in [Addr -> SUBSET Request]
        /\ m_miss_list \in Seq([wait : 0 .. m_latency, req : Request])
        /\ m_hit_list \in Seq([wait : 0 .. m_latency, req : Request])
    BY <2>1 DEF CacheInv, DelayedRequest
  <2>5. /\ trace_idx \in [Core -> Nat \ {0}] /\ fetched \in [Core -> Inst]
        /\ \A c \in Core : m_window[c] \in Seq(Entry) /\ Len(m_window[c]) <= m_depth
        /\ retired \in [Core -> 0 .. m_num_expected_insts]
    BY <2>1 DEF CoresInv
  <2>6. turn \in {<<"core", c>> : c \in Core} \cup {<<"misses">>, <<"hits">>, <<"memory">>}
    BY <2>1 DEF TurnInv
  <2>7. memory \in Seq(Request) /\ Len(memory) <= MemCapacity /\ unsaved \subseteq Aligned
    BY <2>1 DEF MemoryInv, SavedInv
  <2> QED BY <2>2, <2>3, <2>4, <2>5, <2>6, <2>7 DEF TypeOK
<1>2. Spec => []Inv
  BY SpecInv
<1> QED BY <1>1, <1>2, PTL

(* A line is in flight exactly while a register names it, two registers     *)
(* never name one line, and a set never holds a tag twice: the assert(false) *)
(* of need_eviction is right, whichever way hits, misses and replies        *)
(* interleave.                                                              *)
THEOREM RegistersAgree ==
  ASSUME LLCAssumption, SimpleO3Assumption
  PROVE  Spec => []RegisterPerLineInFlight
<1>1. ASSUME Inv PROVE RegisterPerLineInFlight
  <2> DEFINE Fetched(i) == {k \in DOMAIN m_cache_sets[i] : ~m_cache_sets[i][k].ready}
             Named == {align(x) : x \in m_mshrs}
             Lines == UNION {{align(m_cache_sets[i][j].addr) : j \in Fetched(i)} : i \in Sets}
  <2>1. SetsInv(m_cache_sets, m_mshrs)
    BY <1>1 DEF Inv, CacheInv
  <2>2. Registers(m_mshrs)
    BY <2>1 DEF SetsInv
  <2>3. ASSUME NEW i \in Sets
        PROVE  SetSound(m_cache_sets[i], i) /\ InFlight(m_cache_sets[i], i, m_mshrs)
    BY <2>1 DEF SetsInv
  <2>4. ASSUME NEW i \in Sets, NEW j \in DOMAIN m_cache_sets[i], NEW x \in m_mshrs,
               get_index(x) = i, get_tag(x) = m_cache_sets[i][j].tag
        PROVE  align(x) = align(m_cache_sets[i][j].addr)
    <3>1. /\ m_cache_sets[i][j].addr \in Addr /\ get_index(m_cache_sets[i][j].addr) = i
          /\ m_cache_sets[i][j].tag = get_tag(m_cache_sets[i][j].addr)
      <4>1. /\ m_cache_sets[i][j] \in Line /\ get_index(m_cache_sets[i][j].addr) = i
            /\ m_cache_sets[i][j].tag = get_tag(m_cache_sets[i][j].addr)
        BY <2>3 DEF SetSound
      <4> QED BY <4>1 DEF Line
    <3>2. x \in Addr
      BY <2>2 DEF Registers
    <3> QED BY <1>1, <2>4, <3>1, <3>2, SameLine
  <2>5. ASSUME NEW x \in m_mshrs PROVE align(x) \in Lines
    <3> DEFINE i == get_index(x)
    <3>1. i \in Sets
      BY <2>2, SameLine DEF Registers
    <3>2. PICK j \in DOMAIN m_cache_sets[i] : m_cache_sets[i][j].tag = get_tag(x) /\ ~m_cache_sets[i][j].ready
      BY <2>3, <3>1 DEF InFlight
    <3>3. align(x) = align(m_cache_sets[i][j].addr)
      BY <2>4, <3>1, <3>2
    <3> HIDE DEF i
    <3> QED BY <3>1, <3>2, <3>3
  <2>6. ASSUME NEW i \in Sets, NEW j \in Fetched(i) PROVE align(m_cache_sets[i][j].addr) \in Named
    <3>1. PICK x \in m_mshrs : get_index(x) = i /\ get_tag(x) = m_cache_sets[i][j].tag
      BY <2>3 DEF InFlight
    <3> QED BY <2>4, <3>1
  <2>7. Named = Lines
    BY <2>5, <2>6
  <2>8. \A x, y \in m_mshrs : align(x) = align(y) => x = y
    BY <2>2 DEF Registers
  <2>9. \A i \in Sets : \A j, k \in DOMAIN m_cache_sets[i] :
          m_cache_sets[i][j].tag = m_cache_sets[i][k].tag => j = k
    BY <2>3 DEF SetSound
  <2> QED BY <2>7, <2>8, <2>9 DEF RegisterPerLineInFlight
<1>2. Spec => []Inv
  BY SpecInv
<1> QED BY <1>1, <1>2, PTL

(* No store is lost: until the memory has accepted its write-back, the line *)
(* is dirty in the cache, or its write-back waits in the miss list.         *)
THEOREM StoresKept ==
  ASSUME LLCAssumption, SimpleO3Assumption
  PROVE  Spec => []StoreKept
<1>1. ASSUME Inv PROVE StoreKept
  <2>1. ASSUME NEW a \in unsaved
        PROVE  \/ \E i \in Sets : \E j \in DOMAIN m_cache_sets[i] :
                    align(m_cache_sets[i][j].addr) = a /\ m_cache_sets[i][j].dirty
               \/ \E i \in DOMAIN m_miss_list :
                    align(m_miss_list[i].req.addr) = a /\ m_miss_list[i].req.type = "Write"
    <3>1. Saved(a)
      BY <1>1 DEF Inv, SavedInv
    <3> QED BY <3>1 DEF Saved, Dirty, DirtyLine, Written, Requests, ToSet
  <2> QED BY <2>1 DEF StoreKept
<1>2. Spec => []Inv
  BY SpecInv
<1> QED BY <1>1, <1>2, PTL

-----------------------------------------------------------------------------
(* The loads of a single core *)

(* The addresses of the loads a window waits for.                           *)
Waiting(w) == {w[i].addr : i \in {j \in DOMAIN w : ~w[j].ready}}

Reads(R, x) == \E r \in R : r.addr = x /\ r.type = "Read"

(* Every register has its read on the way, a list of waiters its register,  *)
(* and hits belong to the core.                                             *)
FetchInv ==
  /\ \A x \in m_mshrs : Reads(Requests(m_miss_list) \cup ToSet(memory), x)
  /\ \A x \in Addr : m_receive_requests[x] # {} => x \in m_mshrs
  /\ \A r \in Requests(m_hit_list) : r.source \in Core

(* A hit of the core at this address is on its way, or the core waits for   *)
(* the line.                                                                *)
WakesUp(c, a) ==
  \/ \E r \in Requests(m_hit_list) : r.addr = a /\ r.source = c
  \/ a \in Addr /\ \E q \in m_receive_requests[a] : q.addr = a /\ q.source = c

WakeInv ==
  /\ Inv
  /\ FetchInv
  /\ \A c \in Core : \A a \in Waiting(m_window[c]) : WakesUp(c, a)

LEMMA LineRegister ==
  ASSUME OneCoreOfLines, CacheInv, NEW a \in Addr
  PROVE  check_mshr_hit(a) = m_mshrs \cap {a}
<1>1. m_mshrs \subseteq Addr
  BY DEF CacheInv, SetsInv, Registers
<1> QED BY <1>1 DEF OneCoreOfLines, check_mshr_hit

LEMMA SendWakes ==
  ASSUME LLCAssumption, OneCoreOfLines, CacheInv, FetchInv, NEW q \in Request, q.source \in Core,
         send(q), memory' = memory
  PROVE  /\ FetchInv'
         /\ \A c, a : WakesUp(c, a) => WakesUp(c, a)'
         /\ WakesUp(q.source, q.addr)'
<1>1. /\ SetsInv(m_cache_sets, m_mshrs) /\ m_receive_requests \in [Addr -> SUBSET Request]
      /\ m_miss_list \in Seq(DelayedRequest) /\ m_hit_list \in Seq(DelayedRequest)
  BY DEF CacheInv
<1>2. /\ Delayed(q) \in DelayedRequest /\ Delayed(q).req = q /\ q.addr \in Addr
      /\ AsRead(q).addr = q.addr /\ AsRead(q).type = "Read" /\ AsRead(q).source = q.source
  BY DelayedFacts DEF Request
<1>3. check_mshr_hit(q.addr) = m_mshrs \cap {q.addr}
  BY <1>2, LineRegister
<1>4. CASE SendHit(q)
  <2>1. /\ m_hit_list' = Append(m_hit_list, Delayed(q)) /\ m_mshrs' = m_mshrs
        /\ m_receive_requests' = m_receive_requests /\ m_miss_list' = m_miss_list
    BY <1>4 DEF SendHit
  <2>2. Requests(m_hit_list') = Requests(m_hit_list) \cup {q}
    <3>1. ToSet(m_hit_list') = ToSet(m_hit_list) \cup {Delayed(q)}
      BY <1>1, <1>2, <2>1, AppendSet
    <3> QED BY <1>2, <3>1 DEF Requests
  <2>3. FetchInv'
    BY <2>1, <2>2 DEF FetchInv
  <2> QED BY <2>1, <2>2, <2>3 DEF WakesUp
<1>5. CASE SendMSHRHit(q)
  <2>1. m_hit_list' = m_hit_list /\ m_miss_list' = m_miss_list /\ m_mshrs' = m_mshrs
    BY <1>5 DEF SendMSHRHit
  <2>2. /\ q.addr \in m_mshrs
        /\ m_receive_requests' = [m_receive_requests EXCEPT ![q.addr] = @ \cup {AsRead(q)}]
    BY <1>3, <1>5 DEF SendMSHRHit
  <2>3. /\ m_receive_requests'[q.addr] = m_receive_requests[q.addr] \cup {AsRead(q)}
        /\ \A x \in Addr : x # q.addr => m_receive_requests'[x] = m_receive_requests[x]
    BY <1>1, <1>2, <2>2
  <2>4. FetchInv'
    BY <2>1, <2>2, <2>3 DEF FetchInv
  <2>5. ASSUME NEW c, NEW a, WakesUp(c, a) PROVE WakesUp(c, a)'
    BY <2>1, <2>3, <2>5 DEF WakesUp
  <2>6. WakesUp(q.source, q.addr)'
    BY <1>2, <2>3 DEF WakesUp
  <2> QED BY <2>4, <2>5, <2>6
<1>6. CASE SendMiss(q)
  <2>1. /\ m_hit_list' = m_hit_list /\ m_mshrs' = m_mshrs \cup {q.addr} /\ q.addr \notin m_mshrs
        /\ m_receive_requests' = [m_receive_requests EXCEPT ![q.addr] = {AsRead(q)}]
    BY <1>3, <1>6 DEF SendMiss
  <2>2. Requests(m_miss_list) \cup {AsRead(q)} \subseteq Requests(m_miss_list')
    BY <1>1, <1>6, SendMissFacts DEF send
  <2>3. /\ m_receive_requests'[q.addr] = {AsRead(q)} /\ m_receive_requests[q.addr] = {}
        /\ \A x \in Addr : x # q.addr => m_receive_requests'[x] = m_receive_requests[x]
    BY <1>1, <1>2, <2>1 DEF FetchInv
  <2>4. FetchInv'
    <3>1. ASSUME NEW x \in m_mshrs' PROVE Reads(Requests(m_miss_list') \cup ToSet(memory'), x)
      <4>1. CASE x \in m_mshrs
        BY <2>2, <4>1 DEF FetchInv, Reads
      <4>2. CASE x = q.addr
        BY <1>2, <2>2, <4>2 DEF Reads
      <4> QED BY <2>1, <4>1, <4>2
    <3>2. \A x \in Addr : m_receive_requests'[x] # {} => x \in m_mshrs'
      BY <2>1, <2>3 DEF FetchInv
    <3> QED BY <2>1, <3>1, <3>2 DEF FetchInv
  <2>5. ASSUME NEW c, NEW a, WakesUp(c, a) PROVE WakesUp(c, a)'
    BY <2>1, <2>3, <2>5 DEF WakesUp
  <2>6. WakesUp(q.source, q.addr)'
    BY <1>2, <2>3 DEF WakesUp
  <2> QED BY <2>4, <2>5, <2>6
<1> QED BY <1>4, <1>5, <1>6 DEF send

LEMMA CallbackWakes ==
  ASSUME OneCoreOfLines, CacheInv, CoresInv, FetchInv, NEW a \in Addr, NEW Q, Callback(a, Q)
  PROVE  /\ m_mshrs' = m_mshrs \ {a}
         /\ m_receive_requests' = [m_receive_requests EXCEPT ![a] = {}]
         /\ \A c \in Core : \A b \in Waiting(m_window'[c]) :
              b \in Waiting(m_window[c]) /\ \A q \in Q : q.source = c => q.addr # b
<1>1. check_mshr_hit(a) = m_mshrs \cap {a}
  BY LineRegister
<1>2. m_mshrs' = m_mshrs \ {a} /\ m_receive_requests' = [m_receive_requests EXCEPT ![a] = {}]
  BY <1>1 DEF Callback, receive
<1>3. ASSUME NEW c \in Core, NEW b \in Waiting(m_window'[c])
      PROVE  b \in Waiting(m_window[c]) /\ \A q \in Q : q.source = c => q.addr # b
  <2> DEFINE v == Woken(Q)
  <2>1. m_window' = v
    BY DEF Callback
  <2>2. /\ DOMAIN v[c] = DOMAIN m_window[c]
        /\ \A i \in DOMAIN m_window[c] :
             /\ v[c][i].addr = m_window[c][i].addr
             /\ ~v[c][i].ready => ~m_window[c][i].ready
                                  /\ \A q \in Q : q.source = c => q.addr # m_window[c][i].addr
    BY WokenFacts DEF CoresInv
  <2> HIDE DEF v
  <2>3. PICK i \in DOMAIN v[c] : ~v[c][i].ready /\ v[c][i].addr = b
    BY <1>3, <2>1 DEF Waiting
  <2> QED BY <2>2, <2>3 DEF Waiting
<1> QED BY <1>2, <1>3

LEMMA NoNewLoad ==
  ASSUME SimpleO3Assumption, NEW c \in Core, CoresInv
  PROVE  Waiting(AfterBubbles(c)) \subseteq Waiting(m_window[c])
<1>1. \A i \in DOMAIN AfterBubbles(c) : ~AfterBubbles(c)[i].ready =>
         \E j \in DOMAIN m_window[c] : AfterBubbles(c)[i] = m_window[c][j]
  BY BubbleFacts
<1> DEFINE u == AfterBubbles(c)
           w == m_window[c]
<1>2. \A i \in DOMAIN u : ~u[i].ready => \E j \in DOMAIN w : u[i] = w[j]
  BY <1>1
<1> HIDE DEF u, w
<1>3. Waiting(u) \subseteq Waiting(w)
  BY <1>2 DEF Waiting
<1> QED BY <1>3 DEF u, w

LEMMA OneNewLoad ==
  ASSUME NEW w \in Seq(Entry), NEW e \in Entry
  PROVE  Waiting(Append(w, e)) \subseteq Waiting(w) \cup {e.addr}
<1>1. /\ DOMAIN w = 1 .. Len(w) /\ Len(w) \in Nat /\ DOMAIN Append(w, e) = 1 .. (Len(w) + 1)
      /\ \A j \in 1 .. Len(w) : Append(w, e)[j] = w[j]
      /\ Append(w, e)[Len(w) + 1] = e
  BY AppendFacts
<1> DEFINE v == Append(w, e)
           n == Len(w) + 1
<1>2. DOMAIN v = DOMAIN w \cup {n} /\ (\A j \in DOMAIN w : v[j] = w[j]) /\ v[n] = e
  BY <1>1
<1> HIDE DEF v, n
<1>3. Waiting(v) \subseteq Waiting(w) \cup {e.addr}
  BY <1>2 DEF Waiting
<1> QED BY <1>3 DEF v

(* Steps that free no register and add no load.                             *)
LEMMA StillWaiting ==
  ASSUME WakeInv, Inv', FetchInv', \A c, a : WakesUp(c, a) => WakesUp(c, a)',
         \A c \in Core : Waiting(m_window'[c]) \subseteq Waiting(m_window[c])
  PROVE  WakeInv'
BY DEF WakeInv

LEMMA NoSend ==
  ASSUME FetchInv, UNCHANGED llc_vars, memory' = memory
  PROVE  FetchInv' /\ \A c, a : WakesUp(c, a) => WakesUp(c, a)'
<1>1. /\ m_mshrs' = m_mshrs /\ m_hit_list' = m_hit_list
      /\ m_receive_requests' = m_receive_requests /\ m_miss_list' = m_miss_list
  BY DEF llc_vars
<1> QED BY <1>1 DEF FetchInv, WakesUp

LEMMA WindowOfCore ==
  ASSUME SimpleO3Assumption, NEW c \in Core, CoresInv, m_window' = [m_window EXCEPT ![c] = AfterBubbles(c)]
  PROVE  \A d \in Core : Waiting(m_window'[d]) \subseteq Waiting(m_window[d])
<1>1. Waiting(AfterBubbles(c)) \subseteq Waiting(m_window[c])
  BY NoNewLoad
<1>2. m_window'[c] = AfterBubbles(c) /\ \A d \in Core : d # c => m_window'[d] = m_window[d]
  BY DEF CoresInv
<1> QED BY <1>1, <1>2

LEMMA LoadWakes ==
  ASSUME LLCAssumption, SimpleO3Assumption, OneCoreOfLines, WakeInv, NEW c \in Core, TickLoad(c)
  PROVE  WakeInv'
<1>1. Inv /\ FetchInv /\ CacheInv /\ CoresInv
  BY DEF WakeInv, Inv
<1>2. fetched[c].load_addr \in Addr
  BY <1>1 DEF TickLoad, MayLoad, CoresInv, Inst
<1>3. PICK q \in Request : /\ q.source = c /\ q.addr = fetched[c].load_addr
                          /\ send(q) /\ memory' = memory
  BY <1>2 DEF Load, Request, TickLoad, CoreTurn
<1> DEFINE e == [ready |-> FALSE, addr |-> q.addr]
<1>4. /\ FetchInv'
      /\ \A d, a : WakesUp(d, a) => WakesUp(d, a)'
      /\ WakesUp(c, q.addr)'
  <2>1. q.source \in Core
    BY <1>3
  <2>2. /\ FetchInv'
        /\ \A d, a : WakesUp(d, a) => WakesUp(d, a)'
        /\ WakesUp(q.source, q.addr)'
    BY <1>1, <1>3, <2>1, SendWakes
  <2> QED BY <1>3, <2>2
<1>5. Inv'
  BY <1>1, LoadInv
<1>6. Waiting(Append(AfterBubbles(c), e)) \subseteq Waiting(m_window[c]) \cup {e.addr}
  <2>1. AfterBubbles(c) \in Seq(Entry)
    BY <1>1, BubbleFacts
  <2>2. Waiting(Append(AfterBubbles(c), e)) \subseteq Waiting(AfterBubbles(c)) \cup {e.addr}
    <3>1. e \in Entry /\ e.addr = q.addr
      BY DEF Entry, Request
    <3> QED BY <2>1, <3>1, OneNewLoad
  <2>3. Waiting(AfterBubbles(c)) \subseteq Waiting(m_window[c])
    BY <1>1, NoNewLoad
  <2> QED BY <2>2, <2>3
<1>7. m_window' = [m_window EXCEPT ![c] = Append(AfterBubbles(c), e)]
  BY <1>3 DEF TickLoad
<1>10. e.addr = q.addr
  OBVIOUS
<1> HIDE DEF e
<1>8. m_window'[c] = Append(AfterBubbles(c), e) /\ \A d \in Core : d # c => m_window'[d] = m_window[d]
  BY <1>1, <1>7 DEF CoresInv
<1>9. ASSUME NEW d \in Core, NEW a \in Waiting(m_window'[d]) PROVE WakesUp(d, a)'
  <2>1. CASE d = c /\ a = e.addr
    BY <1>4, <1>10, <2>1
  <2>2. CASE ~(d = c /\ a = e.addr)
    <3>1. a \in Waiting(m_window[d])
      BY <1>6, <1>8, <1>9, <2>2
    <3>2. WakesUp(d, a)
      BY <3>1 DEF WakeInv
    <3> QED BY <1>4, <3>2
  <2> QED BY <2>1, <2>2
<1> QED BY <1>4, <1>5, <1>9 DEF WakeInv

LEMMA StoreWakes ==
  ASSUME LLCAssumption, SimpleO3Assumption, OneCoreOfLines, WakeInv, NEW c \in Core, TickStore(c)
  PROVE  WakeInv'
<1>1. Inv /\ FetchInv /\ CacheInv /\ CoresInv
  BY DEF WakeInv, Inv
<1>2. fetched[c].store_addr \in Addr
  BY <1>1 DEF TickStore, MayStore, CoresInv, Inst
<1>3. /\ Store(c) \in Request /\ Store(c).source \in Core
      /\ send(Store(c)) /\ memory' = memory
  BY <1>2 DEF Store, Request, TickStore, CoreTurn
<1>4. FetchInv' /\ \A d, a : WakesUp(d, a) => WakesUp(d, a)'
  BY <1>1, <1>3, SendWakes
<1>5. Inv'
  BY <1>1, StoreInv
<1>6. \A d \in Core : Waiting(m_window'[d]) \subseteq Waiting(m_window[d])
  BY <1>1, WindowOfCore DEF TickStore
<1> QED BY <1>4, <1>5, <1>6, StillWaiting

LEMMA NoSendWakes ==
  ASSUME LLCAssumption, SimpleO3Assumption, WakeInv, NEW c \in Core, TickNoMemory(c) \/ TickStall(c)
  PROVE  WakeInv'
<1>1. Inv /\ FetchInv /\ CacheInv /\ CoresInv
  BY DEF WakeInv, Inv
<1>2. /\ UNCHANGED llc_vars /\ memory' = memory
      /\ m_window' = [m_window EXCEPT ![c] = AfterBubbles(c)]
  BY DEF TickNoMemory, TickStall, CoreTurn
<1>3. FetchInv' /\ \A d, a : WakesUp(d, a) => WakesUp(d, a)'
  BY <1>1, <1>2, NoSend
<1>4. Inv'
  BY <1>1, NoMemoryInv, StallInv
<1>5. \A d \in Core : Waiting(m_window'[d]) \subseteq Waiting(m_window[d])
  BY <1>1, <1>2, WindowOfCore
<1> QED BY <1>3, <1>4, <1>5, StillWaiting

LEMMA MissesWake ==
  ASSUME LLCAssumption, SimpleO3Assumption, WakeInv, TickMisses
  PROVE  WakeInv'
<1>1. Inv /\ FetchInv /\ CacheInv /\ MemoryInv
  BY DEF WakeInv, Inv
<1>2. /\ Requests(m_hit_list') = Requests(m_hit_list)
      /\ \E S : /\ \A r \in Requests(m_miss_list) : r \in Requests(m_miss_list') \/ r \in S
                /\ ToSet(memory') = ToSet(memory) \cup S
  BY <1>1, TickMissesFacts
<1>3. Requests(m_miss_list) \cup ToSet(memory) \subseteq Requests(m_miss_list') \cup ToSet(memory')
  BY <1>2
<1>4. m_mshrs' = m_mshrs /\ m_receive_requests' = m_receive_requests /\ m_window' = m_window
  BY DEF TickMisses, core_vars
<1>5. FetchInv'
  <2>1. \A x : Reads(Requests(m_miss_list) \cup ToSet(memory), x) =>
               Reads(Requests(m_miss_list') \cup ToSet(memory'), x)
    BY <1>3 DEF Reads
  <2> QED BY <1>1, <1>2, <1>4, <2>1 DEF FetchInv
<1>6. \A c, a : WakesUp(c, a) => WakesUp(c, a)'
  BY <1>2, <1>4 DEF WakesUp
<1>7. Inv'
  BY <1>1, MissesInv
<1> QED BY <1>4, <1>5, <1>6, <1>7, StillWaiting

(* A hit frees the register of its line, and wakes all who wait for it.     *)
LEMMA HitWakes ==
  ASSUME LLCAssumption, SimpleO3Assumption, OneCoreOfLines, WakeInv, TickHit
  PROVE  WakeInv'
<1> DEFINE i == Min(Matured(m_hit_list))
           r == m_hit_list[i].req
           a == r.addr
<1>1. Inv /\ FetchInv /\ CacheInv /\ CoresInv
  BY DEF WakeInv, Inv
<1>2. i \in DOMAIN m_hit_list /\ r \in Request
  BY <1>1, HitFacts DEF TickHit
<1>3. /\ Callback(a, {r}) /\ m_hit_list' = RemoveAt(m_hit_list, i)
      /\ m_miss_list' = m_miss_list /\ memory' = memory
  BY DEF TickHit
<1> HIDE DEF i
<1>4. a \in Addr /\ r.source \in Core /\ r \in Requests(m_hit_list)
  <2>1. r \in Requests(m_hit_list)
    BY <1>2 DEF Requests, ToSet
  <2> QED BY <1>1, <1>2, <2>1 DEF Request, FetchInv
<1>5. m_hit_list \in Seq(DelayedRequest)
  BY <1>1 DEF CacheInv
<1> HIDE DEF a
<1>6. /\ ToSet(m_hit_list') \subseteq ToSet(m_hit_list)
      /\ \A e \in ToSet(m_hit_list) : e = m_hit_list[i] \/ e \in ToSet(m_hit_list')
  <2>1. /\ ToSet(RemoveAt(m_hit_list, i)) \subseteq ToSet(m_hit_list)
        /\ \A e \in ToSet(m_hit_list) : e = m_hit_list[i] \/ e \in ToSet(RemoveAt(m_hit_list, i))
    BY <1>2, <1>5, RemoveSet
  <2> QED BY <1>3, <2>1
<1>7. /\ Requests(m_hit_list') \subseteq Requests(m_hit_list)
      /\ \A x \in Requests(m_hit_list) : x = r \/ x \in Requests(m_hit_list')
  BY <1>6 DEF Requests
<1> HIDE DEF r
<1>8. /\ m_mshrs' = m_mshrs \ {a}
      /\ m_receive_requests' = [m_receive_requests EXCEPT ![a] = {}]
      /\ \A c \in Core : \A b \in Waiting(m_window'[c]) :
           b \in Waiting(m_window[c]) /\ \A q \in {r} : q.source = c => q.addr # b
  BY <1>1, <1>3, <1>4, CallbackWakes
<1>9. /\ m_receive_requests'[a] = {}
      /\ \A x \in Addr : x # a => m_receive_requests'[x] = m_receive_requests[x]
  BY <1>1, <1>4, <1>8 DEF CacheInv
<1>10. FetchInv'
  BY <1>1, <1>3, <1>7, <1>8, <1>9 DEF FetchInv
<1>11. ASSUME NEW c \in Core, NEW b \in Waiting(m_window'[c]) PROVE WakesUp(c, b)'
  <2>1. r.source = c
    BY <1>4 DEF OneCoreOfLines
  <2>2. b \in Waiting(m_window[c]) /\ b # a
    BY <1>8, <2>1 DEF a
  <2>3. WakesUp(c, b)
    BY <2>2 DEF WakeInv
  <2>4. ASSUME NEW x \in Requests(m_hit_list), x.addr = b, x.source = c PROVE WakesUp(c, b)'
    <3>1. x \in Requests(m_hit_list')
      BY <1>7, <2>2, <2>4 DEF a
    <3> QED BY <2>4, <3>1 DEF WakesUp
  <2>5. ASSUME b \in Addr, NEW q \in m_receive_requests[b], q.addr = b, q.source = c
        PROVE  WakesUp(c, b)'
    BY <1>9, <2>2, <2>5 DEF WakesUp
  <2> QED BY <2>3, <2>4, <2>5 DEF WakesUp
<1>12. Inv'
  BY <1>1, HitInv
<1> QED BY <1>10, <1>11, <1>12 DEF WakeInv

(* A reply frees the register it was fetched for, and wakes its list.       *)
LEMMA ServeWakes ==
  ASSUME LLCAssumption, SimpleO3Assumption, OneCoreOfLines, WakeInv,
         NEW i \in DOMAIN memory, MemoryServes(i)
  PROVE  WakeInv'
<1> DEFINE m == memory[i]
           a == m.addr
<1>1. Inv /\ FetchInv /\ CacheInv /\ CoresInv /\ MemoryInv
  BY DEF WakeInv, Inv
<1>2. /\ m_miss_list' = m_miss_list /\ m_hit_list' = m_hit_list /\ memory' = RemoveAt(memory, i)
  BY DEF MemoryServes
<1>3. m \in Request
  BY <1>1 DEF MemoryInv
<1>4. \A x \in ToSet(memory) : x = m \/ x \in ToSet(memory')
  BY <1>1, <1>2, RemoveSet DEF MemoryInv
<1>5. Inv'
  BY <1>1, ServeInv
<1>6. CASE m.type = "Read"
  <2>1. a \in Addr /\ Callback(a, m_receive_requests[a])
    BY <1>3, <1>6 DEF MemoryServes, Request
  <2>2. /\ m_mshrs' = m_mshrs \ {a}
        /\ m_receive_requests' = [m_receive_requests EXCEPT ![a] = {}]
        /\ \A c \in Core : \A b \in Waiting(m_window'[c]) :
             b \in Waiting(m_window[c]) /\ \A q \in m_receive_requests[a] : q.source = c => q.addr # b
    BY <1>1, <2>1, CallbackWakes
  <2>3. /\ m_receive_requests'[a] = {}
        /\ \A x \in Addr : x # a => m_receive_requests'[x] = m_receive_requests[x]
    BY <1>1, <2>1, <2>2 DEF CacheInv
  <2>4. ASSUME NEW x \in m_mshrs' PROVE Reads(Requests(m_miss_list') \cup ToSet(memory'), x)
    <3>1. x \in m_mshrs /\ x # a
      BY <2>2
    <3>2. PICK r \in Requests(m_miss_list) \cup ToSet(memory) : r.addr = x /\ r.type = "Read"
      BY <1>1, <3>1 DEF FetchInv, Reads
    <3>3. r # m
      BY <3>1, <3>2
    <3> HIDE DEF m
    <3> QED BY <1>2, <1>4, <3>2, <3>3 DEF Reads
  <2>5. FetchInv'
    <3> HIDE DEF a
    <3>1. \A x \in Addr : m_receive_requests'[x] # {} => x \in m_mshrs'
      BY <1>1, <2>2, <2>3 DEF FetchInv
    <3>2. \A r \in Requests(m_hit_list') : r.source \in Core
      BY <1>1, <1>2 DEF FetchInv
    <3> QED BY <2>4, <3>1, <3>2 DEF FetchInv
  <2>6. ASSUME NEW c \in Core, NEW b \in Waiting(m_window'[c]) PROVE WakesUp(c, b)'
    <3>1. b \in Waiting(m_window[c]) /\ \A q \in m_receive_requests[a] : q.source = c => q.addr # b
      BY <2>2
    <3>2. WakesUp(c, b)
      BY <3>1 DEF WakeInv
    <3>3. ASSUME b \in Addr, NEW q \in m_receive_requests[b], q.addr = b, q.source = c
          PROVE  WakesUp(c, b)'
      <4>1. b # a
        BY <3>1, <3>3
      <4> HIDE DEF a
      <4> QED BY <2>3, <3>3, <4>1 DEF WakesUp
    <3>4. ASSUME NEW x \in Requests(m_hit_list), x.addr = b, x.source = c PROVE WakesUp(c, b)'
      BY <1>2, <3>4 DEF WakesUp
    <3> QED BY <3>2, <3>3, <3>4 DEF WakesUp
  <2> QED BY <1>5, <2>5, <2>6 DEF WakeInv
<1>7. CASE m.type # "Read"
  <2>1. UNCHANGED <<m_cache_sets, m_mshrs, m_receive_requests, m_window>>
    BY <1>7 DEF MemoryServes
  <2>2. ASSUME NEW x, Reads(Requests(m_miss_list) \cup ToSet(memory), x)
        PROVE  Reads(Requests(m_miss_list') \cup ToSet(memory'), x)
    <3>1. PICK r \in Requests(m_miss_list) \cup ToSet(memory) : r.addr = x /\ r.type = "Read"
      BY <2>2 DEF Reads
    <3>2. r # m
      BY <1>7, <3>1
    <3> HIDE DEF m
    <3> QED BY <1>2, <1>4, <3>1, <3>2 DEF Reads
  <2>3. FetchInv'
    BY <1>1, <1>2, <2>1, <2>2 DEF FetchInv
  <2>4. \A c, b : WakesUp(c, b) => WakesUp(c, b)'
    BY <1>2, <2>1 DEF WakesUp
  <2> QED BY <1>5, <2>1, <2>3, <2>4, StillWaiting
<1> QED BY <1>6, <1>7

LEMMA TurnWakes ==
  ASSUME WakeInv, UNCHANGED <<llc_vars, core_vars, memory, unsaved>>, TurnInv'
  PROVE  WakeInv'
<1>1. Inv' /\ FetchInv
  BY TurnStep DEF WakeInv
<1>2. FetchInv' /\ \A c, a : WakesUp(c, a) => WakesUp(c, a)'
  BY <1>1, NoSend
<1>3. m_window' = m_window
  BY DEF core_vars
<1> QED BY <1>1, <1>2, <1>3, StillWaiting

LEMMA NextWakes ==
  ASSUME LLCAssumption, SimpleO3Assumption, OneCoreOfLines, WakeInv, [Next]_vars
  PROVE  WakeInv'
<1>1. CASE TickMisses
  BY <1>1, MissesWake
<1>2. CASE TickHit
  BY <1>2, HitWakes
<1>3. CASE TickHitsDone
  <2>1. 0 \in Core
    BY DEF SimpleO3Assumption
  <2>2. UNCHANGED <<llc_vars, core_vars, memory, unsaved>> /\ TurnInv'
    BY <1>3, <2>1 DEF TickHitsDone, TurnInv
  <2> QED BY <2>2, TurnWakes
<1>4. CASE CoreTick
  BY <1>4, LoadWakes, StoreWakes, NoSendWakes DEF CoreTick
<1>5. CASE \E i \in DOMAIN memory : MemoryServes(i)
  BY <1>5, ServeWakes
<1>6. CASE MemoryTickEnds
  <2>1. UNCHANGED <<llc_vars, core_vars, memory, unsaved>> /\ TurnInv'
    BY <1>6 DEF MemoryTickEnds, TurnInv
  <2> QED BY <2>1, TurnWakes
<1>7. CASE Finished \/ UNCHANGED vars
  <2>1. UNCHANGED <<llc_vars, core_vars, memory, unsaved>> /\ turn' = turn
    BY <1>7 DEF Finished, vars
  <2>2. TurnInv'
    BY <2>1 DEF WakeInv, Inv, TurnInv
  <2> QED BY <2>1, <2>2, TurnWakes
<1> QED BY <1>1, <1>2, <1>3, <1>4, <1>5, <1>6, <1>7 DEF Next

(* Who wakes a load is on his way.                                          *)
LEMMA WakerFound ==
  ASSUME FetchInv, NEW c, NEW a, WakesUp(c, a)
  PROVE  WillWake(c, a)
<1>1. CASE \E r \in Requests(m_hit_list) : r.addr = a /\ r.source = c
  <2>1. PICK j \in DOMAIN m_hit_list : m_hit_list[j].req.addr = a /\ m_hit_list[j].req.source = c
    BY <1>1 DEF Requests, ToSet
  <2> QED BY <2>1 DEF WillWake
<1>2. CASE a \in Addr /\ \E q \in m_receive_requests[a] : q.addr = a /\ q.source = c
  <2>1. a \in m_mshrs
    BY <1>2 DEF FetchInv
  <2>2. PICK r \in Requests(m_miss_list) \cup ToSet(memory) : r.addr = a /\ r.type = "Read"
    BY <2>1 DEF FetchInv, Reads
  <2>3. \/ \E j \in DOMAIN m_miss_list :
              m_miss_list[j].req.addr = a /\ m_miss_list[j].req.type = "Read"
        \/ \E j \in DOMAIN memory : memory[j].addr = a /\ memory[j].type = "Read"
    BY <2>2 DEF Requests, ToSet
  <2> QED BY <1>2, <2>3 DEF WillWake
<1> QED BY <1>1, <1>2 DEF WakesUp

(* No load of a single core waits for a callback that will not come,        *)
(* although a hit that completes late takes the waiters of its address out  *)
(* of their list (llc.cpp: tick, the map's assignment).                     *)
THEOREM LoadsWake ==
  ASSUME LLCAssumption, SimpleO3Assumption, OneCoreOfLines
  PROVE  Spec => []EveryLoadWillWake
<1>1. Init => WakeInv
  <2>1. ASSUME Init PROVE Inv
    BY <2>1, InitInv
  <2>2. ASSUME Init PROVE FetchInv
    <3>1. ToSet(<<>>) = {}
      BY DEF ToSet
    <3>2. m_mshrs = {} /\ m_receive_requests = [a \in Addr |-> {}] /\ m_hit_list = <<>>
      BY <2>2 DEF Init, LLCInit
    <3> QED BY <3>1, <3>2 DEF FetchInv, Requests
  <2>3. ASSUME Init PROVE \A c \in Core : Waiting(m_window[c]) = {}
    BY <2>3 DEF Init, Waiting
  <2> QED BY <2>1, <2>2, <2>3 DEF WakeInv
<1>2. WakeInv /\ [Next]_vars => WakeInv'
  BY NextWakes
<1>3. ASSUME WakeInv PROVE EveryLoadWillWake
  <2>1. FetchInv
    BY <1>3 DEF WakeInv
  <2>2. ASSUME NEW c \in Core, NEW i \in DOMAIN m_window[c], ~m_window[c][i].ready
        PROVE  WillWake(c, m_window[c][i].addr)
    <3>1. m_window[c][i].addr \in Waiting(m_window[c])
      BY <2>2 DEF Waiting
    <3>2. WakesUp(c, m_window[c][i].addr)
      BY <1>3, <3>1 DEF WakeInv
    <3> QED BY <2>1, <3>2, WakerFound
  <2> QED BY <2>2 DEF EveryLoadWillWake
<1> QED BY <1>1, <1>2, <1>3, PTL DEF Spec
=============================================================================
