-------------------- MODULE GenericDRAMController_proofs --------------------
(***************************************************************************)
(* Proofs about the generic controller, for any device, accesses, buffer    *)
(* sizes, watermarks and refresh interval: where its requests go, and in    *)
(* which order its writes are finished.                                     *)
(***************************************************************************)
EXTENDS GenericDRAMController, DRAMNode_proofs

-----------------------------------------------------------------------------
(* Sequences *)

LEMMA RemoveFacts ==
  ASSUME NEW T, NEW s \in Seq(T), NEW i \in DOMAIN s
  PROVE  /\ RemoveAt(s, i) \in Seq(T)
         /\ Len(s) \in Nat /\ i \in 1 .. Len(s)
         /\ Len(RemoveAt(s, i)) = Len(s) - 1
         /\ DOMAIN RemoveAt(s, i) = 1 .. (Len(s) - 1)
         /\ \A j \in 1 .. (Len(s) - 1) : RemoveAt(s, i)[j] = IF j < i THEN s[j] ELSE s[j + 1]
<1> DEFINE before == SubSeq(s, 1, i - 1)
           after == SubSeq(s, i + 1, Len(s))
<1>1. Len(s) \in Nat /\ i \in 1 .. Len(s)
  OBVIOUS
<1>2. /\ before \in Seq(T) /\ Len(before) = i - 1
      /\ \A j \in 1 .. (i - 1) : before[j] = s[j]
  BY <1>1
<1>3. /\ after \in Seq(T) /\ Len(after) = Len(s) - i
      /\ \A j \in 1 .. (Len(s) - i) : after[j] = s[i + j]
  BY <1>1
<1>4. RemoveAt(s, i) = before \o after
  BY DEF RemoveAt
<1> HIDE DEF before, after
<1>5. /\ RemoveAt(s, i) \in Seq(T)
      /\ Len(RemoveAt(s, i)) = Len(s) - 1
  BY <1>1, <1>2, <1>3, <1>4
<1>6. ASSUME NEW j \in 1 .. (Len(s) - 1)
      PROVE  RemoveAt(s, i)[j] = IF j < i THEN s[j] ELSE s[j + 1]
  <2>1. CASE j < i
    BY <1>1, <1>2, <1>3, <1>4, <2>1
  <2>2. CASE ~(j < i)
    <3>1. j - (i - 1) \in 1 .. (Len(s) - i)
      BY <1>1, <2>2
    <3>2. RemoveAt(s, i)[j] = after[j - Len(before)]
      <4>1. j \in 1 .. Len(before) + Len(after) /\ ~(j <= Len(before))
        BY <1>1, <1>2, <1>3, <2>2
      <4>2. (before \o after)[j] = IF j <= Len(before) THEN before[j] ELSE after[j - Len(before)]
        BY <1>2, <1>3, <4>1, ConcatProperties
      <4> QED BY <1>4, <4>1, <4>2
    <3>3. after[j - (i - 1)] = s[j + 1]
      BY <1>1, <1>3, <2>2, <3>1, SMTT(30)
    <3> QED BY <1>2, <2>2, <3>2, <3>3
  <2> QED BY <2>1, <2>2
<1> QED BY <1>1, <1>5, <1>6

LEMMA AppendFacts ==
  ASSUME NEW T, NEW s \in Seq(T), NEW e \in T
  PROVE  /\ Append(s, e) \in Seq(T)
         /\ Len(s) \in Nat /\ DOMAIN s = 1 .. Len(s)
         /\ Len(Append(s, e)) = Len(s) + 1
         /\ DOMAIN Append(s, e) = 1 .. (Len(s) + 1)
         /\ \A j \in 1 .. Len(s) : Append(s, e)[j] = s[j]
         /\ Append(s, e)[Len(s) + 1] = e
OBVIOUS

(* Taking out what comes before and putting in behind commute.              *)
LEMMA RemoveAppend ==
  ASSUME NEW T, NEW s \in Seq(T), NEW i \in DOMAIN s, NEW e \in T
  PROVE  RemoveAt(Append(s, e), i) = Append(RemoveAt(s, i), e)
<1> DEFINE a == Append(s, e)
           l == RemoveAt(a, i)
           r == Append(RemoveAt(s, i), e)
<1>1. a \in Seq(T) /\ Len(s) \in Nat /\ i \in 1 .. Len(s) /\ Len(a) = Len(s) + 1
      /\ i \in DOMAIN a /\ (\A j \in 1 .. Len(s) : a[j] = s[j]) /\ a[Len(s) + 1] = e
  BY AppendFacts
<1> HIDE DEF a
<1>2. l \in Seq(T) /\ Len(l) = Len(s)
      /\ \A j \in 1 .. Len(s) : l[j] = IF j < i THEN a[j] ELSE a[j + 1]
  <2>1. l \in Seq(T) /\ Len(l) = Len(a) - 1
        /\ \A j \in 1 .. (Len(a) - 1) : l[j] = IF j < i THEN a[j] ELSE a[j + 1]
    BY <1>1, RemoveFacts
  <2>2. Len(a) - 1 = Len(s)
    BY <1>1
  <2> HIDE DEF l
  <2> QED BY <2>1, <2>2
<1>3. /\ RemoveAt(s, i) \in Seq(T) /\ Len(RemoveAt(s, i)) = Len(s) - 1
      /\ \A j \in 1 .. (Len(s) - 1) : RemoveAt(s, i)[j] = IF j < i THEN s[j] ELSE s[j + 1]
  BY RemoveFacts
<1>4. r \in Seq(T) /\ Len(r) = Len(s) /\ r[Len(s)] = e
      /\ \A j \in 1 .. (Len(s) - 1) : r[j] = RemoveAt(s, i)[j]
  BY <1>1, <1>3, AppendFacts
<1> HIDE DEF l, r
<1>5. ASSUME NEW j \in 1 .. Len(s) PROVE l[j] = r[j]
  <2>1. CASE j = Len(s)
    BY <1>1, <1>2, <1>4, <2>1
  <2>2. CASE j # Len(s)
    <3>1. j \in 1 .. (Len(s) - 1) /\ j + 1 \in 1 .. Len(s)
      BY <1>1, <2>2
    <3>2. l[j] = IF j < i THEN s[j] ELSE s[j + 1]
      BY <1>1, <1>2, <3>1
    <3> QED BY <1>3, <1>4, <3>1, <3>2
  <2> QED BY <2>1, <2>2
<1>6. l = r
  BY <1>2, <1>4, <1>5, SeqEqual
<1> QED BY <1>6 DEF l, r, a

(* The first place of q is where an iterator is that points at it.          *)
LEMMA PositionFacts ==
  ASSUME NEW T, NEW s \in Seq(T), NEW i \in DOMAIN s, \A j \in 1 .. (i - 1) : s[j] # s[i]
  PROVE  Position(s, s[i]) = i
<1> DEFINE First(k) == k \in DOMAIN s /\ s[k] = s[i] /\ \A j \in 1 .. (k - 1) : s[j] # s[i]
<1>1. DOMAIN s = 1 .. Len(s) /\ Len(s) \in Nat
  OBVIOUS
<1>2. First(i)
  OBVIOUS
<1>3. ASSUME NEW k, First(k) PROVE k = i
  BY <1>1, <1>3
<1>4. Position(s, s[i]) = CHOOSE k \in DOMAIN s : s[k] = s[i] /\ \A j \in 1 .. (k - 1) : s[j] # s[i]
  BY DEF Position
<1> QED BY <1>2, <1>3, <1>4

-----------------------------------------------------------------------------
(* Where requests wait *)

Place == {"pending", "active", "read", "write"}

(* W says which ids wait where; those up to n that do not are gone.         *)
Placed(W, gone, n) ==
  /\ W \in [Place -> Seq(Nat)]
  /\ gone \subseteq 1 .. n
  /\ \A x \in Place : \A i \in DOMAIN W[x] : W[x][i] \in 1 .. n /\ W[x][i] \notin gone
  /\ \A x, y \in Place : \A i \in DOMAIN W[x], j \in DOMAIN W[y] :
       W[x][i] = W[y][j] => x = y /\ i = j
  /\ \A id \in 1 .. n : id \notin gone => \E x \in Place : \E i \in DOMAIN W[x] : W[x][i] = id

LEMMA NewPlaced ==
  ASSUME NEW n \in Nat, NEW W, NEW gone, Placed(W, gone, n)
  PROVE  Placed(W, gone \cup {n + 1}, n + 1)
<1> USE DEF Placed
<1>1. ASSUME NEW x \in Place, NEW i \in DOMAIN W[x]
      PROVE  W[x][i] \in 1 .. (n + 1) /\ W[x][i] \notin gone \cup {n + 1}
  <2>1. W[x][i] \in 1 .. n /\ W[x][i] \notin gone
    OBVIOUS
  <2> QED BY <2>1
<1>2. ASSUME NEW id \in 1 .. (n + 1), id \notin gone \cup {n + 1}
      PROVE  \E x \in Place : \E i \in DOMAIN W[x] : W[x][i] = id
  <2>1. id \in 1 .. n /\ id \notin gone
    BY <1>2
  <2> QED BY <2>1
<1>3. gone \cup {n + 1} \subseteq 1 .. (n + 1)
  OBVIOUS
<1> QED BY <1>1, <1>2, <1>3

LEMMA PutPlaced ==
  ASSUME NEW n \in Nat, NEW W, NEW gone, Placed(W, gone, n), NEW x \in Place, NEW id \in gone
  PROVE  Placed([W EXCEPT ![x] = Append(@, id)], gone \ {id}, n)
<1> DEFINE V == [W EXCEPT ![x] = Append(@, id)]
           len == Len(W[x])
<1>1. W \in [Place -> Seq(Nat)] /\ id \in 1 .. n /\ W[x] \in Seq(Nat) /\ id \in Nat
  BY DEF Placed
<1>2. V[x] = Append(W[x], id) /\ \A y \in Place : y # x => V[y] = W[y]
  BY <1>1
<1>3. /\ V[x] \in Seq(Nat) /\ len \in Nat /\ DOMAIN W[x] = 1 .. len
      /\ DOMAIN V[x] = 1 .. (len + 1)
      /\ \A i \in 1 .. len : V[x][i] = W[x][i]
      /\ V[x][len + 1] = id
  BY <1>1, <1>2, AppendFacts
<1>4. V \in [Place -> Seq(Nat)]
  BY <1>1, <1>3
<1> HIDE DEF V, len
<1>5. ASSUME NEW y \in Place, NEW i \in DOMAIN V[y]
      PROVE  \/ y = x /\ i = len + 1 /\ V[y][i] = id
             \/ i \in DOMAIN W[y] /\ V[y][i] = W[y][i]
  <2>1. CASE y = x
    <3>1. i \in 1 .. (len + 1)
      BY <1>3, <2>1
    <3>2. i = len + 1 \/ i \in 1 .. len
      BY <1>3, <3>1
    <3> QED BY <1>3, <2>1, <3>2
  <2>2. CASE y # x
    BY <1>2, <2>2
  <2> QED BY <2>1, <2>2
<1>6. \A y \in Place : \A i \in DOMAIN W[y] : W[y][i] \in 1 .. n /\ W[y][i] \notin gone
  BY DEF Placed
<1>7. ASSUME NEW y \in Place, NEW i \in DOMAIN V[y]
      PROVE  V[y][i] \in 1 .. n /\ V[y][i] \notin gone \ {id}
  BY <1>1, <1>5, <1>6
<1>8. ASSUME NEW y \in Place, NEW z \in Place, NEW i \in DOMAIN V[y], NEW j \in DOMAIN V[z],
             V[y][i] = V[z][j]
      PROVE  y = z /\ i = j
  <2>1. \A a, b \in Place : \A k \in DOMAIN W[a], l \in DOMAIN W[b] :
          W[a][k] = W[b][l] => a = b /\ k = l
    BY DEF Placed
  <2> QED BY <1>5, <1>6, <1>8, <2>1
<1>9. ASSUME NEW e \in 1 .. n, e \notin gone \ {id}
      PROVE  \E y \in Place : \E i \in DOMAIN V[y] : V[y][i] = e
  <2>1. CASE e = id
    BY <1>3, <2>1
  <2>2. CASE e # id
    <3>1. PICK y \in Place : \E i \in DOMAIN W[y] : W[y][i] = e
      BY <1>9, <2>2 DEF Placed
    <3>2. PICK i \in DOMAIN W[y] : W[y][i] = e
      BY <3>1
    <3>3. i \in DOMAIN V[y] /\ V[y][i] = W[y][i]
      BY <1>2, <1>3, SMTT(30)
    <3> QED BY <3>2, <3>3
  <2> QED BY <2>1, <2>2
<1>10. gone \ {id} \subseteq 1 .. n
  BY DEF Placed
<1>11. Placed(V, gone \ {id}, n)
  BY <1>4, <1>7, <1>8, <1>9, <1>10 DEF Placed
<1> QED BY <1>11 DEF V

LEMMA TakePlaced ==
  ASSUME NEW n \in Nat, NEW W, NEW gone, Placed(W, gone, n), NEW x \in Place,
         NEW p \in DOMAIN W[x]
  PROVE  Placed([W EXCEPT ![x] = RemoveAt(@, p)], gone \cup {W[x][p]}, n)
<1> DEFINE V == [W EXCEPT ![x] = RemoveAt(@, p)]
           len == Len(W[x])
           id == W[x][p]
<1>1. W \in [Place -> Seq(Nat)] /\ W[x] \in Seq(Nat)
  BY DEF Placed
<1>2. V[x] = RemoveAt(W[x], p) /\ \A y \in Place : y # x => V[y] = W[y]
  BY <1>1
<1>3. /\ V[x] \in Seq(Nat) /\ len \in Nat /\ DOMAIN W[x] = 1 .. len /\ p \in 1 .. len
      /\ DOMAIN V[x] = 1 .. (len - 1)
      /\ \A i \in 1 .. (len - 1) : V[x][i] = IF i < p THEN W[x][i] ELSE W[x][i + 1]
  BY <1>1, <1>2, RemoveFacts
<1>4. V \in [Place -> Seq(Nat)]
  BY <1>1, <1>3
<1>5. /\ \A y \in Place : \A i \in DOMAIN W[y] : W[y][i] \in 1 .. n /\ W[y][i] \notin gone
      /\ \A y, z \in Place : \A i \in DOMAIN W[y], j \in DOMAIN W[z] :
           W[y][i] = W[z][j] => y = z /\ i = j
  BY DEF Placed
<1> HIDE DEF V, len
<1> DEFINE from(y, i) == IF y = x /\ ~(i < p) THEN i + 1 ELSE i
<1>6. ASSUME NEW y \in Place, NEW i \in DOMAIN V[y]
      PROVE  /\ from(y, i) \in DOMAIN W[y] /\ V[y][i] = W[y][from(y, i)]
             /\ y = x => from(y, i) # p
  <2>1. CASE y = x
    <3>1. i \in 1 .. (len - 1)
      BY <1>3, <2>1
    <3> QED BY <1>3, <2>1, <3>1, SMTT(30)
  <2>2. CASE y # x
    BY <1>2, <2>2
  <2> QED BY <2>1, <2>2
<1>7. ASSUME NEW y \in Place, NEW i \in DOMAIN V[y]
      PROVE  V[y][i] \in 1 .. n /\ V[y][i] \notin gone \cup {id}
  <2> DEFINE k == from(y, i)
  <2>1. k \in DOMAIN W[y] /\ V[y][i] = W[y][k] /\ (y = x => k # p)
    BY <1>6
  <2> HIDE DEF k, from
  <2>2. W[y][k] \in 1 .. n /\ W[y][k] \notin gone
    BY <1>5, <2>1
  <2>3. W[y][k] # W[x][p]
    BY <1>5, <2>1
  <2> QED BY <2>1, <2>2, <2>3
<1>8. ASSUME NEW y \in Place, NEW z \in Place, NEW i \in DOMAIN V[y], NEW j \in DOMAIN V[z],
             V[y][i] = V[z][j]
      PROVE  y = z /\ i = j
  <2>1. y = z /\ from(y, i) = from(z, j)
    <3> HIDE DEF from
    <3> QED BY <1>5, <1>6, <1>8
  <2>2. CASE y = x
    <3>1. i \in 1 .. (len - 1) /\ j \in 1 .. (len - 1)
      BY <1>3, <2>1, <2>2
    <3> QED BY <1>3, <2>1, <2>2, <3>1, SMTT(30)
  <2>3. CASE y # x
    BY <2>1, <2>3
  <2> QED BY <2>2, <2>3
<1>9. ASSUME NEW e \in 1 .. n, e \notin gone \cup {id}
      PROVE  \E y \in Place : \E i \in DOMAIN V[y] : V[y][i] = e
  <2>1. PICK y \in Place : \E i \in DOMAIN W[y] : W[y][i] = e
    BY <1>9 DEF Placed
  <2>2. PICK i \in DOMAIN W[y] : W[y][i] = e
    BY <2>1
  <2>3. CASE y # x
    BY <1>2, <2>2, <2>3
  <2>4. CASE y = x
    <3>1. i # p /\ i \in 1 .. len
      BY <1>3, <1>9, <2>2, <2>4
    <3>2. CASE i < p
      BY <1>3, <2>2, <2>4, <3>1, <3>2
    <3>3. CASE i > p
      <4>1. i - 1 \in 1 .. (len - 1) /\ ~(i - 1 < p) /\ i - 1 + 1 = i
        BY <1>3, <3>1, <3>3
      <4>2. V[x][i - 1] = W[x][i]
        BY <1>3, <4>1
      <4> QED BY <1>3, <2>2, <2>4, <4>1, <4>2
    <3> QED BY <1>3, <3>1, <3>2, <3>3
  <2> QED BY <2>3, <2>4
<1>10. gone \cup {id} \subseteq 1 .. n
  <2>1. id \in 1 .. n /\ gone \subseteq 1 .. n
    BY <1>5 DEF Placed
  <2> QED BY <2>1
<1>11. Placed(V, gone \cup {id}, n)
  <2> HIDE DEF id
  <2> QED BY <1>4, <1>7, <1>8, <1>9, <1>10 DEF Placed
<1> QED BY <1>11 DEF V

-----------------------------------------------------------------------------
(* The records and their ids *)

Accepted == [id : Nat, type : {"read", "write"}, addr : Accesses, arrive : Nat]

Refreshings == [id : {0}, type : {"all-bank-refresh"}, rank : Nat]

PendingReads == [req : {q \in Accepted : q.type = "read"}, left : Int]

Mapped(s, f) == [i \in DOMAIN s |-> f[s[i]]]

LEMMA MappedFacts ==
  ASSUME NEW T, NEW f \in [T -> Nat], NEW s \in Seq(T)
  PROVE  /\ Mapped(s, f) \in Seq(Nat) /\ Len(Mapped(s, f)) = Len(s)
         /\ DOMAIN Mapped(s, f) = DOMAIN s
         /\ \A i \in DOMAIN s : Mapped(s, f)[i] = f[s[i]]
         /\ \A e \in T : Mapped(Append(s, e), f) = Append(Mapped(s, f), f[e])
         /\ \A i \in DOMAIN s : Mapped(RemoveAt(s, i), f) = RemoveAt(Mapped(s, f), i)
<1> DEFINE m(u) == Mapped(u, f)
<1>1. ASSUME NEW u \in Seq(T)
      PROVE  /\ m(u) \in Seq(Nat) /\ Len(m(u)) = Len(u) /\ Len(u) \in Nat
             /\ DOMAIN m(u) = 1 .. Len(u) /\ DOMAIN u = 1 .. Len(u)
             /\ \A i \in 1 .. Len(u) : m(u)[i] = f[u[i]] /\ f[u[i]] \in Nat
  <2>1. Len(u) \in Nat /\ DOMAIN u = 1 .. Len(u) /\ \A i \in 1 .. Len(u) : u[i] \in T
    OBVIOUS
  <2>2. m(u) = [i \in 1 .. Len(u) |-> f[u[i]]]
    BY <2>1 DEF Mapped
  <2>3. m(u) \in [1 .. Len(u) -> Nat]
    BY <2>1, <2>2
  <2> HIDE DEF m
  <2>4. m(u) \in Seq(Nat) /\ Len(m(u)) = Len(u)
    BY <2>1, <2>3, SMTT(30)
  <2> QED BY <2>1, <2>2, <2>4
<1>2. ASSUME NEW e \in T PROVE m(Append(s, e)) = Append(m(s), f[e])
  <2> DEFINE a == Append(s, e)
             l == m(a)
             r == Append(m(s), f[e])
  <2>1. a \in Seq(T) /\ Len(a) = Len(s) + 1 /\ (\A j \in 1 .. Len(s) : a[j] = s[j])
        /\ a[Len(s) + 1] = e
    BY AppendFacts
  <2> HIDE DEF a, m
  <2>2. /\ l \in Seq(Nat) /\ Len(l) = Len(s) + 1 /\ Len(s) \in Nat
        /\ \A j \in 1 .. (Len(s) + 1) : l[j] = f[a[j]]
    BY <1>1, <2>1
  <2>3. /\ r \in Seq(Nat) /\ Len(r) = Len(s) + 1
        /\ \A j \in 1 .. Len(s) : r[j] = m(s)[j]
        /\ r[Len(s) + 1] = f[e]
    <3>1. m(s) \in Seq(Nat) /\ Len(m(s)) = Len(s) /\ f[e] \in Nat
      BY <1>1
    <3> QED BY <3>1, AppendFacts
  <2>4. \A j \in 1 .. Len(s) : m(s)[j] = f[s[j]]
    BY <1>1
  <2> HIDE DEF l, r
  <2>5. ASSUME NEW j \in 1 .. (Len(s) + 1) PROVE l[j] = r[j]
    <3>1. CASE j = Len(s) + 1
      BY <2>1, <2>2, <2>3, <3>1
    <3>2. CASE j # Len(s) + 1
      <4>1. j \in 1 .. Len(s)
        BY <2>2, <3>2
      <4> QED BY <2>1, <2>2, <2>3, <2>4, <4>1, ZenonT(60)
    <3> QED BY <3>1, <3>2
  <2>6. l = r
    BY <2>2, <2>3, <2>5, SeqEqual
  <2> QED BY <2>6 DEF l, r, a
<1>3. ASSUME NEW i \in DOMAIN s PROVE m(RemoveAt(s, i)) = RemoveAt(m(s), i)
  <2>0. /\ RemoveAt(s, i) \in Seq(T)
        /\ Len(s) \in Nat /\ i \in 1 .. Len(s)
        /\ Len(RemoveAt(s, i)) = Len(s) - 1
        /\ DOMAIN RemoveAt(s, i) = 1 .. (Len(s) - 1)
        /\ \A j \in 1 .. (Len(s) - 1) : RemoveAt(s, i)[j] = IF j < i THEN s[j] ELSE s[j + 1]
    BY RemoveFacts
  <2> DEFINE a == RemoveAt(s, i)
             l == m(a)
             r == RemoveAt(m(s), i)
             n == Len(s) - 1
  <2>1. a \in Seq(T) /\ Len(a) = n /\ Len(s) \in Nat /\ i \in 1 .. Len(s)
        /\ \A j \in 1 .. n : a[j] = IF j < i THEN s[j] ELSE s[j + 1]
    BY <2>0
  <2> HIDE DEF a, m
  <2>2. l \in Seq(Nat) /\ Len(l) = n /\ \A j \in 1 .. n : l[j] = f[a[j]]
    BY <1>1, <2>1
  <2>3. m(s) \in Seq(Nat) /\ Len(m(s)) = Len(s) /\ i \in DOMAIN m(s)
        /\ \A j \in 1 .. Len(s) : m(s)[j] = f[s[j]]
    BY <1>1
  <2>4. r \in Seq(Nat) /\ Len(r) = n
        /\ \A j \in 1 .. n : r[j] = IF j < i THEN m(s)[j] ELSE m(s)[j + 1]
    <3>1. r \in Seq(Nat) /\ Len(r) = Len(m(s)) - 1
          /\ \A j \in 1 .. (Len(m(s)) - 1) : r[j] = IF j < i THEN m(s)[j] ELSE m(s)[j + 1]
      <4>1. ASSUME NEW u \in Seq(Nat), i \in DOMAIN u
            PROVE  /\ RemoveAt(u, i) \in Seq(Nat) /\ Len(RemoveAt(u, i)) = Len(u) - 1
                   /\ \A j \in 1 .. (Len(u) - 1) :
                        RemoveAt(u, i)[j] = IF j < i THEN u[j] ELSE u[j + 1]
        BY <4>1, RemoveFacts
      <4> QED BY <2>3, <4>1
    <3> HIDE DEF r
    <3> QED BY <2>3, <3>1
  <2> HIDE DEF l, r
  <2>5. ASSUME NEW j \in 1 .. n PROVE l[j] = r[j]
    <3>1. j \in 1 .. Len(s) /\ j + 1 \in 1 .. Len(s)
      BY <2>1
    <3> HIDE DEF n
    <3>2. m(s)[j] = f[s[j]] /\ m(s)[j + 1] = f[s[j + 1]]
      BY <2>3, <3>1
    <3>3. l[j] = f[a[j]] /\ a[j] = IF j < i THEN s[j] ELSE s[j + 1]
      BY <2>1, <2>2
    <3>4. r[j] = IF j < i THEN m(s)[j] ELSE m(s)[j + 1]
      BY <2>4
    <3> QED BY <3>2, <3>3, <3>4
  <2>6. l = r
    BY <2>2, <2>4, <2>5, SeqEqual
  <2> QED BY <2>6 DEF l, r, a
<1> QED BY <1>1, <1>2, <1>3

(* The ids of the requests in a buffer, and of the reads that are pending.  *)
Ids(s) == [i \in DOMAIN s |-> s[i].id]

PendingIds(s) == [i \in DOMAIN s |-> s[i].req.id]

LEMMA IdsFacts ==
  ASSUME NEW s \in Seq(Accepted)
  PROVE  /\ Ids(s) \in Seq(Nat)
         /\ DOMAIN Ids(s) = DOMAIN s
         /\ \A i \in DOMAIN s : Ids(s)[i] = s[i].id
         /\ \A e \in Accepted : Ids(Append(s, e)) = Append(Ids(s), e.id)
         /\ \A i \in DOMAIN s : Ids(RemoveAt(s, i)) = RemoveAt(Ids(s), i)
<1> DEFINE f == [q \in Accepted |-> q.id]
<1>1. f \in [Accepted -> Nat]
  BY DEF Accepted
<1>2. ASSUME NEW u \in Seq(Accepted) PROVE Ids(u) = Mapped(u, f)
  <2>1. \A i \in DOMAIN u : f[u[i]] = u[i].id
    OBVIOUS
  <2> QED BY <2>1 DEF Ids, Mapped
<1>3. \A e \in Accepted : f[e] = e.id
  OBVIOUS
<1> HIDE DEF f
<1>4. \A e \in Accepted : Append(s, e) \in Seq(Accepted)
  OBVIOUS
<1>5. \A i \in DOMAIN s : RemoveAt(s, i) \in Seq(Accepted)
  BY RemoveFacts
<1>6. /\ Mapped(s, f) \in Seq(Nat) /\ DOMAIN Mapped(s, f) = DOMAIN s
      /\ \A e \in Accepted : Mapped(Append(s, e), f) = Append(Mapped(s, f), f[e])
      /\ \A i \in DOMAIN s : Mapped(RemoveAt(s, i), f) = RemoveAt(Mapped(s, f), i)
  BY <1>1, MappedFacts
<1>7. \A i \in DOMAIN s : Ids(s)[i] = s[i].id
  BY DEF Ids
<1> QED BY <1>2, <1>3, <1>4, <1>5, <1>6, <1>7

LEMMA PendingIdsFacts ==
  ASSUME NEW s \in Seq(PendingReads)
  PROVE  /\ PendingIds(s) \in Seq(Nat)
         /\ DOMAIN PendingIds(s) = DOMAIN s
         /\ \A i \in DOMAIN s : PendingIds(s)[i] = s[i].req.id
         /\ \A e \in PendingReads : PendingIds(Append(s, e)) = Append(PendingIds(s), e.req.id)
         /\ \A i \in DOMAIN s : PendingIds(RemoveAt(s, i)) = RemoveAt(PendingIds(s), i)
<1> DEFINE f == [r \in PendingReads |-> r.req.id]
<1>1. f \in [PendingReads -> Nat]
  BY DEF PendingReads, Accepted
<1>2. ASSUME NEW u \in Seq(PendingReads) PROVE PendingIds(u) = Mapped(u, f)
  <2>1. \A i \in DOMAIN u : f[u[i]] = u[i].req.id
    OBVIOUS
  <2> QED BY <2>1 DEF PendingIds, Mapped
<1>3. \A e \in PendingReads : f[e] = e.req.id
  OBVIOUS
<1> HIDE DEF f
<1>4. \A e \in PendingReads : Append(s, e) \in Seq(PendingReads)
  OBVIOUS
<1>5. \A i \in DOMAIN s : RemoveAt(s, i) \in Seq(PendingReads)
  BY RemoveFacts
<1>6. /\ Mapped(s, f) \in Seq(Nat) /\ DOMAIN Mapped(s, f) = DOMAIN s
      /\ \A e \in PendingReads : Mapped(Append(s, e), f) = Append(Mapped(s, f), f[e])
      /\ \A i \in DOMAIN s : Mapped(RemoveAt(s, i), f) = RemoveAt(Mapped(s, f), i)
  BY <1>1, MappedFacts
<1>7. \A i \in DOMAIN s : PendingIds(s)[i] = s[i].req.id
  BY DEF PendingIds
<1> QED BY <1>2, <1>3, <1>4, <1>5, <1>6, <1>7

-----------------------------------------------------------------------------
(* The inductive invariant *)

(* The buffers of requests that were sent; priority holds refreshes.        *)
Buffers == {"active", "read", "write"}

WellBuffered(B) ==
  /\ B \in [BufferName -> Seq(Accepted \cup Refreshings)]
  /\ \A b \in Buffers : B[b] \in Seq(Accepted)
  /\ B["priority"] \in Seq(Refreshings)
  /\ \A b \in {"read", "write"} : \A i \in DOMAIN B[b] : B[b][i].type = b

KindInv ==
  /\ IsDevice
  /\ WellBuffered(buffer)
  /\ pending \in Seq(PendingReads)
  /\ arrived \in Nat /\ cycle_first \in 1 .. (arrived + 1)

(* The active buffer holds one request per bank at most.                    *)
DistinctInv ==
  \A i, j \in DOMAIN buffer["active"] :
    i # j => addr_vec(buffer["active"][i].addr) # addr_vec(buffer["active"][j].addr)

(* Requests stand in the read and write buffers in the order of arrival,    *)
(* and no write there is older than a write to its address that was taken   *)
(* out of it to the active buffer.                                          *)
AgeInv ==
  /\ \A b \in Buffers : \A i \in DOMAIN buffer[b] :
       buffer[b][i].arrive \in 1 .. buffer[b][i].id /\ buffer[b][i].arrive <= cycle_first
  /\ \A b \in {"read", "write"} : \A i, j \in DOMAIN buffer[b] :
       i < j => buffer[b][i].id < buffer[b][j].id /\ buffer[b][i].arrive <= buffer[b][j].arrive
  /\ \A i \in DOMAIN buffer["active"], j \in DOMAIN buffer["write"] :
       (buffer["active"][i].type = "write" /\ buffer["active"][i].addr = buffer["write"][j].addr)
         => buffer["active"][i].id < buffer["write"][j].id

(* There is room in the active buffer for a request of each bank.           *)
BanksFit ==
  \A s \in DOMAIN Device :
    IsFiniteSet(Device[s].tree.banks) /\ Cardinality(Device[s].tree.banks) <= max_size

(* What does not wait any more is done, or was lost to a full active        *)
(* buffer.                                                                  *)
PlaceInv ==
  \E gone : /\ done \subseteq gone /\ (BanksFit => gone = done)
            /\ Placed(Waiting, gone, arrived)

RequestInv == KindInv /\ DistinctInv /\ AgeInv /\ PlaceInv

-----------------------------------------------------------------------------
(* Commands *)

LEMMA AccessFacts ==
  ASSUME IsDevice
  PROVE  /\ S.opening = {"ACT"}
         /\ \A a \in Accesses : addr_vec(a) \in Tree.banks /\ a.row \in Rows
         /\ {"read", "write", "all-bank-refresh"} \subseteq S.requested
         /\ \A type \in {"read", "write"} : S.preqs[S.requests[type]] = "Bank::RequireRowOpen"
         /\ S.preqs[S.requests["all-bank-refresh"]] \in
              {"Rank::RequireAllBanksClosed", "Channel::RequireAllBanksClosed"}
         /\ "rank" \in ToSet(S.levels) => S.org["rank"] \in Nat
         /\ m_read_latency \in Nat /\ m_read_latency > 0
<1>1. S = Device[device] /\ Tree = Device[device].tree
  BY DEF S, Tree, Devices, Trees, IsDevice
<1>2. device \in DOMAIN Device
  BY DEF IsDevice
<1>3. \A a \in Accesses : addr_vec(a) = VectorOf(Device[device].levels, a)
  BY <1>1 DEF addr_vec
<1> QED BY <1>1, <1>2, <1>3, AccessAssumption DEF Rows, m_read_latency

(* Reads and writes need an ACT exactly when their bank is closed.          *)
LEMMA AcceptedCommand ==
  ASSUME IsDevice, NEW q \in Accepted
  PROVE  /\ Vector(q) = addr_vec(q.addr) /\ RowOf(q) = q.addr.row
         /\ command(q) \in S.opening <=> m_row_state[addr_vec(q.addr)] = {}
         /\ command(q) \in S.opening => command(q) = "ACT"
         /\ command(q) \in Tree.commands
<1> DEFINE final == S.requests[q.type]
<1>1. q.type \in {"read", "write"}
  BY DEF Accepted
<1>2. Vector(q) = addr_vec(q.addr) /\ RowOf(q) = q.addr.row
  BY <1>1 DEF Vector, RowOf
<1>3. q.type \in S.requested /\ S.preqs[final] = "Bank::RequireRowOpen"
  BY <1>1, AccessFacts
<1>4. final \in DOMAIN S.preqs /\ final # "ACT"
  BY <1>3, DeviceFacts DEF Conforms
<1>5. command(q) = RequireRowOpen(m_row_state, final, Vector(q), RowOf(q))
  BY <1>3, <1>4, PreqKinds DEF command, final_command
<1>6. command(q) \in Tree.commands
  BY <1>3, PreqCommands DEF command, final_command
<1> HIDE DEF final
<1>7. command(q) = "ACT" <=> m_row_state[Vector(q)] = {}
  BY <1>4, <1>5 DEF RequireRowOpen
<1> QED BY <1>2, <1>6, <1>7, AccessFacts

(* A refresh never opens a row.                                             *)
LEMMA RefreshCommand ==
  ASSUME IsDevice, NEW q \in Refreshings
  PROVE  command(q) \notin S.opening /\ command(q) \in Tree.commands
<1> DEFINE final == S.requests["all-bank-refresh"]
<1>1. q.type = "all-bank-refresh"
  BY DEF Refreshings
<1>2. "all-bank-refresh" \in S.requested
      /\ S.preqs[final] \in {"Rank::RequireAllBanksClosed", "Channel::RequireAllBanksClosed"}
  BY AccessFacts
<1>3. final \in DOMAIN S.preqs /\ final # "ACT"
  BY <1>2, DeviceFacts DEF Conforms
<1>4. command(q) = RequireAllBanksClosed(m_row_state, final, SubSeq(Vector(q), 1, Scope(final)))
  BY <1>1, <1>2, <1>3, PreqKinds DEF command, final_command
<1>5. command(q) \in Tree.commands
  BY <1>1, <1>2, PreqCommands DEF command, final_command
<1> HIDE DEF final
<1>6. command(q) # "ACT"
  BY <1>3, <1>4 DEF RequireAllBanksClosed
<1> QED BY <1>5, <1>6, AccessFacts

-----------------------------------------------------------------------------
(* The buffers in a tick *)

LEMMA RefreshedFacts ==
  ASSUME KindInv
  PROVE  /\ WellBuffered(Refreshed)
         /\ \A b \in Buffers : Refreshed[b] = buffer[b]
<1> DEFINE top == Max({m_num_ranks, 0})
           reqs == [r \in 1 .. top |-> [id |-> 0, type |-> "all-bank-refresh", rank |-> r - 1]]
<1>1. m_num_ranks \in Int
  BY AccessFacts DEF m_num_ranks, KindInv
<1>2. top \in Nat
  <2> DEFINE bound == IF m_num_ranks > 0 THEN m_num_ranks ELSE 0
  <2>1. bound \in Int /\ \A x \in {m_num_ranks, 0} : x <= bound
    BY <1>1
  <2>2. {m_num_ranks, 0} \in SUBSET Int /\ {m_num_ranks, 0} # {}
    BY <1>1
  <2> HIDE DEF bound
  <2>3. top \in {m_num_ranks, 0} /\ \A x \in {m_num_ranks, 0} : x <= top
    BY <2>1, <2>2, BoundedMax
  <2> HIDE DEF top
  <2> QED BY <1>1, <2>3
<1> HIDE DEF top
<1>3. reqs \in Seq(Refreshings)
  <2>1. \A r \in 1 .. top : [id |-> 0, type |-> "all-bank-refresh", rank |-> r - 1] \in Refreshings
    BY <1>2 DEF Refreshings
  <2> QED BY <1>2, <2>1
<1>4. RefreshRequests = reqs
  BY DEF RefreshRequests, top
<1>5. WellBuffered(buffer)
  BY DEF KindInv
<1>6. CASE ~refresh_due
  BY <1>5, <1>6 DEF Refreshed
<1>7. CASE refresh_due
  <2> DEFINE longer == buffer["priority"] \o reqs
  <2>1. longer \in Seq(Refreshings) /\ longer \in Seq(Accepted \cup Refreshings)
    <3>1. buffer["priority"] \in Seq(Refreshings)
      BY <1>5 DEF WellBuffered
    <3>2. longer \in Seq(Refreshings)
      BY <1>3, <3>1, ConcatProperties
    <3> HIDE DEF longer
    <3> QED BY <3>2
  <2>2. Refreshed = [buffer EXCEPT !["priority"] = longer]
    BY <1>4, <1>7 DEF Refreshed
  <2> HIDE DEF longer
  <2> QED BY <1>5, <2>1, <2>2 DEF WellBuffered, BufferName, Buffers
<1> QED BY <1>6, <1>7

(* The requests in a buffer are told apart by their ids.                    *)
LEMMA DistinctIds ==
  ASSUME KindInv, PlaceInv
  PROVE  /\ \A b, c \in Buffers : \A i \in DOMAIN buffer[b], j \in DOMAIN buffer[c] :
              buffer[b][i].id = buffer[c][j].id => b = c /\ i = j
         /\ \A b \in Buffers : \A i \in DOMAIN buffer[b] :
              buffer[b][i].id \in 1 .. arrived /\ buffer[b][i].id \notin done
         /\ \A i \in DOMAIN pending : \A b \in Buffers : \A j \in DOMAIN buffer[b] :
              pending[i].req.id # buffer[b][j].id
         /\ \A i \in DOMAIN pending : pending[i].req.id \in 1 .. arrived
         /\ done \subseteq 1 .. arrived
<1>1. PICK gone : done \subseteq gone /\ Placed(Waiting, gone, arrived)
  BY DEF PlaceInv
<1>2. /\ \A b \in Buffers : b \in Place /\ b # "pending" /\ Waiting[b] = Ids(buffer[b])
      /\ "pending" \in Place /\ Waiting["pending"] = PendingIds(pending)
  BY DEF Buffers, Place, Waiting, Ids, PendingIds
<1>3. \A b \in Buffers :
        /\ DOMAIN Waiting[b] = DOMAIN buffer[b]
        /\ \A i \in DOMAIN buffer[b] : Waiting[b][i] = buffer[b][i].id
  BY <1>2, ZenonT(60) DEF Ids
<1>4. /\ DOMAIN Waiting["pending"] = DOMAIN pending
      /\ \A i \in DOMAIN pending : Waiting["pending"][i] = pending[i].req.id
  BY <1>2 DEF PendingIds
<1> QED BY <1>1, <1>2, <1>3, <1>4, SMTT(30) DEF Placed

(* The request at i in the buffer b is the one FRFCFS chooses there.        *)
Chosen(b, i) ==
  /\ b \in Buffers /\ i \in DOMAIN buffer[b]
  /\ b = "active" <=> FromActive
  /\ ready(buffer[b][i])
  /\ \A j \in DOMAIN buffer[b] : compare(buffer[b], i, j)

LEMMA Scheduled ==
  ASSUME KindInv, PlaceInv, NEW q \in schedule_request
  PROVE  \/ /\ q \in Refreshings
            /\ ServedBuffer = "priority" /\ FromPriority
            /\ WellBuffered(Removed(q))
            /\ \A b \in Buffers : Removed(q)[b] = buffer[b]
         \/ \E b \in Buffers : \E i \in DOMAIN buffer[b] :
              /\ ServedBuffer = b /\ Chosen(b, i)
              /\ q = buffer[b][i] /\ Position(buffer[b], q) = i
<1>1. q \in Candidates
  BY DEF schedule_request
<1>2. WellBuffered(Refreshed) /\ WellBuffered(buffer) /\ \A b \in Buffers : Refreshed[b] = buffer[b]
  BY RefreshedFacts DEF KindInv
<1>3. CASE FromPriority
  <2> DEFINE p == Refreshed["priority"]
  <2>1. p \in Seq(Refreshings) /\ p # <<>>
    BY <1>2, <1>3 DEF WellBuffered, FromPriority
  <2>2. 1 \in DOMAIN p /\ p[1] \in Refreshings
    BY <2>1
  <2>3. q = p[1]
    BY <1>1, <1>3 DEF Candidates
  <2>4. ServedBuffer = "priority"
    BY <1>3 DEF ServedBuffer, FromPriority
  <2>5. Position(p, q) = 1
    <3>1. \A j \in 1 .. (1 - 1) : p[j] # p[1]
      OBVIOUS
    <3> HIDE DEF p
    <3> QED BY <2>1, <2>2, <2>3, <3>1, PositionFacts
  <2>6. Removed(q) = [Refreshed EXCEPT !["priority"] = RemoveAt(p, 1)]
    BY <2>4, <2>5 DEF Removed, Without
  <2>7. RemoveAt(p, 1) \in Seq(Refreshings)
    BY <2>1, <2>2, RemoveFacts
  <2> HIDE DEF p
  <2>8. RemoveAt(p, 1) \in Seq(Accepted \cup Refreshings)
    BY <2>7
  <2>9. WellBuffered(Removed(q)) /\ \A b \in Buffers : Removed(q)[b] = buffer[b]
    BY <1>2, <2>6, <2>7, <2>8 DEF WellBuffered, BufferName, Buffers
  <2> QED BY <1>3, <2>2, <2>3, <2>4, <2>9
<1>4. CASE ~FromPriority
  <2> DEFINE b == ServedBuffer
  <2>1. b \in Buffers /\ (b = "active" <=> FromActive)
    BY <1>4 DEF ServedBuffer, Buffers
  <2>2. q \in get_best_request(buffer[b]) /\ ready(q)
    BY <1>1, <1>4 DEF Candidates
  <2> HIDE DEF b
  <2>3. PICK i \in DOMAIN buffer[b] :
          q = buffer[b][i] /\ \A j \in DOMAIN buffer[b] : compare(buffer[b], i, j)
    BY <2>2 DEF get_best_request
  <2>4. buffer[b] \in Seq(Accepted)
    BY <1>2, <2>1 DEF WellBuffered
  <2>5. \A j \in 1 .. (i - 1) : j \in DOMAIN buffer[b] /\ j # i
    BY <2>4
  <2>6. \A j \in DOMAIN buffer[b] : buffer[b][j] = buffer[b][i] => j = i
    BY <2>1, DistinctIds
  <2>7. Position(buffer[b], buffer[b][i]) = i
    BY <2>4, <2>5, <2>6, PositionFacts
  <2> QED BY <2>1, <2>2, <2>3, <2>7 DEF Chosen, b
<1> QED BY <1>3, <1>4

(* serve_completed_reads takes the head off, and the others come nearer.    *)
LEMMA CompletedReads ==
  ASSUME KindInv
  PROVE  /\ PendingLeft \in Seq(PendingReads)
         /\ HeadServed => /\ 1 \in DOMAIN pending
                          /\ PendingIds(PendingLeft) = RemoveAt(PendingIds(pending), 1)
                          /\ ServedNow = {PendingIds(pending)[1]}
         /\ ~HeadServed => PendingIds(PendingLeft) = PendingIds(pending) /\ ServedNow = {}
         /\ \A j \in DOMAIN PendingLeft : \E k \in DOMAIN pending :
              PendingLeft[j] = [req |-> pending[k].req, left |-> pending[k].left - 1]
<1> DEFINE left == IF HeadServed THEN Tail(pending) ELSE pending
           nearer(e) == [e EXCEPT !.left = @ - 1]
<1>1. pending \in Seq(PendingReads)
  BY DEF KindInv
<1>2. ASSUME NEW e \in PendingReads
      PROVE  nearer(e) = [req |-> e.req, left |-> e.left - 1] /\ nearer(e) \in PendingReads
  <2> DEFINE R == {q \in Accepted : q.type = "read"}
  <2>1. PendingReads = [req : R, left : Int]
    BY DEF PendingReads
  <2> HIDE DEF R
  <2>2. e.req \in R /\ e.left \in Int /\ e = [req |-> e.req, left |-> e.left]
    BY <2>1
  <2>3. nearer(e) = [req |-> e.req, left |-> e.left - 1]
    BY <2>2
  <2> QED BY <2>1, <2>2, <2>3
<1>3. HeadServed => 1 \in DOMAIN pending
  BY <1>1 DEF HeadServed
<1>4. left = IF HeadServed THEN RemoveAt(pending, 1) ELSE pending
  <2>1. ASSUME HeadServed PROVE Tail(pending) = RemoveAt(pending, 1)
    <3>1. /\ RemoveAt(pending, 1) \in Seq(PendingReads) /\ Len(pending) \in Nat /\ 1 \in 1 .. Len(pending)
          /\ Len(RemoveAt(pending, 1)) = Len(pending) - 1
          /\ \A j \in 1 .. (Len(pending) - 1) :
               RemoveAt(pending, 1)[j] = IF j < 1 THEN pending[j] ELSE pending[j + 1]
      BY <1>1, <1>3, <2>1, RemoveFacts
    <3>2. /\ Tail(pending) \in Seq(PendingReads) /\ Len(Tail(pending)) = Len(pending) - 1
          /\ \A j \in 1 .. (Len(pending) - 1) : Tail(pending)[j] = pending[j + 1]
      BY <1>1, <3>1
    <3>3. \A j \in 1 .. Len(Tail(pending)) : Tail(pending)[j] = RemoveAt(pending, 1)[j]
      BY <3>1, <3>2
    <3> QED BY <3>1, <3>2, <3>3, SeqEqual
  <2> QED BY <2>1
<1>5. left \in Seq(PendingReads)
  BY <1>1, <1>3, <1>4, RemoveFacts
<1>6. \A j \in DOMAIN left : \E k \in DOMAIN pending : left[j] = pending[k]
  <2>1. CASE ~HeadServed
    BY <2>1
  <2>2. CASE HeadServed
    <3>1. left = Tail(pending) /\ Len(pending) \in Nat /\ Len(pending) > 0
      BY <1>1, <1>3, <2>2
    <3>2. \A j \in DOMAIN left : j + 1 \in DOMAIN pending /\ left[j] = pending[j + 1]
      BY <1>1, <3>1
    <3> HIDE DEF left
    <3> QED BY <3>2
  <2> QED BY <2>1, <2>2
<1> HIDE DEF left
<1>7. PendingLeft = [j \in DOMAIN left |-> nearer(left[j])]
  BY DEF PendingLeft, left
<1>8. \A j \in DOMAIN left : left[j] \in PendingReads
  BY <1>5
<1> HIDE DEF nearer
<1>9. PendingLeft \in Seq(PendingReads) /\ DOMAIN PendingLeft = DOMAIN left
  BY <1>2, <1>5, <1>7, <1>8
<1>10. ASSUME NEW j \in DOMAIN PendingLeft
       PROVE  PendingLeft[j] = [req |-> left[j].req, left |-> left[j].left - 1]
  BY <1>2, <1>7, <1>8, <1>9
<1>11. PendingIds(PendingLeft) = PendingIds(left)
  BY <1>9, <1>10 DEF PendingIds
<1>12. HeadServed => PendingIds(left) = RemoveAt(PendingIds(pending), 1)
  BY <1>1, <1>3, <1>4, PendingIdsFacts
<1>13. HeadServed => ServedNow = {PendingIds(pending)[1]}
  BY <1>3 DEF ServedNow, PendingIds
<1>14. ~HeadServed => PendingIds(left) = PendingIds(pending) /\ ServedNow = {}
  BY <1>4 DEF ServedNow
<1>15. ASSUME NEW j \in DOMAIN PendingLeft
       PROVE  \E k \in DOMAIN pending :
                PendingLeft[j] = [req |-> pending[k].req, left |-> pending[k].left - 1]
  BY <1>6, <1>9, <1>10
<1> QED BY <1>3, <1>9, <1>11, <1>12, <1>13, <1>14, <1>15

(* What a tick does to the requests: nothing but completing a read, or it   *)
(* takes the chosen one out of its buffer and finishes it, or it moves the  *)
(* chosen one to the end of the active buffer, if there is room.            *)
Taken(b, i, c) == IF c = b THEN RemoveAt(buffer[c], i) ELSE buffer[c]

Kept ==
  /\ \A c \in Buffers : buffer'[c] = buffer[c]
  /\ pending' = PendingLeft
  /\ done' = done \cup ServedNow

Finished(b, i) ==
  LET q == buffer[b][i]
  IN  /\ command(q) = final_command(q)
      /\ \A c \in Buffers : buffer'[c] = Taken(b, i, c)
      /\ pending' = PendingLeft \o Departing(q)
      /\ done' = done \cup ServedNow \cup (IF q.type = "write" THEN {q.id} ELSE {})

Activated(b, i) ==
  LET q == buffer[b][i]
  IN  /\ command(q) \in S.opening
      /\ \A c \in Buffers :
           buffer'[c] = IF c = "active" /\ HasRoom(buffer["active"])
                        THEN Append(Taken(b, i, c), q) ELSE Taken(b, i, c)
      /\ pending' = PendingLeft
      /\ done' = done \cup ServedNow

LEMMA TakenFacts ==
  ASSUME KindInv, NEW b \in Buffers, NEW i \in DOMAIN buffer[b], NEW c \in Buffers
  PROVE  /\ Taken(b, i, c) \in Seq(Accepted)
         /\ buffer[b] \in Seq(Accepted) /\ buffer[c] \in Seq(Accepted)
         /\ buffer[b][i] \in Accepted
         /\ Append(Taken(b, i, c), buffer[b][i]) \in Seq(Accepted)
         /\ \A j \in DOMAIN Taken(b, i, c) : \E k \in DOMAIN buffer[c] :
              Taken(b, i, c)[j] = buffer[c][k] /\ ~(c = b /\ k = i)
<1>1. buffer[b] \in Seq(Accepted) /\ buffer[c] \in Seq(Accepted)
  BY DEF KindInv, WellBuffered
<1>2. buffer[b][i] \in Accepted
  BY <1>1
<1>3. CASE c = b
  <2>1. /\ RemoveAt(buffer[b], i) \in Seq(Accepted) /\ Len(buffer[b]) \in Nat /\ i \in 1 .. Len(buffer[b])
        /\ DOMAIN buffer[b] = 1 .. Len(buffer[b])
        /\ DOMAIN RemoveAt(buffer[b], i) = 1 .. (Len(buffer[b]) - 1)
        /\ \A j \in 1 .. (Len(buffer[b]) - 1) :
             RemoveAt(buffer[b], i)[j] = IF j < i THEN buffer[b][j] ELSE buffer[b][j + 1]
    BY <1>1, RemoveFacts, SMTT(60)
  <2>2. Taken(b, i, c) = RemoveAt(buffer[b], i)
    BY <1>3 DEF Taken
  <2>3. ASSUME NEW j \in DOMAIN RemoveAt(buffer[b], i)
        PROVE  \E k \in DOMAIN buffer[b] : RemoveAt(buffer[b], i)[j] = buffer[b][k] /\ k # i
    <3>1. j \in 1 .. (Len(buffer[b]) - 1)
      BY <2>1
    <3>2. CASE j < i
      BY <2>1, <3>1, <3>2, SMTT(30)
    <3>3. CASE ~(j < i)
      <4>1. j + 1 \in DOMAIN buffer[b] /\ j + 1 # i
        BY <2>1, <3>1, <3>3
      <4> QED BY <2>1, <3>1, <3>3, <4>1
    <3> QED BY <3>2, <3>3
  <2>4. Append(RemoveAt(buffer[b], i), buffer[b][i]) \in Seq(Accepted)
    BY <1>2, <2>1, AppendFacts
  <2> QED BY <1>1, <1>2, <1>3, <2>1, <2>2, <2>3, <2>4
<1>4. CASE c # b
  <2>1. Taken(b, i, c) = buffer[c]
    BY <1>4 DEF Taken
  <2> QED BY <1>1, <1>2, <1>4, <2>1, AppendFacts
<1> QED BY <1>3, <1>4

LEMMA Ticked ==
  ASSUME KindInv, PlaceInv, ControllerTick
  PROVE  /\ device' = device /\ arrived' = arrived /\ cycle_first' = arrived + 1
         /\ log' = log /\ ticking /\ ~ticking'
         /\ buffer' \in [BufferName -> Seq(Accepted \cup Refreshings)]
         /\ buffer'["priority"] \in Seq(Refreshings)
         /\ \/ Kept
            \/ \E b \in Buffers : \E i \in DOMAIN buffer[b] : Chosen(b, i) /\ Finished(b, i)
            \/ \E b \in Buffers : \E i \in DOMAIN buffer[b] : Chosen(b, i) /\ Activated(b, i)
<1> DEFINE Goal == /\ buffer' \in [BufferName -> Seq(Accepted \cup Refreshings)]
                   /\ buffer'["priority"] \in Seq(Refreshings)
                   /\ \/ Kept
                      \/ \E b \in Buffers : \E i \in DOMAIN buffer[b] : Chosen(b, i) /\ Finished(b, i)
                      \/ \E b \in Buffers : \E i \in DOMAIN buffer[b] : Chosen(b, i) /\ Activated(b, i)
<1>1. /\ device' = device /\ arrived' = arrived /\ cycle_first' = arrived + 1
      /\ log' = log /\ ticking /\ ~ticking'
  BY DEF ControllerTick, TickIdle, TickFinal, TickPrepare, TickCommon
<1>2. WellBuffered(Refreshed) /\ \A b \in Buffers : Refreshed[b] = buffer[b]
  BY RefreshedFacts
<1>3. IsDevice
  BY DEF KindInv
<1>4. CASE TickIdle
  <2>1. buffer' = Refreshed /\ Kept
    BY <1>2, <1>4 DEF TickIdle, Kept
  <2> QED BY <1>1, <1>2, <2>1 DEF WellBuffered
<1>5. CASE TickFinal
  <2>1. PICK q \in schedule_request :
          /\ command(q) = final_command(q)
          /\ buffer' = Removed(q)
          /\ pending' = PendingLeft \o Departing(q)
          /\ done' = done \cup ServedNow \cup (IF q.type = "write" THEN {q.id} ELSE {})
    BY <1>5 DEF TickFinal
  <2>2. CASE /\ q \in Refreshings /\ WellBuffered(Removed(q))
             /\ \A b \in Buffers : Removed(q)[b] = buffer[b]
    <3>1. q.type = "all-bank-refresh"
      BY <2>2 DEF Refreshings
    <3>2. PendingLeft \o Departing(q) = PendingLeft
      <4>1. Departing(q) = <<>>
        BY <3>1 DEF Departing
      <4>2. PendingLeft \in Seq(PendingReads)
        BY CompletedReads
      <4> QED BY <4>1, <4>2, ConcatEmptySeq
    <3>3. Kept
      BY <2>1, <2>2, <3>1, <3>2 DEF Kept
    <3> QED BY <1>1, <2>1, <2>2, <3>3 DEF WellBuffered
  <2>3. ASSUME NEW b \in Buffers, NEW i \in DOMAIN buffer[b],
               ServedBuffer = b, Chosen(b, i), q = buffer[b][i], Position(buffer[b], q) = i
        PROVE  Goal
    <3>1. Refreshed \in [BufferName -> Seq(Accepted \cup Refreshings)] /\ b \in BufferName
          /\ b # "priority" /\ Refreshed[b] = buffer[b]
          /\ \A c \in Buffers : c \in BufferName
      BY <1>2 DEF WellBuffered, Buffers, BufferName
    <3>2. buffer' = [Refreshed EXCEPT ![b] = RemoveAt(buffer[b], i)]
      BY <2>1, <2>3, <3>1 DEF Removed, Without
    <3>3. RemoveAt(buffer[b], i) \in Seq(Accepted \cup Refreshings)
      <4>1. RemoveAt(buffer[b], i) \in Seq(Accepted)
        BY TakenFacts DEF Taken
      <4> HIDE DEF Goal
      <4> QED BY <4>1
    <3>4. buffer' \in [BufferName -> Seq(Accepted \cup Refreshings)]
          /\ buffer'["priority"] \in Seq(Refreshings)
      BY <1>2, <3>1, <3>2, <3>3 DEF WellBuffered, BufferName
    <3>5. \A c \in Buffers : buffer'[c] = Taken(b, i, c)
      BY <1>2, <3>1, <3>2 DEF Taken
    <3>6. Finished(b, i)
      BY <2>1, <2>3, <3>5 DEF Finished
    <3> QED BY <2>3, <3>4, <3>6
  <2> HIDE DEF Goal
  <2>4. Goal
    <3>1. CASE /\ q \in Refreshings /\ WellBuffered(Removed(q))
               /\ \A b \in Buffers : Removed(q)[b] = buffer[b]
      BY <2>2, <3>1 DEF Goal
    <3> QED BY <2>3, <3>1, Scheduled
  <2> QED BY <1>1, <2>4 DEF Goal
<1>6. CASE TickPrepare
  <2>1. PICK q \in schedule_request :
          /\ buffer' = IF command(q) \in S.opening THEN MovedToActive(q) ELSE Refreshed
          /\ pending' = PendingLeft
          /\ done' = done \cup ServedNow
    BY <1>6 DEF TickPrepare
  <2>2. CASE command(q) \notin S.opening
    <3>1. buffer' = Refreshed /\ Kept
      BY <1>2, <2>1, <2>2 DEF Kept
    <3> QED BY <1>1, <1>2, <3>1 DEF WellBuffered
  <2>3. ASSUME command(q) \in S.opening, NEW b \in Buffers, NEW i \in DOMAIN buffer[b],
               ServedBuffer = b, Chosen(b, i), q = buffer[b][i], Position(buffer[b], q) = i
        PROVE  Goal
    <3> DEFINE active == buffer["active"]
               room == HasRoom(active)
               longer == IF room THEN Append(active, q) ELSE active
    <3>1. Refreshed \in [BufferName -> Seq(Accepted \cup Refreshings)] /\ b \in BufferName
          /\ b # "priority" /\ Refreshed[b] = buffer[b] /\ Refreshed["active"] = active
          /\ \A c \in Buffers : c \in BufferName /\ c # "priority"
      BY <1>2 DEF WellBuffered, Buffers, BufferName
    <3>2. active \in Seq(Accepted) /\ q \in Accepted /\ buffer[b] \in Seq(Accepted)
          /\ RemoveAt(buffer[b], i) \in Seq(Accepted)
      <4>1. "active" \in Buffers
        BY DEF Buffers
      <4> QED BY <2>3, <4>1, TakenFacts DEF Taken
    <3>3. longer \in Seq(Accepted)
      BY <3>2, AppendFacts
    <3> DEFINE entered == IF room THEN [Refreshed EXCEPT !["active"] = Append(@, q)] ELSE Refreshed
    <3>4. /\ entered \in [BufferName -> Seq(Accepted \cup Refreshings)]
          /\ entered["active"] = longer
          /\ \A c \in BufferName : c # "active" => entered[c] = Refreshed[c]
      <4>1. longer \in Seq(Accepted \cup Refreshings)
        <5> HIDE DEF longer
        <5> QED BY <3>3
      <4>2. entered = [Refreshed EXCEPT !["active"] = longer]
        <5>1. CASE room
          BY <3>1, <5>1
        <5>2. CASE ~room
          BY <3>1, <5>2
        <5> QED BY <5>1, <5>2
      <4> HIDE DEF longer, entered, active
      <4> QED BY <3>1, <4>1, <4>2 DEF BufferName
    <3>5. buffer' = [entered EXCEPT ![b] = Without(@, q)]
      <4>1. buffer' = MovedToActive(q)
        BY <2>1, <2>3
      <4> QED BY <2>3, <4>1 DEF MovedToActive
    <3> HIDE DEF longer, entered
    <3>6. Without(entered[b], q) =
            IF b = "active" /\ room THEN Append(RemoveAt(buffer[b], i), q) ELSE RemoveAt(buffer[b], i)
      <4>1. CASE b = "active" /\ room
        <5>1. entered[b] = Append(buffer[b], q)
          BY <3>4, <4>1 DEF longer
        <5>2. /\ Append(buffer[b], q) \in Seq(Accepted) /\ i \in DOMAIN Append(buffer[b], q)
              /\ Append(buffer[b], q)[i] = q
              /\ \A j \in 1 .. (i - 1) : /\ j \in DOMAIN buffer[b] /\ j # i
                                         /\ Append(buffer[b], q)[j] = buffer[b][j]
          BY <2>3, <3>2, AppendFacts
        <5>3. \A j \in 1 .. (i - 1) : Append(buffer[b], q)[j] # Append(buffer[b], q)[i]
          <6>1. \A j \in DOMAIN buffer[b] : buffer[b][j].id = buffer[b][i].id => j = i
            BY DistinctIds
          <6> QED BY <2>3, <5>2, <6>1
        <5>4. Position(Append(buffer[b], q), q) = i
          BY <5>2, <5>3, PositionFacts
        <5>5. RemoveAt(Append(buffer[b], q), i) = Append(RemoveAt(buffer[b], i), q)
          BY <3>2, RemoveAppend
        <5> QED BY <4>1, <5>1, <5>4, <5>5 DEF Without
      <4>2. CASE ~(b = "active" /\ room)
        <5>1. entered[b] = buffer[b]
          BY <3>1, <3>4, <4>2 DEF longer
        <5> QED BY <2>3, <4>2, <5>1 DEF Without
      <4> QED BY <4>1, <4>2
    <3>7. Without(entered[b], q) \in Seq(Accepted)
      BY <3>2, <3>6, AppendFacts
    <3>8. buffer' \in [BufferName -> Seq(Accepted \cup Refreshings)]
          /\ buffer'["priority"] \in Seq(Refreshings)
      <4>1. Without(entered[b], q) \in Seq(Accepted \cup Refreshings)
        BY <3>7
      <4>2. Refreshed["priority"] \in Seq(Refreshings)
        BY <1>2 DEF WellBuffered
      <4> QED BY <3>1, <3>4, <3>5, <4>1, <4>2 DEF BufferName
    <3>9. ASSUME NEW c \in Buffers
          PROVE  buffer'[c] = IF c = "active" /\ room THEN Append(Taken(b, i, c), q)
                              ELSE Taken(b, i, c)
      <4>1. CASE c = b
        BY <3>1, <3>4, <3>5, <3>6, <4>1 DEF Taken
      <4>2. CASE c # b
        <5>1. buffer'[c] = entered[c]
          BY <3>1, <3>4, <3>5, <4>2
        <5>2. entered[c] = IF c = "active" THEN longer ELSE buffer[c]
          BY <1>2, <3>1, <3>4
        <5> QED BY <4>2, <5>1, <5>2 DEF Taken, longer
      <4> QED BY <4>1, <4>2
    <3>10. Activated(b, i)
      BY <2>1, <2>3, <3>9 DEF Activated
    <3> QED BY <2>3, <3>8, <3>10
  <2> HIDE DEF Goal
  <2>4. ASSUME command(q) \in S.opening PROVE Goal
    <3>1. q \notin Refreshings
      BY <1>3, <2>4, RefreshCommand
    <3> QED BY <2>3, <2>4, <3>1, Scheduled
  <2>5. CASE command(q) \in S.opening
    BY <1>1, <2>4, <2>5 DEF Goal
  <2> QED BY <2>2, <2>5
<1> QED BY <1>4, <1>5, <1>6 DEF ControllerTick

-----------------------------------------------------------------------------
(* Where the requests are after a step *)

LEMMA WaitingFacts ==
  ASSUME KindInv
  PROVE  /\ Waiting = [x \in Place |-> IF x = "pending" THEN PendingIds(pending) ELSE Ids(buffer[x])]
         /\ Waiting \in [Place -> Seq(Nat)]
         /\ \A b \in Buffers : b \in Place /\ b # "pending"
<1>1. Waiting = [x \in Place |-> IF x = "pending" THEN PendingIds(pending) ELSE Ids(buffer[x])]
  BY DEF Waiting, Place, PendingIds, Ids
<1>2. PendingIds(pending) \in Seq(Nat)
  BY PendingIdsFacts DEF KindInv
<1>3. \A b \in Buffers : Ids(buffer[b]) \in Seq(Nat)
  BY IdsFacts DEF KindInv, WellBuffered
<1>4. \A x \in Place : x = "pending" \/ x \in Buffers
  BY DEF Place, Buffers
<1>5. \A b \in Buffers : b \in Place /\ b # "pending"
  BY DEF Place, Buffers
<1> QED BY <1>1, <1>2, <1>3, <1>4, <1>5

LEMMA WaitingNext ==
  Waiting' = [x \in Place |-> IF x = "pending" THEN PendingIds(pending') ELSE Ids(buffer'[x])]
BY DEF Waiting, Place, PendingIds, Ids

(* The places once a completed read is gone.                                *)
Completed == [Waiting EXCEPT !["pending"] = PendingIds(PendingLeft)]

LEMMA CompletedPlaced ==
  ASSUME KindInv, NEW gone, Placed(Waiting, gone, arrived)
  PROVE  /\ Placed(Completed, gone \cup ServedNow, arrived)
         /\ Completed["pending"] = PendingIds(PendingLeft)
         /\ \A b \in Buffers : Completed[b] = Ids(buffer[b])
<1>1. /\ Waiting["pending"] = PendingIds(pending) /\ "pending" \in Place
      /\ \A b \in Buffers : Waiting[b] = Ids(buffer[b])
      /\ Waiting \in [Place -> Seq(Nat)]
      /\ \A b \in Buffers : b \in Place /\ b # "pending"
  <2>1. "pending" \in Place
    BY DEF Place
  <2> QED BY <2>1, WaitingFacts
<1>2. arrived \in Nat
  BY DEF KindInv
<1>3. CASE HeadServed
  <2>1. /\ 1 \in DOMAIN Waiting["pending"]
        /\ Completed = [Waiting EXCEPT !["pending"] = RemoveAt(@, 1)]
        /\ ServedNow = {Waiting["pending"][1]}
    <3>1. 1 \in DOMAIN pending /\ PendingIds(PendingLeft) = RemoveAt(PendingIds(pending), 1)
          /\ ServedNow = {PendingIds(pending)[1]}
      BY <1>3, CompletedReads
    <3>2. DOMAIN PendingIds(pending) = DOMAIN pending
      BY DEF PendingIds
    <3> QED BY <1>1, <3>1, <3>2 DEF Completed
  <2>2. Placed(Completed, gone \cup ServedNow, arrived)
    BY <1>1, <1>2, <2>1, TakePlaced
  <2> QED BY <1>1, <2>2 DEF Completed
<1>4. CASE ~HeadServed
  <2>1. PendingIds(PendingLeft) = PendingIds(pending) /\ ServedNow = {}
    BY <1>4, CompletedReads
  <2>2. Completed = Waiting /\ gone \cup ServedNow = gone
    BY <1>1, <2>1 DEF Completed
  <2> QED BY <1>1, <2>1, <2>2
<1> QED BY <1>3, <1>4

(* If there is room for a request of each bank, there is room.              *)
LEMMA RoomForAll ==
  ASSUME KindInv, DistinctInv, BanksFit
  PROVE  HasRoom(buffer["active"])
<1> DEFINE active == buffer["active"]
           f == [k \in 1 .. Len(active) |-> addr_vec(active[k].addr)]
<1>1. active \in Seq(Accepted)
  BY DEF KindInv, WellBuffered, Buffers
<1>2. Len(active) \in Nat /\ DOMAIN active = 1 .. Len(active)
      /\ \A k \in 1 .. Len(active) : active[k].addr \in Accesses
  <2> HIDE DEF active
  <2>1. Len(active) \in Nat /\ DOMAIN active = 1 .. Len(active)
        /\ \A k \in 1 .. Len(active) : active[k] \in Accepted
    BY <1>1
  <2>2. \A q \in Accepted : q.addr \in Accesses
    BY DEF Accepted
  <2> QED BY <2>1, <2>2
<1>3. IsFiniteSet(Tree.banks) /\ Cardinality(Tree.banks) <= max_size
  BY DEF BanksFit, KindInv, IsDevice, Tree, Trees
<1>4. \A k \in 1 .. Len(active) : f[k] \in Tree.banks
  BY <1>2, AccessFacts DEF KindInv
<1>5. \A k, l \in 1 .. Len(active) : f[k] = f[l] => k = l
  BY <1>2 DEF DistinctInv
<1>6. f \in Injection(1 .. Len(active), Tree.banks)
  <2> HIDE DEF active
  <2>1. f \in [1 .. Len(active) -> Tree.banks]
    BY <1>4
  <2> HIDE DEF f
  <2> QED BY <1>5, <2>1 DEF Injection, IsInjective
<1> HIDE DEF f, active
<1>7. Cardinality(1 .. Len(active)) <= Cardinality(Tree.banks)
  BY <1>3, <1>6, FS_Injection
<1>8. Cardinality(1 .. Len(active)) = Len(active)
  BY <1>2, FS_Interval, SMTT(30)
<1>9. Cardinality(Tree.banks) \in Nat
  BY <1>3, FS_CardinalityType
<1>10. Len(active) <= max_size
  BY <1>2, <1>3, <1>7, <1>8, <1>9, GenericAssumption
<1> QED BY <1>10 DEF HasRoom, active

(* What is taken from a buffer is gone until it is put somewhere.           *)
LEMMA TakenPlaced ==
  ASSUME KindInv, NEW gone, Placed(Waiting, gone, arrived),
         NEW b \in Buffers, NEW i \in DOMAIN buffer[b]
  PROVE  LET W    == [Completed EXCEPT ![b] = RemoveAt(@, i)]
             over == gone \cup ServedNow
             id   == buffer[b][i].id
         IN  /\ Placed(W, over \cup {id}, arrived)
             /\ id \notin over
             /\ W["pending"] = PendingIds(PendingLeft)
             /\ \A c \in Buffers : W[c] = Ids(Taken(b, i, c))
             /\ \A x \in Place : Placed([W EXCEPT ![x] = Append(@, id)], over, arrived)
<1> DEFINE W    == [Completed EXCEPT ![b] = RemoveAt(@, i)]
           over == gone \cup ServedNow
           id   == buffer[b][i].id
<1>1. /\ Placed(Completed, over, arrived)
      /\ Completed["pending"] = PendingIds(PendingLeft)
      /\ \A c \in Buffers : Completed[c] = Ids(buffer[c])
  BY CompletedPlaced
<1>2. Completed \in [Place -> Seq(Nat)] /\ \A c \in Buffers : c \in Place /\ c # "pending"
  BY <1>1, WaitingFacts DEF Placed
<1>3. buffer[b] \in Seq(Accepted) /\ arrived \in Nat
  BY DEF KindInv, WellBuffered
<1>4. i \in DOMAIN Completed[b] /\ Completed[b][i] = id
  BY <1>1, <1>3, IdsFacts
<1>5. Placed(W, over \cup {id}, arrived)
  <2>1. Placed([Completed EXCEPT ![b] = RemoveAt(@, i)], over \cup {Completed[b][i]}, arrived)
    <3> HIDE DEF over
    <3> QED BY <1>1, <1>2, <1>3, <1>4, TakePlaced
  <2> QED BY <1>4, <2>1
<1>6. id \notin over
  <2> HIDE DEF over, id
  <2> QED BY <1>1, <1>2, <1>4 DEF Placed
<1>7. W["pending"] = PendingIds(PendingLeft)
  BY <1>1, <1>2 DEF Place
<1>8. ASSUME NEW c \in Buffers PROVE W[c] = Ids(Taken(b, i, c))
  <2>1. CASE c = b
    <3>1. Ids(RemoveAt(buffer[b], i)) = RemoveAt(Ids(buffer[b]), i)
      BY <1>3, IdsFacts
    <3> QED BY <1>1, <1>2, <2>1, <3>1 DEF Taken
  <2>2. CASE c # b
    BY <1>1, <1>2, <2>2 DEF Taken
  <2> QED BY <2>1, <2>2
<1>9. ASSUME NEW x \in Place PROVE Placed([W EXCEPT ![x] = Append(@, id)], over, arrived)
  <2>1. (over \cup {id}) \ {id} = over
    BY <1>6
  <2> HIDE DEF W, over, id
  <2> QED BY <1>3, <1>5, <2>1, PutPlaced
<1> QED BY <1>5, <1>6, <1>7, <1>8, <1>9

LEMMA PlaceTick ==
  ASSUME KindInv, DistinctInv, PlaceInv, ControllerTick
  PROVE  PlaceInv'
<1>1. PICK gone : /\ done \subseteq gone /\ (BanksFit => gone = done)
                  /\ Placed(Waiting, gone, arrived)
  BY DEF PlaceInv
<1> DEFINE over == gone \cup ServedNow
           Settled(g) == /\ done' \subseteq g /\ (BanksFit => g = done')
                      /\ Placed(Waiting', g, arrived)
<1>2. arrived' = arrived
  BY Ticked
<1>3. SUFFICES \E g : Settled(g)
  BY <1>2 DEF PlaceInv
<1>4. Waiting' = [x \in Place |-> IF x = "pending" THEN PendingIds(pending') ELSE Ids(buffer'[x])]
  BY WaitingNext
<1>5. /\ \A x \in Place : x = "pending" \/ x \in Buffers
      /\ \A b \in Buffers : b \in Place /\ b # "pending"
      /\ "pending" \in Place /\ "active" \in Buffers
  BY DEF Place, Buffers
<1>6. /\ Placed(Completed, over, arrived)
      /\ Completed["pending"] = PendingIds(PendingLeft)
      /\ \A b \in Buffers : Completed[b] = Ids(buffer[b])
  BY <1>1, CompletedPlaced
<1>7. done \cup ServedNow \subseteq over /\ (BanksFit => over = done \cup ServedNow)
  BY <1>1
<1>8. CASE Kept
  <2>1. Completed \in [Place -> Seq(Nat)]
    BY <1>6 DEF Placed
  <2>2. \A x \in Place : Waiting'[x] = Completed[x]
    BY <1>4, <1>5, <1>6, <1>8 DEF Kept
  <2>3. Waiting' = Completed
    BY <1>4, <2>1, <2>2
  <2>4. Settled(over)
    <3> HIDE DEF over
    <3> QED BY <1>6, <1>7, <1>8, <2>3 DEF Kept
  <2> HIDE DEF over
  <2> QED BY <2>4
<1>9. ASSUME NEW b \in Buffers, NEW i \in DOMAIN buffer[b] PROVE Activated(b, i) => \E g : Settled(g)
  <2>1. SUFFICES ASSUME Activated(b, i) PROVE \E g : Settled(g)
    OBVIOUS
  <2> DEFINE W  == [Completed EXCEPT ![b] = RemoveAt(@, i)]
             q  == buffer[b][i]
             room == HasRoom(buffer["active"])
  <2>2. /\ Placed(W, over \cup {q.id}, arrived)
        /\ W["pending"] = PendingIds(PendingLeft)
        /\ \A c \in Buffers : W[c] = Ids(Taken(b, i, c))
        /\ \A x \in Place : Placed([W EXCEPT ![x] = Append(@, q.id)], over, arrived)
    BY <1>1, TakenPlaced
  <2>3. \A c \in Buffers : Taken(b, i, c) \in Seq(Accepted) /\ q \in Accepted
    BY TakenFacts
  <2>4. /\ pending' = PendingLeft /\ done' = done \cup ServedNow
        /\ \A c \in Buffers : buffer'[c] = IF c = "active" /\ room
                                           THEN Append(Taken(b, i, c), q) ELSE Taken(b, i, c)
    BY <2>1 DEF Activated
  <2>5. W \in [Place -> Seq(Nat)]
    BY <2>2 DEF Placed
  <2>6. CASE room
    <3> DEFINE V == [W EXCEPT !["active"] = Append(@, q.id)]
    <3>1. V["pending"] = W["pending"]
          /\ \A c \in Buffers : V[c] = IF c = "active" THEN Append(W[c], q.id) ELSE W[c]
      <4> HIDE DEF W
      <4> QED BY <1>5, <2>5
    <3>2. Ids(Append(Taken(b, i, "active"), q)) = Append(Ids(Taken(b, i, "active")), q.id)
      BY <1>5, <2>3, IdsFacts
    <3>3. Placed(V, over, arrived)
      <4> HIDE DEF W, over, q
      <4> QED BY <1>5, <2>2
    <3>4. V \in [Place -> Seq(Nat)]
      BY <3>3 DEF Placed
    <3>5. ASSUME NEW x \in Place PROVE Waiting'[x] = V[x]
      <4> HIDE DEF V, W, q, room
      <4>1. CASE x = "pending"
        BY <1>4, <2>2, <2>4, <3>1, <4>1
      <4>2. CASE x = "active"
        BY <1>4, <1>5, <2>2, <2>4, <2>6, <3>1, <3>2, <4>2
      <4>3. CASE x # "pending" /\ x # "active"
        BY <1>4, <1>5, <2>2, <2>4, <3>1, <4>3
      <4> QED BY <4>1, <4>2, <4>3
    <3>6. Waiting' = V
      <4> HIDE DEF V
      <4> QED BY <1>4, <3>4, <3>5
    <3>7. Settled(over)
      <4> HIDE DEF over, V
      <4> QED BY <1>7, <2>4, <3>3, <3>6
    <3> HIDE DEF Settled
    <3> QED BY <3>7
  <2>7. CASE ~room
    <3>1. ~BanksFit
      BY <2>7, RoomForAll
    <3>2. ASSUME NEW x \in Place PROVE Waiting'[x] = W[x]
      <4> HIDE DEF W, q, room
      <4> QED BY <1>4, <1>5, <2>2, <2>4, <2>7
    <3>3. Waiting' = W
      <4> HIDE DEF W
      <4> QED BY <1>4, <2>5, <3>2
    <3>4. Settled(over \cup {q.id})
      <4> HIDE DEF over, W, q
      <4> QED BY <1>7, <2>2, <2>4, <3>1, <3>3
    <3> HIDE DEF Settled
    <3> QED BY <3>4
  <2> QED BY <2>6, <2>7
<1>10. ASSUME NEW b \in Buffers, NEW i \in DOMAIN buffer[b] PROVE Finished(b, i) => \E g : Settled(g)
  <2>1. SUFFICES ASSUME Finished(b, i) PROVE \E g : Settled(g)
    OBVIOUS
  <2> DEFINE W  == [Completed EXCEPT ![b] = RemoveAt(@, i)]
             q  == buffer[b][i]
  <2>2. /\ Placed(W, over \cup {q.id}, arrived)
        /\ W["pending"] = PendingIds(PendingLeft)
        /\ \A c \in Buffers : W[c] = Ids(Taken(b, i, c))
        /\ \A x \in Place : Placed([W EXCEPT ![x] = Append(@, q.id)], over, arrived)
    BY <1>1, TakenPlaced
  <2>3. q \in Accepted
    BY TakenFacts
  <2>4. /\ pending' = PendingLeft \o Departing(q)
        /\ done' = done \cup ServedNow \cup (IF q.type = "write" THEN {q.id} ELSE {})
        /\ \A c \in Buffers : buffer'[c] = Taken(b, i, c)
    BY <2>1 DEF Finished
  <2>5. W \in [Place -> Seq(Nat)]
    BY <2>2 DEF Placed
  <2>6. PendingLeft \in Seq(PendingReads)
    BY CompletedReads
  <2>7. CASE q.type = "write"
    <3>1. pending' = PendingLeft
      <4>1. Departing(q) = <<>>
        BY <2>7 DEF Departing
      <4> QED BY <2>4, <2>6, <4>1, ConcatEmptySeq
    <3>2. ASSUME NEW x \in Place PROVE Waiting'[x] = W[x]
      <4> HIDE DEF W
      <4> QED BY <1>4, <1>5, <2>2, <2>4, <3>1
    <3>3. Waiting' = W
      <4> HIDE DEF W
      <4> QED BY <1>4, <2>5, <3>2
    <3>4. Settled(over \cup {q.id})
      <4> HIDE DEF over, W, q
      <4> QED BY <1>7, <2>2, <2>4, <2>7, <3>3
    <3> HIDE DEF Settled
    <3> QED BY <3>4
  <2>8. CASE q.type = "read"
    <3> DEFINE V == [W EXCEPT !["pending"] = Append(@, q.id)]
               r == [req |-> q, left |-> m_read_latency]
    <3>1. V["pending"] = Append(W["pending"], q.id) /\ \A c \in Buffers : V[c] = W[c]
      <4> HIDE DEF W
      <4> QED BY <1>5, <2>5
    <3>2. r \in PendingReads /\ r.req.id = q.id
      <4>1. m_read_latency \in Nat
        BY AccessFacts DEF KindInv
      <4> HIDE DEF q
      <4> QED BY <2>3, <2>8, <4>1 DEF PendingReads
    <3>3. pending' = Append(PendingLeft, r)
      <4>1. Departing(q) = <<r>>
        BY <2>8 DEF Departing
      <4> HIDE DEF r, q
      <4> QED BY <2>4, <2>6, <3>2, <4>1, AppendIsConcat
    <3>4. PendingIds(pending') = Append(PendingIds(PendingLeft), q.id)
      <4> HIDE DEF r, q
      <4> QED BY <2>6, <3>2, <3>3, PendingIdsFacts
    <3>5. Placed(V, over, arrived)
      <4> HIDE DEF W, over, q
      <4> QED BY <1>5, <2>2
    <3>6. V \in [Place -> Seq(Nat)]
      BY <3>5 DEF Placed
    <3>7. ASSUME NEW x \in Place PROVE Waiting'[x] = V[x]
      <4> HIDE DEF V, W, q
      <4> QED BY <1>4, <1>5, <2>2, <2>4, <3>1, <3>4
    <3>8. Waiting' = V
      <4> HIDE DEF V
      <4> QED BY <1>4, <3>6, <3>7
    <3>9. Settled(over)
      <4>1. done' = done \cup ServedNow
        BY <2>4, <2>8
      <4> HIDE DEF over, V
      <4> QED BY <1>7, <3>5, <3>8, <4>1
    <3> HIDE DEF Settled
    <3> QED BY <3>9
  <2> QED BY <2>3, <2>7, <2>8 DEF Accepted
<1> HIDE DEF Settled
<1> QED BY <1>8, <1>9, <1>10, Ticked

-----------------------------------------------------------------------------
(* Arrivals *)

LEMMA SendEffects ==
  ASSUME KindInv, NEW type \in {"read", "write"}, NEW a \in Accesses, send(type, a)
  PROVE  LET r == Request(type, a)
         IN  /\ device' = device /\ log' = log /\ ticking' = ticking /\ done' = done
             /\ arrived' = arrived + 1 /\ cycle_first' = cycle_first
             /\ refresh_in' = refresh_in
             /\ m_row_state' = m_row_state /\ m_cmd_ready_clk' = m_cmd_ready_clk
             /\ m_cmd_history' = m_cmd_history
             /\ r \in Accepted /\ r.id = arrived + 1 /\ r.arrive = cycle_first
             /\ r.type = type /\ r.addr = a
             /\ \/ /\ type = "read" /\ buffer' = buffer
                   /\ [req |-> r, left |-> 1] \in PendingReads
                   /\ pending' = Append(pending, [req |-> r, left |-> 1])
                \/ /\ pending' = pending
                   /\ buffer' = [buffer EXCEPT ![type] = Append(buffer[type], r)]
<1> DEFINE r == Request(type, a)
<1>1. arrived \in Nat /\ cycle_first \in Nat
  BY DEF KindInv
<1>2. /\ r.id = arrived + 1 /\ r.arrive = cycle_first /\ r.type = type /\ r.addr = a
      /\ r \in Accepted
  BY <1>1 DEF Request, Accepted
<1>3. /\ device' = device /\ log' = log /\ ticking' = ticking /\ done' = done
      /\ arrived' = arrived + 1 /\ cycle_first' = cycle_first
      /\ refresh_in' = refresh_in
      /\ m_row_state' = m_row_state /\ m_cmd_ready_clk' = m_cmd_ready_clk
      /\ m_cmd_history' = m_cmd_history
  BY DEF send, vars
<1> HIDE DEF r
<1>4. CASE Forwarded(type, a)
  <2>1. type = "read"
    BY <1>4 DEF Forwarded
  <2>2. [req |-> r, left |-> 1] \in PendingReads
    BY <1>2, <2>1 DEF PendingReads
  <2>3. buffer' = buffer /\ pending' = Append(pending, [req |-> r, left |-> 1])
    BY <1>4 DEF send, r
  <2> QED BY <1>2, <1>3, <2>1, <2>2, <2>3 DEF r
<1>5. CASE ~Forwarded(type, a)
  <2>1. pending' = pending /\ buffer' = [buffer EXCEPT ![type] = Append(buffer[type], r)]
    BY <1>5 DEF send, r
  <2> QED BY <1>2, <1>3, <2>1 DEF r
<1> QED BY <1>4, <1>5

LEMMA PlaceSend ==
  ASSUME KindInv, PlaceInv, NEW type \in {"read", "write"}, NEW a \in Accesses, send(type, a)
  PROVE  PlaceInv'
<1> DEFINE r == Request(type, a)
<1>1. PICK gone : /\ done \subseteq gone /\ (BanksFit => gone = done)
                  /\ Placed(Waiting, gone, arrived)
  BY DEF PlaceInv
<1>2. /\ done' = done /\ arrived' = arrived + 1 /\ arrived \in Nat
      /\ r \in Accepted /\ r.id = arrived + 1
  BY SendEffects, ZenonT(60) DEF KindInv
<1> HIDE DEF r
<1>3. ASSUME NEW x \in Place PROVE Placed([Waiting EXCEPT ![x] = Append(@, r.id)], gone, arrived + 1)
  <2>1. Placed(Waiting, gone \cup {arrived + 1}, arrived + 1)
    BY <1>1, <1>2, NewPlaced
  <2>2. arrived + 1 \notin gone
    BY <1>1, <1>2 DEF Placed
  <2>3. (gone \cup {arrived + 1}) \ {arrived + 1} = gone
    BY <2>2
  <2> QED BY <1>2, <2>1, <2>3, PutPlaced, SMTT(60)
<1>4. Waiting' = [x \in Place |-> IF x = "pending" THEN PendingIds(pending') ELSE Ids(buffer'[x])]
  BY WaitingNext
<1>5. /\ Waiting = [x \in Place |-> IF x = "pending" THEN PendingIds(pending) ELSE Ids(buffer[x])]
      /\ Waiting \in [Place -> Seq(Nat)]
  BY WaitingFacts
<1>6. /\ \A x \in Place : x = "pending" \/ x \in Buffers
      /\ type \in Place /\ type \in Buffers /\ type # "pending" /\ "pending" \in Place
      /\ type \in BufferName
  BY DEF Place, Buffers, BufferName
<1>7. buffer \in [BufferName -> Seq(Accepted \cup Refreshings)] /\ buffer[type] \in Seq(Accepted)
      /\ pending \in Seq(PendingReads) /\ Buffers \subseteq BufferName
  BY <1>6 DEF KindInv, WellBuffered, Buffers, BufferName
<1>8. CASE /\ buffer' = buffer /\ [req |-> r, left |-> 1] \in PendingReads
           /\ pending' = Append(pending, [req |-> r, left |-> 1])
  <2>1. PendingIds(pending') = Append(PendingIds(pending), r.id)
    BY <1>7, <1>8, PendingIdsFacts
  <2>2. Waiting' = [Waiting EXCEPT !["pending"] = Append(@, r.id)]
    BY <1>4, <1>5, <1>6, <1>8, <2>1
  <2> QED BY <1>1, <1>2, <1>3, <1>6, <2>2 DEF PlaceInv
<1>9. CASE /\ pending' = pending
           /\ buffer' = [buffer EXCEPT ![type] = Append(buffer[type], r)]
  <2>1. Ids(Append(buffer[type], r)) = Append(Ids(buffer[type]), r.id)
    BY <1>2, <1>7, IdsFacts
  <2> DEFINE V == [Waiting EXCEPT ![type] = Append(@, r.id)]
  <2>2. ASSUME NEW x \in Place PROVE Waiting'[x] = V[x]
    <3>1. CASE x = "pending"
      BY <1>4, <1>5, <1>6, <1>9, <3>1
    <3>2. CASE x = type
      BY <1>4, <1>5, <1>6, <1>7, <1>9, <2>1, <3>2
    <3>3. CASE x # "pending" /\ x # type
      <4>1. x \in BufferName
        BY <1>6, <1>7, <3>3
      <4> QED BY <1>4, <1>5, <1>6, <1>7, <1>9, <3>3, <4>1
    <3> QED BY <3>1, <3>2, <3>3
  <2>3. V \in [Place -> Seq(Nat)]
    BY <1>3, <1>6 DEF Placed
  <2>4. Waiting' = V
    <3> HIDE DEF V
    <3> QED BY <1>4, <2>2, <2>3
  <2> QED BY <1>1, <1>2, <1>3, <1>6, <2>4 DEF PlaceInv
<1> QED BY <1>8, <1>9, SendEffects DEF r

-----------------------------------------------------------------------------
(* The invariant is kept *)

LEMMA KindStep ==
  ASSUME KindInv, PlaceInv, [GenericNext]_allvars
  PROVE  KindInv'
<1>1. CASE UNCHANGED <<device, buffer, pending, arrived, cycle_first>>
  BY <1>1 DEF KindInv, IsDevice, WellBuffered
<1>2. ASSUME NEW type \in {"read", "write"}, NEW a \in Accesses, send(type, a)
      PROVE  KindInv'
  <2> DEFINE r == Request(type, a)
  <2>1. /\ device' = device /\ arrived' = arrived + 1 /\ cycle_first' = cycle_first
        /\ r \in Accepted /\ r.type = type
        /\ \/ /\ buffer' = buffer
              /\ [req |-> r, left |-> 1] \in PendingReads
              /\ pending' = Append(pending, [req |-> r, left |-> 1])
           \/ /\ pending' = pending
              /\ buffer' = [buffer EXCEPT ![type] = Append(buffer[type], r)]
    BY <1>2, SendEffects
  <2> HIDE DEF r
  <2>2. pending' \in Seq(PendingReads)
    BY <2>1, AppendFacts DEF KindInv
  <2>3. arrived' \in Nat /\ cycle_first' \in 1 .. (arrived' + 1) /\ IsDevice'
    BY <2>1 DEF KindInv, IsDevice
  <2>4. WellBuffered(buffer')
    <3>1. WellBuffered(buffer) /\ type \in Buffers /\ type \in BufferName /\ type # "priority"
          /\ Buffers \subseteq BufferName /\ {"read", "write"} \subseteq Buffers
          /\ "priority" \notin Buffers
      BY DEF KindInv, Buffers, BufferName
    <3>2. CASE buffer' = buffer
      BY <3>1, <3>2
    <3>3. CASE buffer' = [buffer EXCEPT ![type] = Append(buffer[type], r)]
      <4> DEFINE longer == Append(buffer[type], r)
      <4>1. buffer[type] \in Seq(Accepted) /\ buffer \in [BufferName -> Seq(Accepted \cup Refreshings)]
        BY <3>1 DEF WellBuffered
      <4>2. /\ longer \in Seq(Accepted) /\ DOMAIN longer = 1 .. (Len(buffer[type]) + 1)
            /\ Len(buffer[type]) \in Nat /\ DOMAIN buffer[type] = 1 .. Len(buffer[type])
            /\ \A j \in 1 .. Len(buffer[type]) : longer[j] = buffer[type][j]
            /\ longer[Len(buffer[type]) + 1] = r
        BY <2>1, <4>1, AppendFacts
      <4> HIDE DEF longer
      <4>3. \A j \in DOMAIN longer : longer[j].type = type
        <5>1. \A j \in 1 .. Len(buffer[type]) : buffer[type][j].type = type
          BY <3>1, <4>2 DEF WellBuffered
        <5>2. \A j \in DOMAIN longer : j \in 1 .. Len(buffer[type]) \/ j = Len(buffer[type]) + 1
          BY <4>2
        <5> QED BY <2>1, <4>2, <5>1, <5>2
      <4>4. longer \in Seq(Accepted \cup Refreshings)
        BY <4>2
      <4>5. buffer' = [buffer EXCEPT ![type] = longer]
        BY <3>3 DEF longer
      <4> QED BY <3>1, <4>1, <4>2, <4>3, <4>4, <4>5 DEF WellBuffered
    <3> QED BY <2>1, <3>2, <3>3
  <2> QED BY <2>2, <2>3, <2>4 DEF KindInv, WellBuffered
<1>3. CASE ControllerTick
  <2>1. /\ device' = device /\ arrived' = arrived /\ cycle_first' = arrived + 1
        /\ buffer' \in [BufferName -> Seq(Accepted \cup Refreshings)]
        /\ buffer'["priority"] \in Seq(Refreshings)
    BY <1>3, Ticked
  <2>2. IsDevice' /\ arrived' \in Nat /\ cycle_first' \in 1 .. (arrived' + 1)
    BY <2>1 DEF KindInv, IsDevice
  <2>3. PendingLeft \in Seq(PendingReads)
    BY CompletedReads
  <2> DEFINE Sound == /\ \A c \in Buffers : buffer'[c] \in Seq(Accepted)
                      /\ \A c \in {"read", "write"} : \A j \in DOMAIN buffer'[c] :
                           buffer'[c][j].type = c
                      /\ pending' \in Seq(PendingReads)
  <2>4. ASSUME Kept PROVE Sound
    <3>1. \A c \in {"read", "write"} : c \in Buffers
      BY DEF Buffers
    <3>2. WellBuffered(buffer)
      BY DEF KindInv
    <3>3. pending' = PendingLeft /\ \A c \in Buffers : buffer'[c] = buffer[c]
      BY <2>4 DEF Kept
    <3> QED BY <2>3, <3>1, <3>2, <3>3 DEF WellBuffered
  <2>5. ASSUME NEW b \in Buffers, NEW i \in DOMAIN buffer[b]
        PROVE  \A c \in {"read", "write"} : \A j \in DOMAIN Taken(b, i, c) : Taken(b, i, c)[j].type = c
    <3>1. ASSUME NEW c \in {"read", "write"}, NEW j \in DOMAIN Taken(b, i, c)
          PROVE  Taken(b, i, c)[j].type = c
      <4>1. c \in Buffers
        BY DEF Buffers
      <4>2. PICK k \in DOMAIN buffer[c] : Taken(b, i, c)[j] = buffer[c][k]
        BY <4>1, TakenFacts
      <4> QED BY <4>2 DEF KindInv, WellBuffered
    <3> QED BY <3>1
  <2>6. ASSUME NEW b \in Buffers, NEW i \in DOMAIN buffer[b], Finished(b, i)
        PROVE  Sound
    <3> DEFINE q == buffer[b][i]
    <3>1. \A c \in Buffers : buffer'[c] = Taken(b, i, c) /\ Taken(b, i, c) \in Seq(Accepted)
      BY <2>6, TakenFacts DEF Finished
    <3>2. \A c \in {"read", "write"} : c \in Buffers
      BY DEF Buffers
    <3>3. q \in Accepted /\ m_read_latency \in Nat
      BY TakenFacts, AccessFacts DEF KindInv
    <3>4. Departing(q) \in Seq(PendingReads)
      <4> HIDE DEF q
      <4>1. CASE q.type = "read"
        <5>1. [req |-> q, left |-> m_read_latency] \in PendingReads
          BY <3>3, <4>1 DEF PendingReads
        <5> QED BY <4>1, <5>1 DEF Departing
      <4>2. CASE q.type # "read"
        BY <4>2 DEF Departing
      <4> QED BY <4>1, <4>2
    <3>5. pending' \in Seq(PendingReads)
      <4>1. pending' = PendingLeft \o Departing(q)
        BY <2>6 DEF Finished
      <4> HIDE DEF q
      <4> QED BY <2>3, <3>4, <4>1, ConcatProperties
    <3> QED BY <2>5, <3>1, <3>2, <3>5
  <2>7. ASSUME NEW b \in Buffers, NEW i \in DOMAIN buffer[b], Activated(b, i)
        PROVE  Sound
    <3>1. \A c \in Buffers : buffer'[c] \in {Taken(b, i, c), Append(Taken(b, i, c), buffer[b][i])}
          /\ (c # "active" => buffer'[c] = Taken(b, i, c))
      BY <2>7 DEF Activated
    <3>2. ASSUME NEW c \in Buffers PROVE buffer'[c] \in Seq(Accepted)
      <4>1. Taken(b, i, c) \in Seq(Accepted) /\ Append(Taken(b, i, c), buffer[b][i]) \in Seq(Accepted)
        BY TakenFacts
      <4> QED BY <3>1, <4>1
    <3>3. \A c \in {"read", "write"} : c \in Buffers /\ c # "active"
      BY DEF Buffers
    <3>4. pending' = PendingLeft
      BY <2>7 DEF Activated
    <3> QED BY <2>3, <2>5, <3>1, <3>2, <3>3, <3>4
  <2> HIDE DEF Sound
  <2>8. Sound
    BY <1>3, <2>4, <2>6, <2>7, Ticked DEF Sound
  <2> QED BY <2>1, <2>2, <2>8 DEF KindInv, WellBuffered, Sound
<1>4. CASE DeviceTick
  <2>1. UNCHANGED <<device, buffer, pending, arrived, cycle_first>>
    BY <1>4 DEF DeviceTick, tick, ctrl
  <2> QED BY <1>1, <2>1
<1>5. CASE UNCHANGED allvars
  <2>1. UNCHANGED <<device, buffer, pending, arrived, cycle_first>>
    BY <1>5 DEF allvars, vars, ctrl
  <2> QED BY <1>1, <2>1
<1> QED BY <1>2, <1>3, <1>4, <1>5 DEF GenericNext

(* What is left keeps its order.                                            *)
LEMMA TakenOrder ==
  ASSUME KindInv, NEW b \in Buffers, NEW i \in DOMAIN buffer[b], NEW c \in Buffers,
         NEW j \in DOMAIN Taken(b, i, c), NEW k \in DOMAIN Taken(b, i, c), j < k
  PROVE  \E m, n \in DOMAIN buffer[c] :
           /\ m < n /\ ~(c = b /\ m = i) /\ ~(c = b /\ n = i)
           /\ Taken(b, i, c)[j] = buffer[c][m] /\ Taken(b, i, c)[k] = buffer[c][n]
<1>1. buffer[c] \in Seq(Accepted)
  BY DEF KindInv, WellBuffered
<1>2. CASE c = b
  <2> DEFINE from(x) == IF x < i THEN x ELSE x + 1
  <2>1. Taken(b, i, c) = RemoveAt(buffer[c], i) /\ i \in DOMAIN buffer[c]
    BY <1>2 DEF Taken
  <2>2. /\ Len(buffer[c]) \in Nat /\ i \in 1 .. Len(buffer[c])
        /\ DOMAIN buffer[c] = 1 .. Len(buffer[c])
        /\ DOMAIN RemoveAt(buffer[c], i) = 1 .. (Len(buffer[c]) - 1)
        /\ \A x \in 1 .. (Len(buffer[c]) - 1) :
             RemoveAt(buffer[c], i)[x] = IF x < i THEN buffer[c][x] ELSE buffer[c][x + 1]
    <3>1. ASSUME NEW u \in Seq(Accepted), i \in DOMAIN u
          PROVE  /\ Len(u) \in Nat /\ i \in 1 .. Len(u) /\ DOMAIN u = 1 .. Len(u)
                 /\ DOMAIN RemoveAt(u, i) = 1 .. (Len(u) - 1)
                 /\ \A x \in 1 .. (Len(u) - 1) :
                      RemoveAt(u, i)[x] = IF x < i THEN u[x] ELSE u[x + 1]
      BY <3>1, RemoveFacts
    <3> QED BY <1>1, <2>1, <3>1
  <2>3. j \in 1 .. (Len(buffer[c]) - 1) /\ k \in 1 .. (Len(buffer[c]) - 1)
    BY <2>1, <2>2
  <2>4. /\ from(j) \in DOMAIN buffer[c] /\ from(k) \in DOMAIN buffer[c] /\ from(j) < from(k)
        /\ from(j) # i /\ from(k) # i
    BY <2>2, <2>3
  <2>5. Taken(b, i, c)[j] = buffer[c][from(j)] /\ Taken(b, i, c)[k] = buffer[c][from(k)]
    BY <2>1, <2>2, <2>3
  <2> HIDE DEF from
  <2> QED BY <2>4, <2>5
<1>3. CASE c # b
  <2>1. Taken(b, i, c) = buffer[c]
    BY <1>3 DEF Taken
  <2> QED BY <1>3, <2>1
<1> QED BY <1>2, <1>3

LEMMA NextDistinct ==
  ASSUME device' = device
  PROVE  DistinctInv' <=>
           \A i, j \in DOMAIN buffer'["active"] :
             i # j => addr_vec(buffer'["active"][i].addr) # addr_vec(buffer'["active"][j].addr)
BY SMTT(60) DEF DistinctInv, addr_vec, S

(* A request that would have its bank opened finds no request to that bank  *)
(* in the active buffer, which would have been as ready and come first.     *)
LEMMA NoneActive ==
  ASSUME KindInv, NEW b \in Buffers, NEW i \in DOMAIN buffer[b], Chosen(b, i), b # "active",
         command(buffer[b][i]) \in S.opening, NEW m \in DOMAIN buffer["active"]
  PROVE  addr_vec(buffer["active"][m].addr) # addr_vec(buffer[b][i].addr)
<1> DEFINE q == buffer[b][i]
           a == buffer["active"][m]
<1>1. SUFFICES ASSUME addr_vec(a.addr) = addr_vec(q.addr) PROVE FALSE
  OBVIOUS
<1>2. q \in Accepted /\ a \in Accepted /\ a \in ToSet(buffer["active"])
  <2>1. "active" \in Buffers
    BY DEF Buffers
  <2>2. buffer[b] \in Seq(Accepted) /\ buffer["active"] \in Seq(Accepted)
    BY <2>1 DEF KindInv, WellBuffered
  <2> QED BY <2>2 DEF ToSet
<1>3. ready(q) /\ ~FromActive
  BY DEF Chosen
<1> HIDE DEF q, a
<1>4. IsDevice /\ command(q) \in S.opening
  BY DEF KindInv, q
<1>5. command(a) = command(q) /\ Vector(a) = Vector(q)
  BY <1>1, <1>2, <1>4, AcceptedCommand
<1>6. ready(a)
  BY <1>3, <1>5 DEF ready
<1> QED BY <1>2, <1>3, <1>6 DEF FromActive

LEMMA DistinctStep ==
  ASSUME KindInv, PlaceInv, DistinctInv, [GenericNext]_allvars
  PROVE  DistinctInv'
<1> DEFINE vec(a) == addr_vec(a.addr)
           active == buffer["active"]
<1>1. ASSUME device' = device, buffer'["active"] = buffer["active"] PROVE DistinctInv'
  BY <1>1, NextDistinct DEF DistinctInv
<1>2. ASSUME NEW type \in {"read", "write"}, NEW a \in Accesses, send(type, a)
      PROVE  DistinctInv'
  <2>1. device' = device /\ (buffer' = buffer
          \/ buffer' = [buffer EXCEPT ![type] = Append(buffer[type], Request(type, a))])
    BY <1>2, SendEffects, ZenonT(60)
  <2>2. buffer \in [BufferName -> Seq(Accepted \cup Refreshings)] /\ "active" \in BufferName
    BY DEF KindInv, WellBuffered, BufferName
  <2>3. buffer'["active"] = buffer["active"]
    BY <2>1, <2>2
  <2> QED BY <1>1, <2>1, <2>3
<1>3. CASE ControllerTick
  <2>1. device' = device /\ "active" \in Buffers
    BY <1>3, Ticked DEF Buffers
  <2>2. \A m, n \in DOMAIN active : m # n => vec(active[m]) # vec(active[n])
    BY DEF DistinctInv
  <2> HIDE DEF vec
  <2>3. ASSUME NEW b \in Buffers, NEW i \in DOMAIN buffer[b]
        PROVE  \A j, k \in DOMAIN Taken(b, i, "active") :
                 j # k => vec(Taken(b, i, "active")[j]) # vec(Taken(b, i, "active")[k])
    <3>1. Taken(b, i, "active") \in Seq(Accepted)
      BY <2>1, TakenFacts
    <3>2. ASSUME NEW j \in DOMAIN Taken(b, i, "active"), NEW k \in DOMAIN Taken(b, i, "active"), j < k
          PROVE  vec(Taken(b, i, "active")[j]) # vec(Taken(b, i, "active")[k])
      <4>1. PICK m, n \in DOMAIN active :
              m < n /\ Taken(b, i, "active")[j] = active[m] /\ Taken(b, i, "active")[k] = active[n]
        BY <2>1, <3>2, TakenOrder
      <4>2. m # n
        <5>1. active \in Seq(Accepted)
          BY <2>1 DEF KindInv, WellBuffered
        <5>2. m \in Nat /\ n \in Nat
          BY <5>1
        <5> QED BY <4>1, <5>2
      <4> QED BY <2>2, <4>1, <4>2
    <3>3. ASSUME NEW j \in DOMAIN Taken(b, i, "active"), NEW k \in DOMAIN Taken(b, i, "active"), j # k
          PROVE  j < k \/ k < j
      BY <3>1, <3>3
    <3> QED BY <3>2, <3>3
  <2>4. ASSUME NEW b \in Buffers, NEW i \in DOMAIN buffer[b],
               buffer'["active"] = Taken(b, i, "active")
        PROVE  DistinctInv'
    BY <2>1, <2>3, <2>4, NextDistinct DEF vec
  <2>5. CASE Kept
    BY <1>1, <2>1, <2>5 DEF Kept
  <2>6. ASSUME NEW b \in Buffers, NEW i \in DOMAIN buffer[b], Finished(b, i)
        PROVE  DistinctInv'
    BY <2>1, <2>4, <2>6 DEF Finished
  <2>7. ASSUME NEW b \in Buffers, NEW i \in DOMAIN buffer[b], Chosen(b, i), Activated(b, i)
        PROVE  DistinctInv'
    <3> DEFINE t == Taken(b, i, "active")
               q == buffer[b][i]
               new == Append(t, q)
    <3>1. CASE ~HasRoom(active)
      <4>1. buffer'["active"] = t
        BY <2>1, <2>7, <3>1 DEF Activated
      <4> QED BY <2>4, <4>1
    <3>2. CASE HasRoom(active)
      <4>1. buffer'["active"] = new
        BY <2>1, <2>7, <3>2 DEF Activated
      <4>2. t \in Seq(Accepted) /\ q \in Accepted
        BY <2>1, TakenFacts
      <4>3. \A j \in DOMAIN t : vec(t[j]) # vec(q)
        <5>1. ASSUME NEW j \in DOMAIN t PROVE vec(t[j]) # vec(q)
          <6>1. PICK m \in DOMAIN active : t[j] = active[m] /\ ~(b = "active" /\ m = i)
            BY <2>1, TakenFacts
          <6>2. CASE b = "active"
            BY <2>2, <6>1, <6>2
          <6>3. CASE b # "active"
            <7>1. command(q) \in S.opening
              BY <2>7 DEF Activated
            <7>2. addr_vec(active[m].addr) # addr_vec(q.addr)
              BY <2>7, <6>3, <7>1, NoneActive
            <7> QED BY <6>1, <7>2 DEF vec
          <6> QED BY <6>2, <6>3
        <5> QED BY <5>1
      <4>4. \A j, k \in DOMAIN t : j # k => vec(t[j]) # vec(t[k])
        BY <2>3
      <4> HIDE DEF t, q
      <4>5. /\ DOMAIN new = 1 .. (Len(t) + 1) /\ DOMAIN t = 1 .. Len(t) /\ Len(t) \in Nat
            /\ new[Len(t) + 1] = q /\ \A j \in 1 .. Len(t) : new[j] = t[j]
        BY <4>2, AppendFacts
      <4> HIDE DEF new
      <4>6. \A j, k \in DOMAIN new : j # k => vec(new[j]) # vec(new[k])
        <5>1. \A j \in DOMAIN new : j \in DOMAIN t \/ j = Len(t) + 1
          BY <4>5
        <5> QED BY <4>3, <4>4, <4>5, <5>1
      <4> QED BY <2>1, <4>1, <4>6, NextDistinct DEF vec
    <3> QED BY <3>1, <3>2
  <2> QED BY <1>3, <2>5, <2>6, <2>7, Ticked
<1>4. CASE DeviceTick
  BY <1>1, <1>4 DEF DeviceTick, tick, ctrl
<1>5. CASE UNCHANGED allvars
  BY <1>1, <1>5 DEF allvars, vars, ctrl
<1> QED BY <1>2, <1>3, <1>4, <1>5 DEF GenericNext

(* Requests of the same type to the same address are equally ready.         *)
LEMMA SameReady ==
  ASSUME IsDevice, NEW q \in Accepted, NEW v \in Accepted, q.type = v.type, q.addr = v.addr
  PROVE  ready(q) <=> ready(v)
<1>1. Vector(q) = Vector(v) /\ RowOf(q) = RowOf(v)
  BY AcceptedCommand
<1>2. command(q) = command(v)
  BY <1>1 DEF command, final_command
<1> QED BY <1>1, <1>2 DEF ready

(* FRFCFS takes the oldest of the writes to an address.                     *)
LEMMA OldestWrite ==
  ASSUME KindInv, AgeInv, NEW i \in DOMAIN buffer["write"], Chosen("write", i),
         NEW k \in DOMAIN buffer["write"], k # i,
         buffer["write"][k].addr = buffer["write"][i].addr
  PROVE  buffer["write"][i].id < buffer["write"][k].id
<1> DEFINE w == buffer["write"]
<1>1. w \in Seq(Accepted) /\ w[i].type = "write" /\ w[k].type = "write" /\ "write" \in Buffers
  BY DEF KindInv, WellBuffered, Buffers
<1>2. i \in Nat /\ k \in Nat /\ w[i] \in Accepted /\ w[k] \in Accepted
      /\ w[i].arrive \in Nat /\ w[k].arrive \in Nat
  <2>1. i \in Nat /\ k \in Nat /\ w[i] \in Accepted /\ w[k] \in Accepted
    BY <1>1
  <2> HIDE DEF w
  <2> QED BY <2>1 DEF Accepted
<1>3. ready(w[i]) /\ compare(w, i, k)
  BY DEF Chosen
<1>4. ready(w[k])
  BY <1>1, <1>2, <1>3, SameReady DEF KindInv
<1>5. w[i].arrive < w[k].arrive \/ (w[i].arrive = w[k].arrive /\ i <= k)
  BY <1>3, <1>4 DEF compare
<1>6. \A m, n \in DOMAIN w : m < n => w[m].id < w[n].id /\ w[m].arrive <= w[n].arrive
  BY DEF AgeInv
<1> HIDE DEF w
<1>7. i < k
  <2>1. CASE k < i
    <3>1. w[k].arrive <= w[i].arrive
      BY <1>6, <2>1 DEF w
    <3> QED BY <1>2, <1>5, <2>1, <3>1
  <2> QED BY <1>2, <2>1
<1> QED BY <1>6, <1>7 DEF w

(* Every request in a buffer after a tick was in one before.                *)
LEMMA Origin ==
  ASSUME KindInv, PlaceInv, ControllerTick, NEW c \in Buffers, NEW j \in DOMAIN buffer'[c]
  PROVE  \E b \in Buffers : \E k \in DOMAIN buffer[b] : buffer'[c][j] = buffer[b][k]
<1>1. CASE Kept
  BY <1>1 DEF Kept
<1>2. ASSUME NEW b \in Buffers, NEW i \in DOMAIN buffer[b], j \in DOMAIN Taken(b, i, c)
      PROVE  \E k \in DOMAIN buffer[c] : Taken(b, i, c)[j] = buffer[c][k]
  BY <1>2, TakenFacts
<1>3. ASSUME NEW b \in Buffers, NEW i \in DOMAIN buffer[b], Finished(b, i)
      PROVE  \E d \in Buffers : \E k \in DOMAIN buffer[d] : buffer'[c][j] = buffer[d][k]
  BY <1>2, <1>3 DEF Finished
<1>4. ASSUME NEW b \in Buffers, NEW i \in DOMAIN buffer[b], Activated(b, i)
      PROVE  \E d \in Buffers : \E k \in DOMAIN buffer[d] : buffer'[c][j] = buffer[d][k]
  <2> DEFINE t == Taken(b, i, c)
  <2>1. CASE buffer'[c] = t
    BY <1>2, <2>1
  <2>2. CASE buffer'[c] = Append(t, buffer[b][i])
    <3>1. t \in Seq(Accepted) /\ buffer[b][i] \in Accepted
      BY TakenFacts
    <3> HIDE DEF t
    <3>2. j \in DOMAIN t \/ Append(t, buffer[b][i])[j] = buffer[b][i]
      BY <2>2, <3>1, AppendFacts
    <3>3. j \in DOMAIN t => Append(t, buffer[b][i])[j] = t[j]
      BY <3>1, AppendFacts
    <3> QED BY <1>2, <2>2, <3>2, <3>3 DEF t
  <2> QED BY <1>4, <2>1, <2>2 DEF Activated
<1> QED BY <1>1, <1>3, <1>4, Ticked

LEMMA AgeTick ==
  ASSUME KindInv, PlaceInv, AgeInv, ControllerTick
  PROVE  AgeInv'
<1>1. arrived' = arrived /\ cycle_first' = arrived + 1 /\ arrived \in Nat
      /\ cycle_first \in Nat /\ cycle_first <= cycle_first'
  BY Ticked DEF KindInv
<1>2. ASSUME NEW c \in Buffers, NEW j \in DOMAIN buffer'[c]
      PROVE  buffer'[c][j].arrive \in 1 .. buffer'[c][j].id /\ buffer'[c][j].arrive <= cycle_first'
  <2>1. PICK b \in Buffers : \E k \in DOMAIN buffer[b] : buffer'[c][j] = buffer[b][k]
    BY Origin
  <2>2. PICK k \in DOMAIN buffer[b] : buffer'[c][j] = buffer[b][k]
    BY <2>1
  <2>3. buffer[b][k].arrive \in 1 .. buffer[b][k].id /\ buffer[b][k].arrive <= cycle_first
    BY DEF AgeInv
  <2>4. buffer[b][k].arrive \in Int
    BY <2>3
  <2> QED BY <1>1, <2>2, <2>3, <2>4
<1> DEFINE Sorted(s) == \A m, n \in DOMAIN s : m < n => s[m].id < s[n].id /\ s[m].arrive <= s[n].arrive
           Elder(a, w) == \A m \in DOMAIN a, n \in DOMAIN w :
                            (a[m].type = "write" /\ a[m].addr = w[n].addr) => a[m].id < w[n].id
           Sound == /\ \A c \in {"read", "write"} : Sorted(buffer'[c])
                    /\ Elder(buffer'["active"], buffer'["write"])
<1>3. /\ \A c \in {"read", "write"} : Sorted(buffer[c]) /\ c \in Buffers /\ c # "active"
      /\ "active" \in Buffers /\ "write" \in Buffers
      /\ Elder(buffer["active"], buffer["write"])
  BY DEF AgeInv, Buffers
<1>4. ASSUME Kept PROVE Sound
  <2>1. \A c \in Buffers : buffer'[c] = buffer[c]
    BY <1>4 DEF Kept
  <2>2. buffer'["active"] = buffer["active"] /\ buffer'["write"] = buffer["write"]
        /\ \A c \in {"read", "write"} : buffer'[c] = buffer[c]
    BY <2>1 DEF Buffers
  <2> HIDE DEF Sorted, Elder
  <2> QED BY <1>3, <2>2
<1>5. ASSUME NEW b \in Buffers, NEW i \in DOMAIN buffer[b]
      PROVE  /\ \A c \in {"read", "write"} : Sorted(Taken(b, i, c))
             /\ Elder(Taken(b, i, "active"), Taken(b, i, "write"))
  <2>1. ASSUME NEW c \in {"read", "write"}, NEW m \in DOMAIN Taken(b, i, c),
               NEW n \in DOMAIN Taken(b, i, c), m < n
        PROVE  /\ Taken(b, i, c)[m].id < Taken(b, i, c)[n].id
               /\ Taken(b, i, c)[m].arrive <= Taken(b, i, c)[n].arrive
    <3>1. PICK x, y \in DOMAIN buffer[c] :
            x < y /\ Taken(b, i, c)[m] = buffer[c][x] /\ Taken(b, i, c)[n] = buffer[c][y]
      BY <1>3, <2>1, TakenOrder
    <3> QED BY <1>3, <3>1
  <2>2. ASSUME NEW m \in DOMAIN Taken(b, i, "active"), NEW n \in DOMAIN Taken(b, i, "write"),
               Taken(b, i, "active")[m].type = "write",
               Taken(b, i, "active")[m].addr = Taken(b, i, "write")[n].addr
        PROVE  Taken(b, i, "active")[m].id < Taken(b, i, "write")[n].id
    <3>1. \A c \in Buffers : \A j \in DOMAIN Taken(b, i, c) : \E k \in DOMAIN buffer[c] :
            Taken(b, i, c)[j] = buffer[c][k]
      BY TakenFacts, SMTT(30)
    <3>2. "active" \in Buffers /\ "write" \in Buffers
      BY DEF Buffers
    <3>3. PICK x \in DOMAIN buffer["active"] : Taken(b, i, "active")[m] = buffer["active"][x]
      BY <3>1, <3>2
    <3>4. PICK y \in DOMAIN buffer["write"] : Taken(b, i, "write")[n] = buffer["write"][y]
      BY <3>1, <3>2
    <3> QED BY <1>3, <2>2, <3>3, <3>4
  <2> QED BY <2>1, <2>2
<1>6. ASSUME NEW b \in Buffers, NEW i \in DOMAIN buffer[b], Finished(b, i) PROVE Sound
  <2>1. \A c \in Buffers : buffer'[c] = Taken(b, i, c)
    BY <1>6 DEF Finished
  <2> HIDE DEF Sorted, Elder
  <2> QED BY <1>3, <1>5, <2>1
<1>7. ASSUME NEW b \in Buffers, NEW i \in DOMAIN buffer[b], Chosen(b, i), Activated(b, i)
      PROVE  Sound
  <2> DEFINE t == Taken(b, i, "active")
             q == buffer[b][i]
             new == Append(t, q)
             w == Taken(b, i, "write")
  <2>1. \A c \in {"read", "write"} : buffer'[c] = Taken(b, i, c)
    BY <1>3, <1>7 DEF Activated
  <2>2. buffer'["active"] \in {t, new}
    BY <1>3, <1>7 DEF Activated
  <2>3. ASSUME NEW n \in DOMAIN w, q.type = "write", q.addr = w[n].addr
        PROVE  q.id < w[n].id
    <3>1. PICK y \in DOMAIN buffer["write"] : w[n] = buffer["write"][y] /\ ~("write" = b /\ y = i)
      BY <1>3, TakenFacts
    <3>2. CASE b = "active"
      BY <1>3, <2>3, <3>1, <3>2
    <3>3. CASE b = "write"
      BY <1>7, <2>3, <3>1, <3>3, OldestWrite
    <3>4. CASE b = "read"
      BY <2>3, <3>4 DEF KindInv, WellBuffered
    <3> QED BY <3>2, <3>3, <3>4 DEF Buffers
  <2>4. Elder(t, w)
    BY <1>5
  <2>5. /\ DOMAIN new = 1 .. (Len(t) + 1) /\ DOMAIN t = 1 .. Len(t) /\ Len(t) \in Nat
        /\ new[Len(t) + 1] = q /\ \A j \in 1 .. Len(t) : new[j] = t[j]
    <3>1. t \in Seq(Accepted) /\ q \in Accepted
      BY <1>3, TakenFacts
    <3> HIDE DEF t, q
    <3> QED BY <3>1, AppendFacts
  <2> HIDE DEF t, q, w, new
  <2>6. Elder(new, w)
    <3>1. \A j \in DOMAIN new : j \in DOMAIN t \/ j = Len(t) + 1
      BY <2>5
    <3> QED BY <2>3, <2>4, <2>5, <3>1
  <2>7. buffer'["write"] = w /\ \A c \in {"read", "write"} : Sorted(buffer'[c])
    <3> HIDE DEF Sorted
    <3> QED BY <1>5, <2>1 DEF w
  <2> HIDE DEF Sorted, Elder
  <2>8. Elder(buffer'["active"], buffer'["write"])
    BY <2>2, <2>4, <2>6, <2>7
  <2> QED BY <2>7, <2>8
<1> HIDE DEF Sound
<1>8. Sound
  BY <1>4, <1>6, <1>7, Ticked
<1> QED BY <1>2, <1>8 DEF AgeInv, Sound

LEMMA AgeStep ==
  ASSUME KindInv, PlaceInv, AgeInv, [GenericNext]_allvars
  PROVE  AgeInv'
<1>1. CASE UNCHANGED <<buffer, cycle_first>>
  BY <1>1 DEF AgeInv
<1>2. ASSUME NEW type \in {"read", "write"}, NEW a \in Accesses, send(type, a)
      PROVE  AgeInv'
  <2> DEFINE r == Request(type, a)
  <2>1. /\ arrived' = arrived + 1 /\ cycle_first' = cycle_first
        /\ r \in Accepted /\ r.type = type /\ r.id = arrived + 1 /\ r.arrive = cycle_first
        /\ \/ buffer' = buffer
           \/ buffer' = [buffer EXCEPT ![type] = Append(buffer[type], r)]
    BY <1>2, SendEffects, ZenonT(60)
  <2> HIDE DEF r
  <2>2. CASE buffer' = buffer
    BY <1>1, <2>1, <2>2
  <2>3. CASE buffer' = [buffer EXCEPT ![type] = Append(buffer[type], r)]
    <3> DEFINE s == buffer[type]
               longer == Append(s, r)
    <3>1. /\ buffer \in [BufferName -> Seq(Accepted \cup Refreshings)] /\ Buffers \subseteq BufferName
          /\ type \in Buffers /\ type # "active" /\ s \in Seq(Accepted)
          /\ "active" \in Buffers /\ \A b \in {"read", "write"} : b \in Buffers
      BY DEF KindInv, WellBuffered, Buffers, BufferName
    <3>2. buffer'[type] = longer /\ \A b \in Buffers : b # type => buffer'[b] = buffer[b]
      BY <2>3, <3>1
    <3>3. /\ DOMAIN longer = 1 .. (Len(s) + 1) /\ DOMAIN s = 1 .. Len(s) /\ Len(s) \in Nat
          /\ longer[Len(s) + 1] = r /\ \A j \in 1 .. Len(s) : longer[j] = s[j]
      <4> HIDE DEF s
      <4> QED BY <2>1, <3>1, AppendFacts
    <3>4. \A b \in Buffers : \A j \in DOMAIN buffer[b] :
            /\ buffer[b][j].id \in 1 .. arrived
            /\ buffer[b][j].arrive \in 1 .. buffer[b][j].id
            /\ buffer[b][j].arrive <= cycle_first
      BY DistinctIds DEF AgeInv
    <3>5. arrived \in Nat /\ cycle_first \in 1 .. (arrived + 1)
      BY DEF KindInv
    <3> HIDE DEF longer
    <3>6. \A j \in DOMAIN longer : (j \in DOMAIN s /\ longer[j] = s[j]) \/ (j = Len(s) + 1 /\ longer[j] = r)
      BY <3>3
    <3>7. r.arrive \in 1 .. r.id /\ r.arrive <= cycle_first
      BY <2>1, <3>5
    <3>8. ASSUME NEW b \in Buffers, NEW j \in DOMAIN buffer'[b]
          PROVE  buffer'[b][j].arrive \in 1 .. buffer'[b][j].id /\ buffer'[b][j].arrive <= cycle_first'
      <4>1. CASE b = type
        BY <2>1, <3>1, <3>2, <3>4, <3>6, <3>7, <4>1
      <4>2. CASE b # type
        BY <2>1, <3>2, <3>4, <4>2
      <4> QED BY <4>1, <4>2
    <3>9. ASSUME NEW b \in {"read", "write"}, NEW m \in DOMAIN buffer'[b], NEW n \in DOMAIN buffer'[b],
                 m < n
          PROVE  buffer'[b][m].id < buffer'[b][n].id /\ buffer'[b][m].arrive <= buffer'[b][n].arrive
      <4>1. CASE b # type
        BY <3>1, <3>2, <3>9, <4>1 DEF AgeInv
      <4>2. CASE b = type
        <5>1. m \in 1 .. (Len(s) + 1) /\ n \in 1 .. (Len(s) + 1)
          BY <3>2, <3>3, <4>2
        <5>2. m \in DOMAIN s /\ longer[m] = s[m]
          BY <3>3, <3>9, <5>1
        <5>3. CASE n \in DOMAIN s
          <6>1. longer[n] = s[n]
            BY <3>3, <5>3
          <6>2. s[m].id < s[n].id /\ s[m].arrive <= s[n].arrive
            BY <3>9, <4>2, <5>2, <5>3 DEF AgeInv
          <6> QED BY <3>2, <4>2, <5>2, <6>1, <6>2
        <5>4. CASE n = Len(s) + 1
          <6>1. s[m].id \in 1 .. arrived /\ s[m].arrive <= cycle_first
            BY <3>1, <3>4, <5>2
          <6>2. s[m].id < r.id /\ s[m].arrive <= r.arrive
            BY <2>1, <3>5, <6>1
          <6> QED BY <3>2, <3>3, <4>2, <5>2, <5>4, <6>2
        <5> QED BY <3>3, <5>1, <5>3, <5>4
      <4> QED BY <4>1, <4>2
    <3>10. ASSUME NEW m \in DOMAIN buffer'["active"], NEW n \in DOMAIN buffer'["write"],
                  buffer'["active"][m].type = "write",
                  buffer'["active"][m].addr = buffer'["write"][n].addr
           PROVE  buffer'["active"][m].id < buffer'["write"][n].id
      <4>1. buffer'["active"] = buffer["active"]
        BY <3>1, <3>2
      <4>2. CASE type # "write" \/ n \in DOMAIN buffer["write"]
        <5>1. n \in DOMAIN buffer["write"] /\ buffer'["write"][n] = buffer["write"][n]
          BY <3>1, <3>2, <3>3, <4>2
        <5> QED BY <3>10, <4>1, <5>1 DEF AgeInv
      <4>3. CASE type = "write" /\ n \notin DOMAIN buffer["write"]
        <5>1. buffer'["write"][n] = r
          BY <3>2, <3>6, <4>3
        <5>2. buffer["active"][m].id \in 1 .. arrived
          BY <3>1, <3>4, <4>1
        <5> QED BY <2>1, <3>5, <4>1, <5>1, <5>2
      <4> QED BY <4>2, <4>3
    <3> QED BY <3>8, <3>9, <3>10 DEF AgeInv
  <2> QED BY <2>1, <2>2, <2>3
<1>3. CASE ControllerTick
  BY <1>3, AgeTick
<1>4. CASE DeviceTick
  BY <1>1, <1>4 DEF DeviceTick, ctrl
<1>5. CASE UNCHANGED allvars
  BY <1>1, <1>5 DEF allvars, ctrl
<1> QED BY <1>2, <1>3, <1>4, <1>5 DEF GenericNext

LEMMA PlaceStep ==
  ASSUME KindInv, DistinctInv, PlaceInv, [GenericNext]_allvars
  PROVE  PlaceInv'
<1>1. CASE UNCHANGED <<buffer, pending, done, arrived>>
  <2>1. Waiting' = Waiting
    BY <1>1 DEF Waiting
  <2> QED BY <1>1, <2>1 DEF PlaceInv
<1>2. CASE \E type \in {"read", "write"}, a \in Accesses : send(type, a)
  BY <1>2, PlaceSend
<1>3. CASE ControllerTick
  BY <1>3, PlaceTick
<1>4. CASE DeviceTick
  BY <1>1, <1>4 DEF DeviceTick, ctrl
<1>5. CASE UNCHANGED allvars
  BY <1>1, <1>5 DEF allvars, ctrl
<1> QED BY <1>2, <1>3, <1>4, <1>5 DEF GenericNext

LEMMA RequestInit == GenericInit => RequestInv
<1> SUFFICES ASSUME GenericInit PROVE RequestInv
  OBVIOUS
<1>1. /\ buffer = [b \in BufferName |-> <<>>] /\ pending = <<>> /\ arrived = 0 /\ cycle_first = 1
      /\ done = {} /\ Init
  BY DEF GenericInit
<1>2. \A b \in BufferName : buffer[b] = <<>>
  BY <1>1
<1>3. Buffers \subseteq BufferName /\ "priority" \in BufferName /\ {"read", "write"} \subseteq Buffers
      /\ "active" \in BufferName
  BY DEF Buffers, BufferName
<1>4. KindInv
  <2>1. IsDevice
    BY <1>1 DEF Init, IsDevice
  <2>2. WellBuffered(buffer)
    BY <1>1, <1>2, <1>3 DEF WellBuffered
  <2>3. pending \in Seq(PendingReads)
    BY <1>1
  <2> QED BY <1>1, <2>1, <2>2, <2>3 DEF KindInv
<1>5. DistinctInv
  BY <1>2, <1>3 DEF DistinctInv
<1>6. AgeInv
  BY <1>2, <1>3 DEF AgeInv
<1>7. PlaceInv
  <2>1. Waiting = [x \in Place |-> <<>>]
    <3>1. Waiting = [x \in Place |-> IF x = "pending" THEN PendingIds(pending) ELSE Ids(buffer[x])]
      BY <1>4, WaitingFacts
    <3>2. PendingIds(pending) = <<>>
      BY <1>1 DEF PendingIds
    <3>3. ASSUME NEW x \in Place, x # "pending" PROVE Ids(buffer[x]) = <<>>
      <4>1. x \in BufferName
        BY <3>3 DEF Place, BufferName
      <4> QED BY <1>2, <4>1 DEF Ids
    <3> QED BY <3>1, <3>2, <3>3
  <2>2. Placed(Waiting, {}, 0)
    BY <2>1 DEF Placed
  <2> QED BY <1>1, <2>2 DEF PlaceInv
<1> QED BY <1>4, <1>5, <1>6, <1>7 DEF RequestInv

THEOREM RequestInvariant == GenericSpec => []RequestInv
<1>1. RequestInv /\ [GenericNext]_allvars => RequestInv'
  BY KindStep, DistinctStep, AgeStep, PlaceStep DEF RequestInv
<1> QED BY <1>1, RequestInit, PTL DEF GenericSpec


-----------------------------------------------------------------------------
(* No request is lost *)

LEMMA OnePlace ==
  ASSUME NEW gone, NEW n \in Nat, Placed(Waiting, gone, n), NEW id \in 1 .. n
  PROVE  Occurrences(id) = IF id \in gone THEN 0 ELSE 1
<1> DEFINE At(x) == {<<x, i>> : i \in {k \in DOMAIN Waiting[x] : Waiting[x][k] = id}}
           All == UNION {At(x) : x \in DOMAIN Waiting}
<1>1. Occurrences(id) = Cardinality(All)
  BY DEF Occurrences
<1>2. DOMAIN Waiting = Place
  BY DEF Waiting, Place
<1>3. \A e : e \in All <=>
        \E x \in Place : \E i \in DOMAIN Waiting[x] : Waiting[x][i] = id /\ e = <<x, i>>
  BY <1>2
<1>4. /\ \A x \in Place : \A i \in DOMAIN Waiting[x] : Waiting[x][i] \notin gone
      /\ \A x, y \in Place : \A i \in DOMAIN Waiting[x], j \in DOMAIN Waiting[y] :
           Waiting[x][i] = Waiting[y][j] => x = y /\ i = j
  BY DEF Placed
<1> HIDE DEF All
<1>5. CASE id \in gone
  <2>1. All = {}
    BY <1>3, <1>4, <1>5
  <2> QED BY <1>1, <1>5, <2>1, FS_EmptySet
<1>6. CASE id \notin gone
  <2>1. PICK x \in Place : \E i \in DOMAIN Waiting[x] : Waiting[x][i] = id
    BY <1>6 DEF Placed
  <2>2. PICK i \in DOMAIN Waiting[x] : Waiting[x][i] = id
    BY <2>1
  <2>3. <<x, i>> \in All
    BY <1>3, <2>2
  <2>4. ASSUME NEW e \in All PROVE e = <<x, i>>
    <3>1. PICK y \in Place : \E j \in DOMAIN Waiting[y] : Waiting[y][j] = id /\ e = <<y, j>>
      BY <1>3
    <3>2. PICK j \in DOMAIN Waiting[y] : Waiting[y][j] = id /\ e = <<y, j>>
      BY <3>1
    <3>3. x = y /\ i = j
      BY <1>4, <2>2, <3>2
    <3> QED BY <3>2, <3>3
  <2>5. All = {<<x, i>>}
    BY <2>3, <2>4
  <2> QED BY <1>1, <1>6, <2>5, FS_Singleton
<1> QED BY <1>5, <1>6

(* If the active buffer has a place for each bank, every request that send  *)
(* accepted is in exactly one of the buffers or pending until it is         *)
(* finished, however often schedule_request moves it and whatever refreshes *)
(* close in between.                                                        *)
THEOREM NothingLost ==
  ASSUME BanksFit
  PROVE  GenericSpec => []NoRequestLost
<1>1. RequestInv => NoRequestLost
  <2> SUFFICES ASSUME RequestInv PROVE NoRequestLost
    OBVIOUS
  <2>1. Placed(Waiting, done, arrived) /\ arrived \in Nat
    BY DEF RequestInv, PlaceInv, KindInv
  <2> QED BY <2>1, OnePlace DEF NoRequestLost
<1> QED BY <1>1, RequestInvariant, PTL

-----------------------------------------------------------------------------
(* The order of writes *)

LEMMA WriteStep ==
  ASSUME RequestInv, GenericNext,
         NEW c \in {"write", "active"}, NEW m \in DOMAIN buffer[c],
         NEW d \in {"write", "active"}, NEW n \in DOMAIN buffer[d],
         buffer[c][m].type = "write", buffer[c][m].id \in done', buffer[c][m].id \notin done,
         buffer[d][n].type = "write", buffer[d][n].addr = buffer[c][m].addr
  PROVE  buffer[d][n].id >= buffer[c][m].id
<1> DEFINE w == buffer[c][m]
           v == buffer[d][n]
<1>1. KindInv /\ PlaceInv /\ AgeInv /\ DistinctInv /\ c \in Buffers /\ d \in Buffers
      /\ "active" \in Buffers
  BY DEF RequestInv, Buffers
<1>2. buffer[c] \in Seq(Accepted) /\ buffer[d] \in Seq(Accepted)
  BY <1>1 DEF KindInv, WellBuffered
<1>3. w \in Accepted /\ v \in Accepted /\ w.id \in Nat /\ v.id \in Nat
  <2>1. w \in Accepted /\ v \in Accepted
    BY <1>2
  <2> HIDE DEF w, v
  <2> QED BY <2>1 DEF Accepted
<1>4. ControllerTick
  <2>1. ASSUME NEW type \in {"read", "write"}, NEW a \in Accesses, send(type, a) PROVE done' = done
    BY <2>1 DEF send
  <2>2. DeviceTick => done' = done
    BY DEF DeviceTick, ctrl
  <2> QED BY <2>1, <2>2 DEF GenericNext
<1>5. w.id \notin ServedNow
  <2>1. HeadServed => ServedNow = {pending[1].req.id} /\ 1 \in DOMAIN pending
    BY <1>1, CompletedReads DEF ServedNow
  <2>2. ~HeadServed => ServedNow = {}
    BY DEF ServedNow
  <2>3. \A i \in DOMAIN pending : pending[i].req.id # w.id
    BY <1>1, DistinctIds
  <2> QED BY <2>1, <2>2, <2>3
<1>6. PICK b \in Buffers : \E i \in DOMAIN buffer[b] : Chosen(b, i) /\ Finished(b, i)
  BY <1>1, <1>4, <1>5, Ticked DEF Kept, Activated
<1>7. PICK i \in DOMAIN buffer[b] : Chosen(b, i) /\ Finished(b, i)
  BY <1>6
<1>8. c = b /\ m = i
  <2>1. buffer[b][i].id = w.id
    BY <1>5, <1>7 DEF Finished
  <2> QED BY <1>1, <2>1, DistinctIds
<1>9. CASE c = "write" /\ d = "write"
  <2>1. CASE n = m
    BY <1>3, <1>9, <2>1
  <2>2. CASE n # m
    BY <1>1, <1>3, <1>7, <1>8, <1>9, <2>2, OldestWrite
  <2> QED BY <2>1, <2>2
<1>10. CASE c = "active" /\ d = "write"
  BY <1>1, <1>3, <1>10 DEF AgeInv
<1>11. CASE c = "active" /\ d = "active"
  <2>1. n = m
    BY <1>1, <1>11 DEF DistinctInv
  <2> QED BY <1>3, <1>11, <2>1
<1>12. CASE c = "write" /\ d = "active"
  <2>1. ready(w) /\ ~FromActive
    BY <1>7, <1>8, <1>12 DEF Chosen
  <2>2. ready(v)
    BY <1>1, <1>3, <2>1, SameReady DEF KindInv
  <2>3. v \in ToSet(buffer["active"])
    BY <1>12 DEF ToSet
  <2> QED BY <2>1, <2>2, <2>3 DEF FromActive
<1> QED BY <1>9, <1>10, <1>11, <1>12

(* Writes to one address reach the device in the order of their arrival,    *)
(* though schedule_request picks the readiest and moves it between buffers. *)
THEOREM WriteOrder == GenericSpec => WritesInOrder
<1>1. RequestInv /\ [GenericNext]_allvars =>
        [\A w \in ToSet(buffer["write"]) \cup ToSet(buffer["active"]) :
           (w.type = "write" /\ w.id \in done' /\ w.id \notin done) =>
             \A v \in ToSet(buffer["write"]) \cup ToSet(buffer["active"]) :
               (v.type = "write" /\ v.addr = w.addr) => v.id >= w.id]_allvars
  <2> SUFFICES ASSUME RequestInv, GenericNext,
                      NEW w \in ToSet(buffer["write"]) \cup ToSet(buffer["active"]),
                      w.type = "write", w.id \in done', w.id \notin done,
                      NEW v \in ToSet(buffer["write"]) \cup ToSet(buffer["active"]),
                      v.type = "write", v.addr = w.addr
               PROVE  v.id >= w.id
    OBVIOUS
  <2>1. \A x \in ToSet(buffer["write"]) \cup ToSet(buffer["active"]) :
          \E c \in {"write", "active"} : \E m \in DOMAIN buffer[c] : x = buffer[c][m]
    BY DEF ToSet
  <2>2. PICK c \in {"write", "active"} : \E m \in DOMAIN buffer[c] : w = buffer[c][m]
    BY <2>1
  <2>3. PICK m \in DOMAIN buffer[c] : w = buffer[c][m]
    BY <2>2
  <2>4. PICK d \in {"write", "active"} : \E n \in DOMAIN buffer[d] : v = buffer[d][n]
    BY <2>1
  <2>5. PICK n \in DOMAIN buffer[d] : v = buffer[d][n]
    BY <2>4
  <2> QED BY <2>3, <2>5, WriteStep
<1> QED BY <1>1, RequestInvariant, PTL DEF GenericSpec, WritesInOrder


-----------------------------------------------------------------------------
(* Types *)

(* The device has no issue of this cycle while its controller is still to   *)
(* be ticked; departures are near.                                          *)
TimesInv ==
  /\ Clocks /\ Ages /\ (ticking => ~Fresh)
  /\ log = <<>>
  /\ m_row_state \in [Tree.banks -> SUBSET Rows]
  /\ \A i \in DOMAIN pending : pending[i].left <= m_read_latency
  /\ refresh_in \in 1 .. nREFI

LEMMA NextTimes ==
  ASSUME device' = device
  PROVE  /\ Tree' = Tree /\ Rows' = Rows /\ m_read_latency' = m_read_latency
         /\ TimesInv' <=>
              /\ Clocks' /\ Ages' /\ (ticking' => ~Fresh')
              /\ log' = <<>>
              /\ m_row_state' \in [Tree.banks -> SUBSET Rows]
              /\ \A i \in DOMAIN pending' : pending'[i].left <= m_read_latency
              /\ refresh_in' \in 1 .. nREFI
<1>1. Tree' = Tree /\ Rows' = Rows /\ m_read_latency' = m_read_latency
  BY DEF Tree, Rows, S, m_read_latency
<1> QED BY <1>1 DEF TimesInv

LEMMA SameTimes ==
  ASSUME device' = device, m_cmd_ready_clk' = m_cmd_ready_clk, m_cmd_history' = m_cmd_history
  PROVE  (Clocks' <=> Clocks) /\ (Ages' <=> Ages) /\ (Fresh' <=> Fresh)
BY NextClocks, NextAges DEF Clocks, Ages, Fresh

(* The command that a scheduled request needs, and the row it may open.     *)
LEMMA ScheduledCommand ==
  ASSUME KindInv, PlaceInv, NEW q \in schedule_request
  PROVE  /\ command(q) \in Tree.commands
         /\ command(q) = "ACT" => RowOf(q) \in Rows
         /\ q.type = "read" => Departing(q) = <<[req |-> q, left |-> m_read_latency]>>
         /\ q.type # "read" => Departing(q) = <<>>
<1>1. IsDevice
  BY DEF KindInv
<1>2. CASE q \in Refreshings
  BY <1>1, <1>2, RefreshCommand, AccessFacts DEF Departing
<1>3. CASE \E b \in Buffers : \E i \in DOMAIN buffer[b] : q = buffer[b][i]
  <2>1. PICK b \in Buffers : \E i \in DOMAIN buffer[b] : q = buffer[b][i]
    BY <1>3
  <2>2. q \in Accepted
    <3>1. buffer[b] \in Seq(Accepted)
      BY DEF KindInv, WellBuffered
    <3> QED BY <2>1, <3>1
  <2>3. RowOf(q) \in Rows
    BY <1>1, <2>2, AcceptedCommand, AccessFacts DEF Accepted
  <2> QED BY <1>1, <2>2, <2>3, AcceptedCommand DEF Departing
<1> QED BY <1>2, <1>3, Scheduled

LEMMA RowsIssued ==
  ASSUME m_row_state \in [Tree.banks -> SUBSET Rows], NEW cmd, NEW addr, NEW row,
         cmd = "ACT" => row \in Rows
  PROVE  update_states(m_row_state, cmd, addr, row) \in [Tree.banks -> SUBSET Rows]
<1>1. ASSUME NEW b \in Tree.banks
      PROVE  (CASE cmd = "ACT" /\ b = addr -> m_row_state[b] \cup {row}
                [] b \in Closes(cmd, addr) -> {}
                [] OTHER                   -> m_row_state[b]) \in SUBSET Rows
  <2>1. m_row_state[b] \in SUBSET Rows
    OBVIOUS
  <2>2. cmd = "ACT" => m_row_state[b] \cup {row} \in SUBSET Rows
    BY <2>1
  <2> QED BY <2>1, <2>2
<1> QED BY <1>1 DEF update_states

LEMMA TimesTick ==
  ASSUME KindInv, PlaceInv, TimesInv, ControllerTick
  PROVE  TimesInv'
<1>1. device' = device /\ log' = log /\ ~ticking' /\ ~Fresh /\ IsDevice
  BY Ticked DEF TimesInv, KindInv
<1>2. refresh_in' \in 1 .. nREFI
  <2>1. refresh_in' = IF refresh_in = 1 THEN nREFI ELSE refresh_in - 1
    BY DEF ControllerTick, TickIdle, TickFinal, TickPrepare, TickCommon, refresh_due
  <2> QED BY <2>1, GenericAssumption DEF TimesInv
<1>3. m_read_latency \in Nat
  BY <1>1, AccessFacts
<1>4. ASSUME NEW j \in DOMAIN PendingLeft PROVE PendingLeft[j].left <= m_read_latency
  <2>1. PICK k \in DOMAIN pending : PendingLeft[j] = [req |-> pending[k].req, left |-> pending[k].left - 1]
    BY CompletedReads
  <2>2. pending[k].left \in Int
    <3>1. pending[k] \in PendingReads
      BY DEF KindInv
    <3> QED BY <3>1 DEF PendingReads
  <2>3. pending[k].left <= m_read_latency
    BY DEF TimesInv
  <2> QED BY <1>3, <2>1, <2>2, <2>3
<1>5. \A i \in DOMAIN pending' : pending'[i].left <= m_read_latency
  <2>1. CASE pending' = PendingLeft
    BY <1>4, <2>1
  <2>2. CASE TickFinal
    <3>1. PICK q \in schedule_request : pending' = PendingLeft \o Departing(q)
      BY <2>2 DEF TickFinal
    <3>2. PendingLeft \in Seq(PendingReads)
      BY CompletedReads
    <3>3. CASE q.type # "read"
      <4>1. pending' = PendingLeft
        BY <3>1, <3>2, <3>3, ScheduledCommand, ConcatEmptySeq
      <4> QED BY <2>1, <4>1
    <3>4. CASE q.type = "read"
      <4> DEFINE r == [req |-> q, left |-> m_read_latency]
                 T == PendingReads \cup {r}
      <4>1. pending' = PendingLeft \o <<r>>
        BY <3>1, <3>4, ScheduledCommand
      <4>2. r.left = m_read_latency /\ r \in T /\ PendingLeft \in Seq(T)
        <5> HIDE DEF r
        <5>1. PendingReads \subseteq T
          OBVIOUS
        <5>2. r \in T
          OBVIOUS
        <5>3. PendingLeft \in Seq(T)
          <6> HIDE DEF T
          <6> QED BY <3>2, <5>1
        <5> QED BY <5>2, <5>3 DEF r
      <4> HIDE DEF r, T
      <4>3. pending' = Append(PendingLeft, r)
        BY <4>1, <4>2, AppendIsConcat
      <4>4. \A i \in DOMAIN pending' : (i \in DOMAIN PendingLeft /\ pending'[i] = PendingLeft[i])
                                      \/ pending'[i] = r
        <5>1. ASSUME NEW u \in Seq(T)
              PROVE  \A i \in DOMAIN Append(u, r) :
                       (i \in DOMAIN u /\ Append(u, r)[i] = u[i]) \/ Append(u, r)[i] = r
          BY <4>2, AppendFacts
        <5> QED BY <4>2, <4>3, <5>1
      <4> QED BY <1>3, <1>4, <4>2, <4>4
    <3> QED BY <3>3, <3>4
  <2> QED BY <2>1, <2>2 DEF ControllerTick, TickIdle, TickPrepare
<1>6. CASE TickIdle
  <2>1. m_row_state' = m_row_state /\ m_cmd_ready_clk' = m_cmd_ready_clk
        /\ m_cmd_history' = m_cmd_history
    BY <1>6 DEF TickIdle
  <2> QED BY <1>1, <1>2, <1>5, <2>1, SameTimes, NextTimes DEF TimesInv
<1>7. CASE TickFinal \/ TickPrepare
  <2>1. PICK q \in schedule_request : issue_command(command(q), Vector(q), RowOf(q))
    BY <1>7 DEF TickFinal, TickPrepare
  <2>2. /\ command(q) \in Tree.commands
        /\ command(q) = "ACT" => RowOf(q) \in Rows
    BY ScheduledCommand
  <2>3. m_row_state' \in [Tree.banks -> SUBSET Rows]
    BY <2>1, <2>2, RowsIssued DEF issue_command, TimesInv
  <2>4. Clocks' /\ Ages'
    BY <1>1, <2>1, <2>2, ClocksIssue, HistoryIssue DEF issue_command, TimesInv
  <2> QED BY <1>1, <1>2, <1>5, <2>3, <2>4, NextTimes DEF TimesInv
<1> QED BY <1>6, <1>7 DEF ControllerTick

LEMMA TimesStep ==
  ASSUME KindInv, PlaceInv, TimesInv, [GenericNext]_allvars
  PROVE  TimesInv'
<1>1. ASSUME NEW type \in {"read", "write"}, NEW a \in Accesses, send(type, a)
      PROVE  TimesInv'
  <2> DEFINE r == Request(type, a)
             p == [req |-> r, left |-> 1]
  <2>1. /\ device' = device /\ log' = log /\ ticking' = ticking /\ refresh_in' = refresh_in
        /\ m_row_state' = m_row_state /\ m_cmd_ready_clk' = m_cmd_ready_clk
        /\ m_cmd_history' = m_cmd_history
        /\ pending' = pending \/ (p \in PendingReads /\ pending' = Append(pending, p))
    BY <1>1, SendEffects
  <2>2. p.left = 1
    OBVIOUS
  <2> HIDE DEF r, p
  <2>3. m_read_latency \in Nat /\ m_read_latency > 0
    BY AccessFacts DEF KindInv
  <2>4. \A i \in DOMAIN pending' : pending'[i].left <= m_read_latency
    <3>1. CASE pending' = pending
      BY <3>1 DEF TimesInv
    <3>2. CASE p \in PendingReads /\ pending' = Append(pending, p)
      <4>1. \A i \in DOMAIN pending' : (i \in DOMAIN pending /\ pending'[i] = pending[i])
                                       \/ pending'[i] = p
        BY <3>2, AppendFacts DEF KindInv
      <4> QED BY <2>2, <2>3, <4>1 DEF TimesInv
    <3> QED BY <2>1, <3>1, <3>2
  <2> QED BY <2>1, <2>4, SameTimes, NextTimes DEF TimesInv
<1>2. CASE DeviceTick
  <2>1. /\ tick /\ device' = device /\ pending' = pending /\ refresh_in' = refresh_in
        /\ m_row_state' = m_row_state
    BY <1>2 DEF DeviceTick, tick, ctrl
  <2>2. log' = <<>>
    BY <2>1 DEF tick, TimesInv
  <2>3. Clocks' /\ Ages' /\ ~Fresh'
    BY <2>1, ClocksTick, HistoryTick DEF TimesInv, KindInv
  <2> QED BY <2>1, <2>2, <2>3, NextTimes DEF TimesInv
<1>3. CASE UNCHANGED allvars
  BY <1>3, SameTimes, NextTimes DEF TimesInv, allvars, vars, ctrl
<1> QED BY <1>1, <1>2, <1>3, TimesTick DEF GenericNext

LEMMA TimesInit == GenericInit => TimesInv
<1> SUFFICES ASSUME GenericInit PROVE TimesInv
  OBVIOUS
<1>1. Init /\ pending = <<>> /\ refresh_in = nREFI /\ ticking = FALSE
  BY DEF GenericInit
<1>2. TypeInv
  BY <1>1, TypeInit
<1>3. Clocks /\ Ages /\ m_row_state \in [Tree.banks -> SUBSET Rows]
  BY <1>2 DEF TypeInv, TimingInv, HistoryInv, RowInv
<1>4. log = <<>>
  BY <1>1 DEF Init
<1> QED BY <1>1, <1>3, <1>4, GenericAssumption DEF TimesInv

(* The types of the controller's state.  No two requests in the active      *)
(* buffer are to one bank: schedule_request would rather have served the    *)
(* one that is there than opened the bank for another.                      *)
THEOREM GenericTypes == GenericSpec => []GenericTypeOK
<1>1. RequestInv /\ TimesInv => GenericTypeOK
  <2> SUFFICES ASSUME RequestInv, TimesInv PROVE GenericTypeOK
    OBVIOUS
  <2>1. KindInv /\ PlaceInv /\ DistinctInv /\ AgeInv /\ IsDevice
    BY DEF RequestInv, KindInv
  <2>2. TypeOK
    <3>1. S.maxlog \in Nat
      BY <2>1, DeviceAssumption DEF S, IsDevice
    <3> QED BY <2>1, <3>1, TypesOfInv DEF TimesInv
  <2>3. ASSUME NEW b \in {"active", "read", "write"}, NEW q \in ToSet(buffer[b])
        PROVE  /\ q.id \in 1 .. arrived /\ q.arrive \in 1 .. q.id /\ q.addr \in Accesses
               /\ b # "active" => q.type = b
    <3>1. PICK i \in DOMAIN buffer[b] : q = buffer[b][i]
      BY DEF ToSet
    <3>2. b \in Buffers
      BY DEF Buffers
    <3>3. q.addr \in Accesses
      <4>1. q \in Accepted
        BY <2>1, <3>1, <3>2 DEF KindInv, WellBuffered
      <4> QED BY <4>1 DEF Accepted
    <3>4. q.id \in 1 .. arrived
      BY <2>1, <3>1, <3>2, DistinctIds
    <3>5. q.arrive \in 1 .. q.id
      BY <2>1, <3>1, <3>2 DEF AgeInv
    <3>6. b # "active" => q.type = b
      BY <2>1, <3>1 DEF KindInv, WellBuffered
    <3> QED BY <3>3, <3>4, <3>5, <3>6
  <2>4. ASSUME NEW p \in ToSet(pending)
        PROVE  p.req.type = "read" /\ p.left <= m_read_latency
    <3>1. PICK i \in DOMAIN pending : p = pending[i]
      BY DEF ToSet
    <3>2. p \in PendingReads
      BY <2>1, <3>1 DEF KindInv
    <3> QED BY <3>1, <3>2 DEF TimesInv, PendingReads
  <2>5. done \subseteq 1 .. arrived
    BY <2>1, DistinctIds
  <2>6. refresh_in \in 1 .. nREFI
    BY DEF TimesInv
  <2> QED BY <2>1, <2>2, <2>3, <2>4, <2>5, <2>6 DEF GenericTypeOK, DistinctInv
<1>2. RequestInv /\ TimesInv /\ [GenericNext]_allvars => TimesInv'
  BY TimesStep DEF RequestInv
<1> QED BY <1>1, <1>2, TimesInit, RequestInvariant, PTL DEF GenericSpec

=============================================================================
