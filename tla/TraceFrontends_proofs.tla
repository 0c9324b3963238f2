------------------------ MODULE TraceFrontends_proofs ------------------------
(***************************************************************************)
(* Proofs about the replay of memory traces and the main loop, for any      *)
(* traces, clock ratios and room in the memory system: the memory system    *)
(* accepts the trace, entry by entry and to its end, and each side is given *)
(* its share of ticks.                                                      *)
(***************************************************************************)
EXTENDS TraceFrontends, TLAPS

-----------------------------------------------------------------------------
(* Multiples *)

LEMMA Monotone ==
  ASSUME NEW x \in Int, NEW y \in Int, NEW n \in Nat, x <= y
  PROVE  x * n <= y * n
BY SMT

LEMMA Cancel ==
  ASSUME NEW x \in Int, NEW y \in Int, NEW n \in Nat \ {0}, x * n < y * n + n
  PROVE  x <= y
<1>1. ASSUME y + 1 <= x PROVE FALSE
  <2>1. (y + 1) * n <= x * n
    BY <1>1, Monotone
  <2> DEFINE p == x * n
             q == y * n
  <2>2. p \in Int /\ q \in Int /\ q + n <= p /\ p < q + n
    BY <2>1
  <2> HIDE DEF p, q
  <2> QED BY <2>2
<1> QED BY <1>1

LEMMA DivMod ==
  ASSUME NEW x \in Nat, NEW n \in Nat \ {0}
  PROVE  x \div n \in Nat /\ x % n \in 0..(n - 1) /\ x = (x \div n) * n + (x % n)
<1>1. n * (x \div n) + (x % n) = x
  BY Z3
<1>2. x \div n \in Nat /\ x % n \in 0..(n - 1)
  OBVIOUS
<1>3. x = (x \div n) * n + (x % n)
  BY <1>1, <1>2
<1> QED BY <1>2, <1>3

(* c is the number of multiples of n below x: the ticks that a side with a  *)
(* tick at every n-th iteration has had before iteration x.                 *)
Ticks(c, x, n) == c \in Nat /\ x <= c * n /\ c * n < x + n

LEMMA TicksStart ==
  ASSUME NEW c \in Nat, NEW n \in Nat \ {0}
  PROVE  Ticks(c, 0, n) <=> c = 0
<1>1. 0 * n = 0
  OBVIOUS
<1>2. ASSUME Ticks(c, 0, n) PROVE c = 0
  <2>1. c * n < 0 * n + n
    BY <1>1, <1>2 DEF Ticks
  <2>2. c <= 0
    BY <2>1, Cancel
  <2> QED BY <2>2
<1>3. ASSUME c = 0 PROVE Ticks(c, 0, n)
  BY <1>1, <1>3 DEF Ticks
<1> QED BY <1>2, <1>3

LEMMA TicksBound ==
  ASSUME NEW c, NEW k \in Nat, NEW n \in Nat \ {0}, NEW x \in Nat, Ticks(c, x, n)
  PROVE  /\ c \in Nat
         /\ x <= k * n => c <= k
         /\ x = k * n => c = k
<1> DEFINE p == c * n
           q == k * n
<1>1. c \in Nat /\ p \in Int /\ q \in Int /\ x <= p /\ p < x + n
  BY DEF Ticks
<1>2. ASSUME x <= q PROVE c <= k
  <2>1. p < q + n
    <3> HIDE DEF p, q
    <3> QED BY <1>1, <1>2
  <2> QED BY <1>1, <2>1, Cancel
<1>3. ASSUME x = q PROVE c = k
  <2>1. q < p + n /\ x <= q
    <3> HIDE DEF p, q
    <3> QED BY <1>1, <1>3
  <2>2. k <= c
    BY <1>1, <2>1, Cancel
  <2>3. c <= k
    BY <1>2, <2>1
  <2> QED BY <1>1, <2>2, <2>3
<1> QED BY <1>1, <1>2, <1>3

(* An iteration at a multiple of n is when the next tick is due.            *)
LEMMA TicksDue ==
  ASSUME NEW c, NEW n \in Nat \ {0}, NEW x \in Nat, Ticks(c, x, n)
  PROVE  /\ x % n = 0 => x = c * n /\ Ticks(c + 1, x + 1, n)
         /\ x % n # 0 => Ticks(c, x + 1, n)
<1> DEFINE p == c * n
           d == x \div n
<1>1. c \in Nat /\ p \in Int /\ x <= p /\ p < x + n
  BY DEF Ticks
<1>2. d \in Nat /\ x = d * n + (x % n) /\ x % n \in 0..(n - 1)
  BY DivMod
<1>3. (c + 1) * n = p + n
  BY <1>1
<1>4. ASSUME x % n = 0 PROVE x = p
  <2> HIDE DEF d, p
  <2>1. d * n \in Int
    BY <1>2
  <2>2. x = d * n
    BY <1>2, <1>4, <2>1
  <2>3. Ticks(c, x, n) => c = d
    BY <1>2, <2>2, TicksBound
  <2>4. c = d
    BY <2>3
  <2> QED BY <2>2, <2>4 DEF p
<1>5. ASSUME x % n # 0 PROVE x # p
  <2> SUFFICES ASSUME x = p PROVE FALSE
    OBVIOUS
  <2> DEFINE q == d * n
  <2>1. q \in Int /\ q = d * n
    BY <1>2
  <2>2. q < p + n /\ p < q + n
    <3> HIDE DEF d, p, q
    <3> QED BY <1>1, <1>2, <2>1
  <2>3. c = d
    <3> HIDE DEF d
    <3>1. d <= c /\ c <= d
      BY <1>1, <1>2, <2>2, Cancel
    <3> QED BY <1>1, <1>2, <3>1
  <2>4. q = p
    BY <2>3
  <2> HIDE DEF d, p, q
  <2> QED BY <1>2, <1>5, <2>1, <2>4
<1>6. ASSUME x % n = 0 PROVE Ticks(c + 1, x + 1, n)
  <2> DEFINE u == (c + 1) * n
  <2>1. u = x + n /\ u \in Int
    BY <1>1, <1>3, <1>4, <1>6
  <2> HIDE DEF u, p
  <2>2. x + 1 <= u /\ u < x + 1 + n
    BY <2>1
  <2> QED BY <1>1, <2>2 DEF Ticks, u
<1>7. ASSUME x % n # 0 PROVE Ticks(c, x + 1, n)
  <2>1. x + 1 <= p /\ p < x + 1 + n
    <3> HIDE DEF p
    <3> QED BY <1>1, <1>5, <1>7
  <2> QED BY <1>1, <2>1 DEF Ticks
<1> QED BY <1>4, <1>6, <1>7

-----------------------------------------------------------------------------
(* The main loop *)

(* The sides have had f and m ticks in a round of which the frontend is     *)
(* about to enter iteration x and the memory system iteration y: those due, *)
(* or none again after the last ones of the round.                          *)
Shares(f, m, x, y) ==
  \/ Ticks(f, x, mem_tick) /\ Ticks(m, y, frontend_tick)
  \/ f = 0 /\ m = 0 /\ Ticks(frontend_tick, x, mem_tick) /\ Ticks(mem_tick, y, frontend_tick)

LoopInv ==
  /\ i \in 0..(tick_mult - 1) /\ pc \in {"frontend", "memory", "done"}
  /\ pc = "frontend" => Shares(front, mem, i, i)
  /\ pc # "frontend" => Shares(front, mem, i + 1, i)

LEMMA Mult ==
  ASSUME TraceFrontendsAssumption
  PROVE  /\ frontend_tick \in Nat \ {0} /\ mem_tick \in Nat \ {0} /\ tick_mult \in Nat \ {0}
         /\ tick_mult = frontend_tick * mem_tick /\ tick_mult = mem_tick * frontend_tick
BY DEF TraceFrontendsAssumption, tick_mult

LEMMA SharesBound ==
  ASSUME TraceFrontendsAssumption, NEW f, NEW m, NEW x \in Nat, NEW y \in Nat,
         x <= tick_mult, y <= tick_mult, Shares(f, m, x, y)
  PROVE  /\ f \in 0..frontend_tick /\ m \in 0..mem_tick
         /\ x = 0 /\ y = 0 => f = 0 /\ m = 0
<1>1. frontend_tick \in Nat \ {0} /\ mem_tick \in Nat \ {0} /\ tick_mult \in Nat \ {0}
      /\ tick_mult = frontend_tick * mem_tick /\ tick_mult = mem_tick * frontend_tick
  BY Mult
<1>2. CASE Ticks(f, x, mem_tick) /\ Ticks(m, y, frontend_tick)
  <2>1. f \in Nat /\ f <= frontend_tick /\ m \in Nat /\ m <= mem_tick
    BY <1>1, <1>2, TicksBound
  <2>2. x = 0 /\ y = 0 => f = 0 /\ m = 0
    BY <1>1, <1>2, <2>1, TicksStart
  <2> QED BY <1>1, <2>1, <2>2
<1>3. CASE f = 0 /\ m = 0
  BY <1>1, <1>3
<1> QED BY <1>2, <1>3 DEF Shares

(* A tick of the frontend, when one is due.                                 *)
LEMMA FrontendShare ==
  ASSUME TraceFrontendsAssumption, NEW f, NEW m, NEW x \in 0..(tick_mult - 1), Shares(f, m, x, x)
  PROVE  /\ x % mem_tick = 0 => Shares(f + 1, m, x + 1, x)
         /\ x % mem_tick # 0 => Shares(f, m, x + 1, x)
<1>1. frontend_tick \in Nat \ {0} /\ mem_tick \in Nat \ {0} /\ tick_mult = frontend_tick * mem_tick
      /\ tick_mult \in Nat /\ x \in Nat /\ x < tick_mult
  BY Mult
<1>2. CASE Ticks(f, x, mem_tick) /\ Ticks(m, x, frontend_tick)
  BY <1>1, <1>2, TicksDue DEF Shares
<1>3. CASE f = 0 /\ m = 0 /\ Ticks(frontend_tick, x, mem_tick) /\ Ticks(mem_tick, x, frontend_tick)
  <2>1. ASSUME x % mem_tick = 0 PROVE FALSE
    <3>1. x = frontend_tick * mem_tick
      BY <1>1, <1>3, <2>1, TicksDue
    <3> QED BY <1>1, <3>1
  <2>2. Ticks(frontend_tick, x + 1, mem_tick)
    BY <1>1, <1>3, <2>1, TicksDue
  <2> QED BY <1>3, <2>1, <2>2 DEF Shares
<1> QED BY <1>2, <1>3 DEF Shares

(* A tick of the memory system, when one is due.                            *)
LEMMA MemoryShare ==
  ASSUME TraceFrontendsAssumption, NEW f, NEW m, NEW x \in 0..(tick_mult - 1), Shares(f, m, x + 1, x)
  PROVE  /\ x % frontend_tick = 0 => Shares(f, m + 1, x + 1, x + 1)
         /\ x % frontend_tick # 0 => Shares(f, m, x + 1, x + 1)
<1>1. frontend_tick \in Nat \ {0} /\ mem_tick \in Nat \ {0} /\ tick_mult = mem_tick * frontend_tick
      /\ tick_mult \in Nat /\ x \in Nat /\ x < tick_mult
  BY Mult
<1>2. CASE Ticks(f, x + 1, mem_tick) /\ Ticks(m, x, frontend_tick)
  BY <1>1, <1>2, TicksDue DEF Shares
<1>3. CASE f = 0 /\ m = 0 /\ Ticks(frontend_tick, x + 1, mem_tick) /\ Ticks(mem_tick, x, frontend_tick)
  <2>1. ASSUME x % frontend_tick = 0 PROVE FALSE
    <3>1. x = mem_tick * frontend_tick
      BY <1>1, <1>3, <2>1, TicksDue
    <3> QED BY <1>1, <3>1
  <2>2. Ticks(mem_tick, x + 1, frontend_tick)
    BY <1>1, <1>3, <2>1, TicksDue
  <2> QED BY <1>3, <2>1, <2>2 DEF Shares
<1> QED BY <1>2, <1>3 DEF Shares

(* The counts start again when both sides have had their share, which is    *)
(* before the round is over.                                                *)
LEMMA CountedShares ==
  ASSUME TraceFrontendsAssumption, NEW f, NEW m, NEW x \in 0..(tick_mult - 1),
         Shares(f, m, x + 1, x + 1), Counted(f, m)
  PROVE  LET y == (x + 1) % tick_mult
         IN  y \in 0..(tick_mult - 1) /\ Shares(front', mem', y, y)
<1> DEFINE y == (x + 1) % tick_mult
<1>1. frontend_tick \in Nat \ {0} /\ mem_tick \in Nat \ {0} /\ tick_mult \in Nat \ {0}
      /\ tick_mult = frontend_tick * mem_tick /\ tick_mult = mem_tick * frontend_tick
  BY Mult
<1>2. \/ x + 1 < tick_mult /\ y = x + 1
      \/ x + 1 = tick_mult /\ y = 0
  <2> DEFINE n == tick_mult
  <2>1. n \in Nat \ {0} /\ x \in 0..(n - 1)
    BY <1>1
  <2> HIDE DEF n
  <2>2. \/ x + 1 < n /\ (x + 1) % n = x + 1
        \/ x + 1 = n /\ (x + 1) % n = 0
    BY <2>1
  <2> QED BY <2>2 DEF n
<1>3. (front' = 0 /\ mem' = 0) \/ (front' = f /\ mem' = m)
  BY DEF Counted
<1>4. CASE x + 1 = tick_mult /\ y = 0
  <2>1. front' = 0 /\ mem' = 0
    <3>1. CASE Ticks(f, x + 1, mem_tick) /\ Ticks(m, x + 1, frontend_tick)
      <4>1. x + 1 \in Nat
        OBVIOUS
      <4> DEFINE z == x + 1
      <4>2. z \in Nat /\ z = tick_mult /\ Ticks(f, z, mem_tick) /\ Ticks(m, z, frontend_tick)
        BY <1>4, <3>1, <4>1
      <4> HIDE DEF z
      <4>3. f = frontend_tick /\ m = mem_tick
        BY <1>1, <4>2, TicksBound
      <4> QED BY <4>3 DEF Counted
    <3>2. CASE f = 0 /\ m = 0
      BY <1>3, <3>2
    <3> QED BY <3>1, <3>2 DEF Shares
  <2>2. Ticks(0, 0, mem_tick) /\ Ticks(0, 0, frontend_tick)
    BY <1>1, TicksStart
  <2> QED BY <1>1, <1>4, <2>1, <2>2 DEF Shares
<1>5. CASE x + 1 < tick_mult /\ y = x + 1
  <2>1. CASE f = frontend_tick /\ m = mem_tick
    <3>1. front' = 0 /\ mem' = 0
      BY <2>1 DEF Counted
    <3>2. Ticks(frontend_tick, x + 1, mem_tick) /\ Ticks(mem_tick, x + 1, frontend_tick)
      BY <1>1, <2>1 DEF Shares
    <3> QED BY <1>1, <1>5, <3>1, <3>2 DEF Shares
  <2>2. CASE ~(f = frontend_tick /\ m = mem_tick)
    <3>1. front' = f /\ mem' = m
      BY <2>2 DEF Counted
    <3> QED BY <1>1, <1>5, <3>1
  <2> QED BY <2>1, <2>2
<1> QED BY <1>2, <1>4, <1>5

LEMMA LoopInvariance ==
  ASSUME TraceFrontendsAssumption
  PROVE  Spec => []LoopInv
<1>1. Init => LoopInv
  <2> SUFFICES ASSUME Init PROVE LoopInv
    OBVIOUS
  <2>1. i = 0 /\ pc = "frontend" /\ front = 0 /\ mem = 0
    BY DEF Init
  <2>2. Ticks(0, 0, mem_tick) /\ Ticks(0, 0, frontend_tick)
    BY Mult, TicksStart
  <2> QED BY <2>1, <2>2, Mult DEF LoopInv, Shares
<1>2. LoopInv /\ [Next]_vars => LoopInv'
  <2> SUFFICES ASSUME LoopInv, [Next]_vars PROVE LoopInv'
    OBVIOUS
  <2>1. i \in 0..(tick_mult - 1) /\ tick_mult' = tick_mult
    BY DEF LoopInv, tick_mult
  <2>2. CASE FrontendStep
    <3>1. pc = "frontend" /\ Shares(front, mem, i, i)
      BY <2>2 DEF FrontendStep, LoopInv
    <3>2. /\ i' = i /\ mem' = mem /\ pc' \in {"memory", "done"}
          /\ \/ i % mem_tick = 0 /\ front' = front + 1
             \/ i % mem_tick # 0 /\ front' = front
      BY <2>2 DEF FrontendStep, FrontendDue
    <3>3. Shares(front', mem', i + 1, i)
      BY <2>1, <3>1, <3>2, FrontendShare
    <3>4. pc' # "frontend" /\ pc' \in {"frontend", "memory", "done"}
      BY <3>2
    <3>5. Shares(front, mem, i + 1, i)'
      BY <3>2, <3>3 DEF Shares, Ticks
    <3> QED BY <2>1, <3>2, <3>4, <3>5 DEF LoopInv
  <2>3. ASSUME NEW served \in {0, 1}, MemoryStep(served) PROVE LoopInv'
    <3>1. pc = "memory" /\ Shares(front, mem, i + 1, i)
      BY <2>3 DEF MemoryStep, LoopInv
    <3>2. /\ i' = (i + 1) % tick_mult /\ pc' = "frontend"
          /\ \/ i % frontend_tick = 0 /\ Counted(front, mem + 1)
             \/ i % frontend_tick # 0 /\ Counted(front, mem)
      BY <2>3 DEF MemoryStep
    <3>3. i' \in 0..(tick_mult - 1) /\ Shares(front', mem', i', i')
      BY <2>1, <3>1, <3>2, MemoryShare, CountedShares
    <3>4. Shares(front, mem, i, i)'
      BY <3>3 DEF Shares, Ticks
    <3> QED BY <2>1, <3>2, <3>3, <3>4 DEF LoopInv
  <2>4. CASE UNCHANGED vars
    BY <2>1, <2>4 DEF vars, LoopInv, Shares, Ticks
  <2> QED BY <2>2, <2>3, <2>4 DEF Next, Done
<1> QED BY <1>1, <1>2, PTL DEF Spec

(* The two sides advance at the ratio of their clocks, whatever the ratio:  *)
(* neither is ticked too often in a round of the loop, and each has had its *)
(* share when a round ends.                                                 *)
THEOREM ClockRatio ==
  ASSUME TraceFrontendsAssumption
  PROVE  Spec => []RatioKept
<1>1. ASSUME LoopInv PROVE RatioKept
  <2>1. i \in 0..(tick_mult - 1) /\ tick_mult \in Nat \ {0}
    BY <1>1, Mult DEF LoopInv
  <2>2. i \in Nat /\ i + 1 \in Nat /\ i <= tick_mult /\ i + 1 <= tick_mult
    BY <2>1
  <2>3. CASE pc = "frontend"
    <3>1. Shares(front, mem, i, i)
      BY <1>1, <2>3 DEF LoopInv
    <3>2. front \in 0..frontend_tick /\ mem \in 0..mem_tick /\ (i = 0 => front = 0 /\ mem = 0)
      BY <2>2, <3>1, SharesBound
    <3> QED BY <3>2, Mult DEF RatioKept
  <2>4. CASE pc # "frontend"
    <3>1. Shares(front, mem, i + 1, i)
      BY <1>1, <2>4 DEF LoopInv
    <3>2. front \in 0..frontend_tick /\ mem \in 0..mem_tick
      BY <2>2, <3>1, SharesBound
    <3> QED BY <2>4, <3>2, Mult DEF RatioKept
  <2> QED BY <2>3, <2>4
<1> QED BY <1>1, LoopInvariance, PTL

-----------------------------------------------------------------------------
(* The replay *)

(* What the memory system is offered for entry k.                           *)
RequestOf(k) ==
  [type |-> IF m_trace[k].is_write THEN "Write" ELSE "Read", addr |-> m_trace[k].addr]

(* The trace has been accepted up to the entry at which the frontend is,    *)
(* which is the first one again at the end.                                 *)
ReplayInv ==
  /\ frontend \in Frontends /\ m_trace \in Traces
  /\ pc \in {"frontend", "memory", "done"}
  /\ m_curr_trace_idx \in 0..(Len(m_trace) - 1)
  /\ m_trace_count \in 0..Len(m_trace)
  /\ pending \in 0..Capacity
  /\ \E S : accepted \in Seq(S)
  /\ Loads =>
       /\ Len(accepted) = m_trace_count
       /\ m_trace_count < Len(m_trace) => m_curr_trace_idx = m_trace_count
       /\ pc = "done" <=> m_trace_count = Len(m_trace)
       /\ \A k \in 1..Len(accepted) : accepted[k] = RequestOf(k)
  /\ ~Loads => m_trace_count = 0

LEMMA TraceFacts ==
  ASSUME TraceFrontendsAssumption, ReplayInv
  PROVE  /\ Len(m_trace) \in Nat \ {0} /\ Capacity \in Nat \ {0}
         /\ frontend = "LoadStoreTrace" \/ frontend = "ReadWriteTrace"
         /\ NextIndex \in 0..(Len(m_trace) - 1)
         /\ m_curr_trace_idx + 1 < Len(m_trace) => NextIndex = m_curr_trace_idx + 1
<1> DEFINE n == Len(m_trace)
<1>1. n \in Nat \ {0} /\ m_curr_trace_idx \in 0..(n - 1)
  BY DEF TraceFrontendsAssumption, ReplayInv
<1>2. NextIndex = (m_curr_trace_idx + 1) % n
  BY DEF NextIndex
<1> HIDE DEF n
<1>3. NextIndex \in 0..(n - 1)
      /\ (m_curr_trace_idx + 1 < n => NextIndex = m_curr_trace_idx + 1)
  BY <1>1, <1>2
<1>4. frontend = "LoadStoreTrace" \/ frontend = "ReadWriteTrace"
  BY DEF TraceFrontendsAssumption, ReplayInv
<1> QED BY <1>1, <1>3, <1>4 DEF n, TraceFrontendsAssumption

LEMMA Appended ==
  ASSUME NEW S, NEW q \in Seq(S), NEW x
  PROVE  /\ \E Z : Append(q, x) \in Seq(Z)
         /\ Len(Append(q, x)) = Len(q) + 1 /\ Len(q) \in Nat
         /\ Append(q, x)[Len(q) + 1] = x
         /\ \A k \in 1..Len(q) : Append(q, x)[k] = q[k]
<1> DEFINE Z == S \cup {x}
<1>1. q \in Seq(Z) /\ x \in Z
  OBVIOUS
<1>2. Append(q, x) \in Seq(Z)
  BY <1>1
<1> QED BY <1>2

(* What is accepted: the request that is offered, if there is room.         *)
LEMMA SendFacts ==
  ASSUME TraceFrontendsAssumption, ReplayInv, NEW type, NEW addr, send(type, addr)
  PROVE  /\ pending' \in 0..Capacity
         /\ Accepts => accepted' = Append(accepted, [type |-> type, addr |-> addr])
         /\ ~Accepts => accepted' = accepted
         /\ \E Z : accepted' \in Seq(Z)
<1>1. pending \in 0..Capacity /\ Capacity \in Nat
  BY TraceFacts DEF ReplayInv
<1>2. PICK S : accepted \in Seq(S)
  BY DEF ReplayInv
<1>3. CASE Accepts
  <2>1. pending' = pending + 1 /\ accepted' = Append(accepted, [type |-> type, addr |-> addr])
    BY <1>3 DEF send
  <2>2. pending' \in 0..Capacity
    BY <1>1, <1>3, <2>1 DEF Accepts
  <2> DEFINE x == [type |-> type, addr |-> addr]
  <2>3. accepted' = Append(accepted, x)
    BY <2>1
  <2> HIDE DEF x
  <2>4. \E Z : accepted' \in Seq(Z)
    <3>1. \E Z : Append(accepted, x) \in Seq(Z)
      <4>1. PICK q : q = accepted
        OBVIOUS
      <4>2. q \in Seq(S)
        BY <1>2, <4>1
      <4>3. \E Z : Append(q, x) \in Seq(Z)
        BY <4>2, Appended
      <4> QED BY <4>1, <4>3
    <3> QED BY <2>3, <3>1
  <2> QED BY <1>3, <2>1, <2>2, <2>4
<1>4. CASE ~Accepts
  <2>1. pending' = pending /\ accepted' = accepted
    BY <1>4 DEF send
  <2> QED BY <1>1, <1>2, <1>4, <2>1
<1> QED BY <1>3, <1>4

(* An entry is replayed, or offered again at the next tick.                 *)
LEMMA LoadStoreReplays ==
  ASSUME TraceFrontendsAssumption, ReplayInv, pc = "frontend", frontend = "LoadStoreTrace",
         LoadStoreTick, UNCHANGED <<frontend, m_trace>>,
         pc' = IF is_finished THEN "done" ELSE "memory"
  PROVE  ReplayInv'
<1>1. frontend' = frontend /\ m_trace' = m_trace /\ Loads /\ Loads'
  BY DEF Loads
<1>2. /\ m_trace_count \in Nat /\ m_trace_count < Len(m_trace) /\ m_curr_trace_idx = m_trace_count
      /\ Len(accepted) = m_trace_count /\ Len(m_trace) \in Nat
      /\ \A k \in 1..Len(accepted) : accepted[k] = RequestOf(k)
  <2>1. m_trace_count \in 0..Len(m_trace) /\ m_trace_count # Len(m_trace) /\ Len(m_trace) \in Nat
    BY <1>1, TraceFacts DEF ReplayInv
  <2> QED BY <1>1, <2>1 DEF ReplayInv
<1>3. \A k : RequestOf(k)' = RequestOf(k)
  BY <1>1 DEF RequestOf
<1> DEFINE x == RequestOf(m_trace_count + 1)
<1>4. send(x.type, x.addr) /\ x = [type |-> x.type, addr |-> x.addr]
  BY <1>2 DEF LoadStoreTick, Entry, RequestOf
<1> HIDE DEF x
<1>5. /\ pending' \in 0..Capacity /\ \E Z : accepted' \in Seq(Z)
      /\ Accepts => accepted' = Append(accepted, x)
      /\ ~Accepts => accepted' = accepted
  BY <1>4, SendFacts
<1>6. pc' = IF m_trace_count' >= Len(m_trace) THEN "done" ELSE "memory"
  BY <1>1 DEF is_finished
<1>7. CASE Accepts
  <2>1. m_curr_trace_idx' = NextIndex /\ m_trace_count' = m_trace_count + 1
    BY <1>7 DEF LoadStoreTick
  <2>2. PICK S : accepted \in Seq(S)
    BY DEF ReplayInv
  <2>3. /\ Len(accepted') = m_trace_count + 1 /\ accepted'[m_trace_count + 1] = x
        /\ \A k \in 1..m_trace_count : accepted'[k] = accepted[k]
    <3>1. PICK q : q = accepted
      OBVIOUS
    <3>2. q \in Seq(S)
      BY <2>2, <3>1
    <3>3. /\ Len(Append(q, x)) = Len(q) + 1 /\ Append(q, x)[Len(q) + 1] = x
          /\ \A k \in 1..Len(q) : Append(q, x)[k] = q[k]
      BY <3>2, Appended
    <3> QED BY <1>2, <1>5, <1>7, <3>1, <3>3
  <2>4. \A k \in 1..Len(accepted') : accepted'[k] = RequestOf(k)'
    <3> SUFFICES ASSUME NEW k \in 1..Len(accepted') PROVE accepted'[k] = RequestOf(k)
      BY <1>3
    <3>1. k \in 1..m_trace_count \/ k = m_trace_count + 1
      BY <1>2, <2>3
    <3> QED BY <1>2, <2>3, <3>1 DEF x
  <2>5. m_curr_trace_idx' \in 0..(Len(m_trace) - 1)
        /\ (m_trace_count' < Len(m_trace) => m_curr_trace_idx' = m_trace_count')
    BY <1>2, <2>1, TraceFacts
  <2>6. m_trace_count' \in 0..Len(m_trace) /\ (pc' = "done" <=> m_trace_count' = Len(m_trace))
        /\ pc' \in {"frontend", "memory", "done"}
    BY <1>2, <1>6, <2>1
  <2> QED BY <1>1, <1>5, <2>1, <2>3, <2>4, <2>5, <2>6 DEF ReplayInv
<1>8. CASE ~Accepts
  <2>1. m_curr_trace_idx' = m_curr_trace_idx /\ m_trace_count' = m_trace_count /\ accepted' = accepted
    BY <1>5, <1>8 DEF LoadStoreTick
  <2>2. m_trace_count' \in 0..Len(m_trace) /\ (pc' = "done" <=> m_trace_count' = Len(m_trace))
        /\ pc' \in {"frontend", "memory", "done"}
    BY <1>2, <1>6, <2>1
  <2> QED BY <1>1, <1>2, <1>3, <1>5, <2>1, <2>2 DEF ReplayInv
<1> QED BY <1>7, <1>8

LEMMA ReplayInvariance ==
  ASSUME TraceFrontendsAssumption
  PROVE  Spec => []ReplayInv
<1>1. Init => ReplayInv
  <2> SUFFICES ASSUME Init PROVE ReplayInv
    OBVIOUS
  <2>1. /\ frontend \in Frontends /\ m_trace \in Traces /\ m_curr_trace_idx = 0 /\ m_trace_count = 0
        /\ pc = "frontend" /\ pending = 0 /\ accepted = <<>>
    BY DEF Init
  <2>2. Len(m_trace) \in Nat \ {0} /\ Capacity \in Nat \ {0}
    BY <2>1 DEF TraceFrontendsAssumption
  <2>3. accepted \in Seq({}) /\ Len(accepted) = 0
    BY <2>1
  <2> QED BY <2>1, <2>2, <2>3 DEF ReplayInv
<1>2. ReplayInv /\ [Next]_vars => ReplayInv'
  <2> SUFFICES ASSUME ReplayInv, [Next]_vars PROVE ReplayInv'
    OBVIOUS
  <2>1. CASE FrontendStep
    <3>1. /\ pc = "frontend" /\ frontend' = frontend /\ m_trace' = m_trace
          /\ pc' = IF is_finished THEN "done" ELSE "memory"
      BY <2>1 DEF FrontendStep
    <3>2. (Loads <=> frontend = "LoadStoreTrace") /\ (Loads' <=> Loads)
          /\ \A k : RequestOf(k)' = RequestOf(k)
      BY <3>1 DEF Loads, RequestOf
    <3>3. Len(m_trace) \in Nat \ {0} /\ pc' \in {"frontend", "memory", "done"}
      BY <3>1, TraceFacts
    <3>4. CASE frontend = "LoadStoreTrace" /\ LoadStoreTick
      BY <3>1, <3>4, LoadStoreReplays
    <3>5. CASE frontend = "ReadWriteTrace" /\ ReadWriteTick
      <4>1. m_curr_trace_idx' = NextIndex /\ m_trace_count' = m_trace_count
            /\ \E type : send(type, NoAddr)
        BY <3>5 DEF ReadWriteTick
      <4>2. pending' \in 0..Capacity /\ \E Z : accepted' \in Seq(Z)
        BY <4>1, SendFacts
      <4>3. NextIndex \in 0..(Len(m_trace) - 1)
        BY TraceFacts
      <4>4. ~Loads
        BY <3>2, <3>5
      <4> QED BY <3>1, <3>2, <3>3, <4>1, <4>2, <4>3, <4>4 DEF ReplayInv
    <3>6. CASE UNCHANGED <<m_curr_trace_idx, m_trace_count, pending, accepted>>
      <4>1. /\ m_curr_trace_idx' = m_curr_trace_idx /\ m_trace_count' = m_trace_count
            /\ pending' = pending /\ accepted' = accepted
        BY <3>6
      <4>2. m_trace_count \in 0..Len(m_trace) /\ (Loads => m_trace_count # Len(m_trace))
        BY <3>1 DEF ReplayInv
      <4>3. Loads => pc' # "done"
        <5> SUFFICES ASSUME Loads PROVE pc' = "memory"
          OBVIOUS
        <5>1. ~(m_trace_count' >= Len(m_trace))
          BY <3>3, <4>1, <4>2
        <5>2. ~is_finished
          BY <3>1, <3>2, <5>1 DEF is_finished
        <5> QED BY <3>1, <5>2
      <4> QED BY <3>1, <3>2, <3>3, <4>1, <4>2, <4>3 DEF ReplayInv
    <3> QED BY <2>1, <3>4, <3>5, <3>6 DEF FrontendStep
  <2>2. ASSUME NEW served \in {0, 1}, MemoryStep(served) PROVE ReplayInv'
    <3>1. /\ pc = "memory" /\ pc' = "frontend" /\ frontend' = frontend /\ m_trace' = m_trace
          /\ m_curr_trace_idx' = m_curr_trace_idx /\ m_trace_count' = m_trace_count
          /\ accepted' = accepted
          /\ \/ served <= pending /\ pending' = pending - served
             \/ pending' = pending
      BY <2>2 DEF MemoryStep
    <3>2. pending' \in 0..Capacity
      <4>1. pending \in 0..Capacity /\ Capacity \in Nat
        BY TraceFacts DEF ReplayInv
      <4> QED BY <3>1, <4>1
    <3>3. (Loads' <=> Loads) /\ \A k : RequestOf(k)' = RequestOf(k)
      BY <3>1 DEF Loads, RequestOf
    <3> QED BY <3>1, <3>2, <3>3 DEF ReplayInv
  <2>3. CASE UNCHANGED vars
    <3>1. UNCHANGED <<frontend, m_trace, m_curr_trace_idx, m_trace_count, pc, pending, accepted>>
      BY <2>3 DEF vars
    <3>2. (Loads' <=> Loads) /\ \A k : RequestOf(k)' = RequestOf(k)
      BY <3>1 DEF Loads, RequestOf
    <3> QED BY <3>1, <3>2 DEF ReplayInv
  <2> QED BY <2>1, <2>2, <2>3 DEF Next, Done
<1> QED BY <1>1, <1>2, PTL DEF Spec

(* Whatever the memory system refuses, what it accepts is the trace, entry  *)
(* by entry: none is skipped or sent twice, and the loop ends with the last *)
(* one.                                                                     *)
THEOREM Replayed ==
  ASSUME TraceFrontendsAssumption
  PROVE  Spec => []TraceReplayed
<1>1. ASSUME ReplayInv PROVE TraceReplayed
  <2>1. Len(m_trace) \in Nat /\ m_trace_count \in 0..Len(m_trace)
    BY <1>1, TraceFacts DEF ReplayInv
  <2>2. ASSUME Loads
        PROVE  /\ Len(accepted) = m_trace_count
               /\ \A k \in 1..Len(accepted) : accepted[k] = RequestOf(k)
               /\ pc = "done" => m_trace_count = Len(m_trace)
    BY <1>1, <2>2 DEF ReplayInv
  <2> QED BY <2>1, <2>2 DEF TraceReplayed, RequestOf
<1> QED BY <1>1, ReplayInvariance, PTL

(* The indices of the trace, the loop and the memory system keep their      *)
(* ranges; the count of a loop's ticks is a number.                         *)
THEOREM TraceTypes ==
  ASSUME TraceFrontendsAssumption
  PROVE  Spec => []TypeOK
<1>1. ASSUME LoopInv, RatioKept, ReplayInv PROVE TypeOK
  <2>1. front \in Nat /\ mem \in Nat
    <3>1. tick_mult \in Nat \ {0} /\ i \in 0..(tick_mult - 1)
      BY <1>1, Mult DEF LoopInv
    <3>2. i \in Nat /\ i + 1 \in Nat /\ i <= tick_mult /\ i + 1 <= tick_mult
      BY <3>1
    <3>3. \E x \in Nat : x <= tick_mult /\ Shares(front, mem, x, i)
      BY <1>1, <3>2 DEF LoopInv
    <3>4. front \in 0..frontend_tick /\ mem \in 0..mem_tick
      BY <3>2, <3>3, SharesBound
    <3> QED BY <3>4, Mult
  <2> QED BY <1>1, <2>1 DEF LoopInv, ReplayInv, TypeOK
<1> QED BY <1>1, LoopInvariance, ClockRatio, ReplayInvariance, PTL
=============================================================================
