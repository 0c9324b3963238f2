--------------------------- MODULE DRAMNode_proofs ---------------------------
(***************************************************************************)
(* Proofs about the tree of nodes, for any device whose tables conform to   *)
(* what the standards have in common, any number of ranks, groups, banks    *)
(* and rows, and any timing values.                                         *)
(***************************************************************************)
EXTENDS DRAMNode, FiniteSetTheorems, SequenceTheorems, WellFoundedInduction, TLAPS

-----------------------------------------------------------------------------
(* Numbers: a set of naturals has a least element, which stands in for      *)
(* induction; a bounded set of integers has a greatest one.                 *)

LEMMA LeastNatural ==
  ASSUME NEW T \in SUBSET Nat, T # {}
  PROVE  \E n \in T : \A m \in T : n <= m
<1>1. IsWellFoundedOn(OpToRel(<, Nat), Nat)
  BY NatLessThanWellFounded
<1>2. PICK n \in T : \A m \in T : <<m, n>> \notin OpToRel(<, Nat)
  BY <1>1, WFMin, Zenon
<1>3. \A m \in T : ~(m < n)
  BY <1>2 DEF OpToRel
<1> QED BY <1>3

LEMMA BoundedMax ==
  ASSUME NEW T \in SUBSET Int, T # {}, NEW bound \in Int, \A x \in T : x <= bound
  PROVE  Max(T) \in T /\ \A x \in T : x <= Max(T)
<1> DEFINE D == {d \in Nat : bound - d \in T}
<1>1. \A x \in T : bound - x \in D
  OBVIOUS
<1>2. PICK d \in D : \A e \in D : d <= e
  <2>1. D \in SUBSET Nat /\ D # {}
    BY <1>1
  <2> HIDE DEF D
  <2> QED BY <2>1, LeastNatural
<1>3. bound - d \in T /\ \A x \in T : bound - d >= x
  BY <1>1, <1>2
<1> HIDE DEF D
<1>4. \E m \in T : \A x \in T : m >= x
  BY <1>3
<1>5. Max(T) \in T /\ \A x \in T : Max(T) >= x
  BY <1>4 DEF Max
<1> QED BY <1>5

(* A finite set of naturals has a bound: of the sets without one there would*)
(* be a smallest.                                                           *)
LEMMA FiniteBound ==
  ASSUME NEW T \in SUBSET Nat, IsFiniteSet(T)
  PROVE  \E bound \in Nat : \A x \in T : x <= bound
<1> DEFINE Bounded(U) == \E bound \in Nat : \A x \in U : x <= bound
           Sizes == {Cardinality(U) : U \in {V \in SUBSET T : ~Bounded(V)}}
<1> SUFFICES ASSUME ~Bounded(T)
             PROVE  FALSE
  OBVIOUS
<1>1. \A U \in SUBSET T : IsFiniteSet(U) /\ Cardinality(U) \in Nat
  BY FS_Subset, FS_CardinalityType
<1>2. Sizes \in SUBSET Nat /\ Sizes # {}
  <2> HIDE DEF Bounded
  <2> QED BY <1>1
<1>3. PICK U \in SUBSET T : ~Bounded(U) /\ \A size \in Sizes : Cardinality(U) <= size
  <2>1. PICK size \in Sizes : \A m \in Sizes : size <= m
    <3> HIDE DEF Sizes
    <3> QED BY <1>2, LeastNatural
  <2> HIDE DEF Bounded
  <2> QED BY <2>1
<1>4. PICK x \in U : TRUE
  BY <1>3
<1>5. /\ U \ {x} \in SUBSET T
      /\ Cardinality(U \ {x}) = Cardinality(U) - 1 /\ Cardinality(U) \in Nat
  BY <1>1, <1>4, FS_RemoveElement
<1>6. Bounded(U \ {x})
  <2>1. Cardinality(U \ {x}) \notin Sizes
    BY <1>3, <1>5
  <2> HIDE DEF Bounded
  <2> QED BY <1>5, <2>1
<1>7. PICK bound \in Nat : \A y \in U \ {x} : y <= bound
  BY <1>6
<1>8. \A y \in U : y <= bound + x
  BY <1>4, <1>7
<1>9. bound + x \in Nat
  BY <1>4
<1> QED BY <1>3, <1>8, <1>9

-----------------------------------------------------------------------------
(* Devices and paths *)

IsDevice == device \in DOMAIN Device

(* The tables of the device, and its banks.                                 *)
LEMMA DeviceFacts ==
  ASSUME IsDevice
  PROVE  /\ Conforms(S)
         /\ Tree = create_nodes(S)
         /\ Tree.banks = BankNodes(S)
         /\ Tree.commands = ToSet(S.commands)
<1>1. S = Devices[device] /\ Tree = Trees[device]
  BY DEF S, Tree
<1>2. Conforms(Devices[device]) /\ Trees[device] = create_nodes(Devices[device])
  BY DeviceAssumption DEF IsDevice
<1>3. create_nodes(S).banks = BankNodes(S) /\ create_nodes(S).commands = ToSet(S.commands)
  BY DEF create_nodes
<1> QED BY <1>1, <1>2, <1>3

(* A bank is a path with an id on every level.                              *)
LEMMA BankFacts ==
  ASSUME IsDevice
  PROVE  /\ Len(S.levels) \in Nat /\ DOMAIN S.levels = 1 .. Len(S.levels)
         /\ Tree.banks \subseteq [1 .. Len(S.levels) -> 0 .. 7]
<1>1. S.levels \in Seq(STRING) /\ Tree.banks = BankNodes(S)
  BY DeviceFacts DEF Conforms
<1> QED BY <1>1 DEF BankNodes, LevelNodes

(* Where the addresses of the requests end.                                 *)
WholeRank(cmd) == cmd \in DOMAIN S.scopes /\ S.scopes[cmd] \in {"channel", "rank"}

LEMMA AddressFacts ==
  ASSUME IsDevice, NEW cmd, NEW addr \in Addresses(cmd)
  PROVE  /\ addr \in [1 .. Len(S.levels) -> -1 .. 7]
         /\ ~WholeRank(cmd) => addr \in Tree.banks
         /\ WholeRank(cmd) =>
              /\ Scope(cmd) \in 1 .. Len(S.levels)
              /\ \A i \in 1 .. Scope(cmd) : addr[i] \in 0 .. 7
<1>1. /\ Len(S.levels) \in Nat /\ DOMAIN S.levels = 1 .. Len(S.levels)
      /\ Tree.banks \subseteq [1 .. Len(S.levels) -> 0 .. 7]
  BY BankFacts
<1> DEFINE depth == IF WholeRank(cmd) THEN Scope(cmd) ELSE Len(S.levels)
<1>2. PICK n \in Tree.banks : addr = [i \in DOMAIN S.levels |-> IF i <= depth THEN n[i] ELSE -1]
  BY DEF Addresses, WholeRank
<1>3. n \in [1 .. Len(S.levels) -> 0 .. 7]
  BY <1>1
<1>4. CASE ~WholeRank(cmd)
  <2>1. addr = [i \in 1 .. Len(S.levels) |-> n[i]]
    BY <1>1, <1>2, <1>4
  <2>2. addr = n
    BY <1>3, <2>1
  <2> QED BY <1>1, <1>4, <2>2
<1>5. CASE WholeRank(cmd)
  <2>1. S.scopes[cmd] \in ToSet(S.levels)
    BY <1>5, DeviceFacts DEF WholeRank, Conforms
  <2>2. \E i \in DOMAIN S.levels : S.levels[i] = S.scopes[cmd]
    BY <2>1 DEF ToSet
  <2>3. Scope(cmd) \in DOMAIN S.levels
    BY <1>5, <2>2 DEF Scope, WholeRank
  <2> HIDE DEF WholeRank
  <2>4. addr = [i \in 1 .. Len(S.levels) |-> IF i <= Scope(cmd) THEN n[i] ELSE -1]
    BY <1>1, <1>2, <1>5
  <2>5. Scope(cmd) \in 1 .. Len(S.levels)
    BY <1>1, <2>3
  <2> DEFINE L == Len(S.levels)  d == Scope(cmd)
  <2>6. L \in Nat /\ d \in 1 .. L
    BY <1>1, <2>5
  <2>7. addr = [i \in 1 .. L |-> IF i <= d THEN n[i] ELSE -1] /\ n \in [1 .. L -> 0 .. 7]
    BY <1>3, <2>4
  <2> HIDE DEF L, d
  <2>8. \A i \in 1 .. L : n[i] \in -1 .. 7 /\ n[i] \in 0 .. 7
    BY <2>7
  <2>9. addr \in [1 .. L -> -1 .. 7] /\ \A i \in 1 .. d : addr[i] \in 0 .. 7
    BY <2>6, <2>7, <2>8
  <2> QED BY <1>5, <2>6, <2>9 DEF L, d
<1> QED BY <1>4, <1>5

(* A node is the path to it.                                                *)
LEMMA NodeFacts ==
  ASSUME IsDevice, NEW n \in Tree.nodes
  PROVE  /\ Len(n) \in 1 .. Len(S.levels)
         /\ n \in [1 .. Len(n) -> 0 .. 7]
<1>1. Tree.nodes = UNION {LevelNodes(S, i) : i \in DOMAIN S.levels}
  BY DeviceFacts DEF create_nodes
<1>2. PICK i \in DOMAIN S.levels : n \in LevelNodes(S, i)
  BY <1>1
<1>3. i \in 1 .. Len(S.levels) /\ i \in Nat
  BY <1>2, BankFacts
<1>4. n \in [1 .. i -> 0 .. 7]
  BY <1>2 DEF LevelNodes
<1>5. Len(n) = i
  BY <1>3, <1>4
<1> QED BY <1>3, <1>4, <1>5

(* The constraints of a node are those of its level.                        *)
LEMMA ConstraintsOf ==
  ASSUME IsDevice, NEW n \in Tree.nodes, NEW cmd \in Tree.commands, NEW f \in Tree.commands
  PROVE  Constraints(n, cmd, f) = timing_cons(S, S.levels[Len(n)], cmd, f)
<1> DEFINE level == S.levels[Len(n)]
           nodes == UNION {LevelNodes(S, i) : i \in DOMAIN S.levels}
           commands == ToSet(S.commands)
           pairs == commands \X commands
           cons == [m \in nodes |-> [pair \in pairs |->
                      timing_cons(S, S.levels[Len(m)], pair[1], pair[2])]]
           g == Tree.cons[n]
           h(pair) == timing_cons(S, level, pair[1], pair[2])
<1>1. Tree.nodes = nodes
  BY DeviceFacts DEF create_nodes
<1>2. Tree.commands = commands
  BY DeviceFacts
<1>3. Tree.cons = cons
  <2>1. create_nodes(S).cons = cons
    BY Zenon DEF create_nodes
  <2> HIDE DEF cons
  <2> QED BY <2>1, DeviceFacts
<1>4. g = [pair \in pairs |-> h(pair)]
  BY <1>1, <1>3
<1>5. <<cmd, f>> \in pairs /\ h(<<cmd, f>>) = timing_cons(S, level, cmd, f)
  BY <1>2
<1> HIDE DEF g, h, pairs
<1>6. g[<<cmd, f>>] = h(<<cmd, f>>)
  BY <1>4, <1>5
<1> QED BY <1>5, <1>6 DEF Constraints, g

(* A constraint looks back no further than the node's histories, and its    *)
(* latency is at most MaxAge.                                               *)
LEMMA ConstraintFacts ==
  ASSUME IsDevice
  PROVE  /\ MaxAge \in Nat
         /\ Tree.window \in [Tree.nodes -> [Tree.commands -> 0 .. 4]]
         /\ \A n \in Tree.nodes, cmd, f \in Tree.commands :
              \A t \in Constraints(n, cmd, f) :
                t.latency \in 0 .. MaxAge /\ t.window \in 1 .. Tree.window[n][cmd]
<1>1. /\ Tree.window \in [Tree.nodes -> [Tree.commands -> 0 .. 4]]
      /\ IsFiniteSet(S.timingcons) /\ S.timingcons # {}
      /\ \A t \in S.timingcons : t.latency \in Nat /\ t.window \in 1 .. 4
  BY DeviceAssumption DEF IsDevice, S, Tree
<1> DEFINE latencies == {t.latency : t \in S.timingcons}
<1>2. latencies \in SUBSET Nat /\ latencies # {}
  BY <1>1
<1>3. IsFiniteSet(latencies)
  <2>1. [t \in S.timingcons |-> t.latency] \in Surjection(S.timingcons, latencies)
    BY DEF Surjection
  <2> HIDE DEF latencies
  <2> QED BY <1>1, <2>1, FS_Surjection
<1>4. PICK bound \in Nat : \A x \in latencies : x <= bound
  <2> HIDE DEF latencies
  <2> QED BY <1>2, <1>3, FiniteBound
<1>5. Max(latencies) \in latencies /\ \A x \in latencies : x <= Max(latencies)
  <2> HIDE DEF latencies
  <2> QED BY <1>2, <1>4, BoundedMax
<1>6. MaxAge = Max(latencies)
  BY DeviceFacts DEF MaxAge, create_nodes
<1>7. MaxAge \in Nat /\ \A t \in S.timingcons : t.latency \in 0 .. MaxAge
  <2>1. \A t \in S.timingcons : t.latency \in latencies
    OBVIOUS
  <2> HIDE DEF latencies
  <2>2. Max(latencies) \in Nat /\ MaxAge \in Nat
    BY <1>2, <1>5, <1>6
  <2>3. \A t \in S.timingcons : t.latency \in Nat /\ t.latency <= MaxAge
    BY <1>1, <1>5, <1>6, <2>1
  <2> QED BY <2>2, <2>3
<1>8. ASSUME NEW n \in Tree.nodes, NEW cmd \in Tree.commands, NEW f \in Tree.commands,
             NEW t \in Constraints(n, cmd, f)
      PROVE  t \in S.timingcons /\ t.window \in 1 .. Tree.window[n][cmd]
  <2> DEFINE level == S.levels[Len(n)]
             all == UNION {timing_cons(S, level, cmd, g) : g \in ToSet(S.commands)}
             windows == {u.window : u \in all} \cup {0}
  <2> DEFINE nodes == UNION {LevelNodes(S, i) : i \in DOMAIN S.levels}
             commands == ToSet(S.commands)
             window == [m \in nodes |-> [c \in commands |-> Window(S, S.levels[Len(m)], c)]]
  <2>1. Tree.nodes = nodes /\ Tree.commands = commands /\ Tree.window = window
    <3>1. Tree.nodes = nodes
      BY DeviceFacts DEF create_nodes
    <3>2. Tree.commands = commands
      BY DeviceFacts
    <3>3. Tree.window = window
      BY DeviceFacts DEF create_nodes
    <3> QED BY <3>1, <3>2, <3>3
  <2>2. Constraints(n, cmd, f) = timing_cons(S, level, cmd, f)
    BY ConstraintsOf
  <2>3. t \in S.timingcons /\ t \in all
    BY <2>1, <2>2 DEF timing_cons
  <2>4. Tree.window[n][cmd] = Max(windows)
    BY <2>1 DEF Window
  <2>5. all \subseteq S.timingcons
    BY DEF timing_cons
  <2>6. \A x \in windows : x \in Int /\ x <= 4
    BY <1>1, <2>5
  <2>7. t.window \in windows
    BY <2>3
  <2>8. \A x \in windows : x <= Max(windows)
    <3> HIDE DEF windows
    <3> QED BY <2>6, <2>7, BoundedMax
  <2>9. t.window <= Tree.window[n][cmd] /\ Tree.window[n][cmd] \in 0 .. 4 /\ t.window \in 1 .. 4
    BY <1>1, <2>3, <2>4, <2>7, <2>8
  <2> QED BY <2>3, <2>9
<1> QED BY <1>1, <1>7, <1>8

-----------------------------------------------------------------------------
(* Rows *)

(* The rows of every bank are a set.                                        *)
RowInv == OneRowOpen /\ m_row_state \in [Tree.banks -> SUBSET Rows] /\ IsDevice

(* A prerequisite is ACT only for a bank that is closed.                    *)
LEMMA ActivatesClosedBank ==
  ASSUME IsDevice, NEW request \in S.requested, NEW rs, NEW addr, NEW row,
         get_preq_command(rs, S.requests[request], addr, row) = "ACT"
  PROVE  rs[addr] = {}
<1> DEFINE final == S.requests[request]
<1>1. /\ final \in DOMAIN S.preqs /\ final # "ACT"
      /\ S.preqs[final] \in {"Bank::RequireRowOpen", "Bank::RequireBankClosed",
                             "BankGroup::RequireSameBanksClosed", "Rank::RequireAllBanksClosed",
                             "Channel::RequireAllBanksClosed"}
  BY DeviceFacts DEF Conforms
<1> QED BY <1>1 DEF get_preq_command, RequireRowOpen, RequireBankClosed, RequireSameBanksClosed,
                    RequireAllBanksClosed

(* No step opens a second row in a bank.                                    *)
LEMMA RowsStep ==
  ASSUME RowInv, [Next]_vars
  PROVE  RowInv'
<1>1. CASE UNCHANGED <<device, m_row_state>>
  BY <1>1 DEF RowInv, OneRowOpen, IsDevice, Tree, Rows, S
<1>2. ASSUME NEW request \in S.requested,
             NEW addr \in Addresses(S.requests[request]), NEW row \in Rows,
             Issue(request, addr, row)
      PROVE  RowInv'
  <2> DEFINE cmd == get_preq_command(m_row_state, S.requests[request], addr, row)
  <2>1. m_row_state' = update_states(m_row_state, cmd, addr, row) /\ device' = device
    BY <1>2 DEF Issue, issue_command
  <2>2. cmd = "ACT" => m_row_state[addr] = {}
    BY ActivatesClosedBank DEF RowInv
  <2> HIDE DEF cmd
  <2>4. ASSUME NEW b \in Tree.banks
        PROVE  /\ m_row_state'[b] \in SUBSET Rows
               /\ Cardinality(m_row_state'[b]) <= 1
    <3>1. m_row_state'[b] = CASE cmd = "ACT" /\ b = addr -> m_row_state[b] \cup {row}
                              [] b \in Closes(cmd, addr) -> {}
                              [] OTHER                   -> m_row_state[b]
      BY <2>1 DEF update_states
    <3>2. CASE cmd = "ACT" /\ b = addr
      <4>0. Closes(cmd, addr) = {}
        BY <3>2, DeviceFacts DEF RowInv, Conforms, Closes
      <4>1. m_row_state[b] = {} /\ m_row_state'[b] = m_row_state[b] \cup {row}
        BY <2>2, <3>1, <3>2, <4>0
      <4>2. m_row_state'[b] = {row}
        BY <4>1
      <4>3. Cardinality({row}) = 1
        BY FS_Singleton
      <4> QED BY <4>2, <4>3
    <3>3. CASE ~(cmd = "ACT" /\ b = addr) /\ b \in Closes(cmd, addr)
      <4>1. m_row_state'[b] = {}
        BY <3>1, <3>3
      <4> QED BY <4>1, FS_EmptySet
    <3>4. CASE ~(cmd = "ACT" /\ b = addr) /\ b \notin Closes(cmd, addr)
      <4>1. m_row_state'[b] = m_row_state[b]
        BY <3>1, <3>4
      <4> QED BY <4>1 DEF RowInv, OneRowOpen
    <3> QED BY <3>2, <3>3, <3>4
  <2>5. Tree' = Tree /\ Rows' = Rows
    BY <2>1 DEF Tree, Rows, S
  <2>6. m_row_state' \in [Tree.banks -> SUBSET Rows]
    BY <2>1, <2>4 DEF update_states
  <2> QED BY <2>1, <2>4, <2>5, <2>6 DEF RowInv, OneRowOpen, IsDevice
<1> QED BY <1>1, <1>2 DEF Next, tick, vars

LEMMA RowsInit ==
  ASSUME Init
  PROVE  RowInv
<1>1. IsDevice /\ m_row_state = [b \in Tree.banks |-> {}]
  BY DEF Init, IsDevice
<1> QED BY <1>1, FS_EmptySet DEF RowInv, OneRowOpen

LEMMA RowInvariance == Spec => []RowInv
BY RowsInit, RowsStep, PTL DEF Spec

(* The lambdas of bank.h record a row beside what is recorded already, and  *)
(* assert that there is nothing: the prerequisites see to it, for every     *)
(* standard, organisation and order of requests, refreshes and precharges.  *)
THEOREM OneRow == Spec => []OneRowOpen
<1>1. RowInv => OneRowOpen
  BY DEF RowInv
<1> QED BY <1>1, RowInvariance, PTL

-----------------------------------------------------------------------------
(* Prerequisites *)

(* What each kind of prerequisite answers.                                  *)
LEMMA PreqKinds ==
  ASSUME IsDevice, NEW final \in DOMAIN S.preqs, NEW rs, NEW addr, NEW row
  PROVE  LET preq == get_preq_command(rs, final, addr, row)
         IN  /\ S.preqs[final] = "Bank::RequireRowOpen" => preq = RequireRowOpen(rs, final, addr, row)
             /\ S.preqs[final] = "Bank::RequireBankClosed" => preq = RequireBankClosed(rs, final, addr)
             /\ S.preqs[final] = "BankGroup::RequireSameBanksClosed" =>
                  preq = RequireSameBanksClosed(rs, final, addr)
             /\ S.preqs[final] \in {"Rank::RequireAllBanksClosed", "Channel::RequireAllBanksClosed"} =>
                  preq = RequireAllBanksClosed(rs, final, SubSeq(addr, 1, Scope(final)))
BY DEF get_preq_command

(* What each command does to the rows of a bank.                            *)
LEMMA CommandEffects ==
  ASSUME IsDevice, NEW rs, NEW addr, NEW row, NEW b \in Tree.banks
  PROVE  /\ b = addr => update_states(rs, "ACT", addr, row)[b] = rs[b] \cup {row}
         /\ b = addr => update_states(rs, "PRE", addr, row)[b] = {}
         /\ IsTarget(SubSeq(addr, 1, Scope("PREA")), b) => update_states(rs, "PREA", addr, row)[b] = {}
         /\ ("PREsb" \in DOMAIN S.actions /\ S.actions["PREsb"] = "BankGroup::PREsb"
              /\ SameBank(b, addr)) => update_states(rs, "PREsb", addr, row)[b] = {}
<1>1. /\ Closes("ACT", addr) = {}
      /\ Closes("PRE", addr) = {addr}
      /\ Closes("PREA", addr) = {c \in Tree.banks : IsTarget(SubSeq(addr, 1, Scope("PREA")), c)}
      /\ ("PREsb" \in DOMAIN S.actions /\ S.actions["PREsb"] = "BankGroup::PREsb") =>
           Closes("PREsb", addr) = {c \in Tree.banks : SameBank(c, addr)}
  BY DeviceFacts DEF Conforms, Closes
<1>2. \A cmd : update_states(rs, cmd, addr, row)[b] =
                 CASE cmd = "ACT" /\ b = addr -> rs[b] \cup {row}
                   [] b \in Closes(cmd, addr) -> {}
                   [] OTHER                   -> rs[b]
  BY DEF update_states
<1> QED BY <1>1, <1>2

(* The request's own command is issued as the third one at the latest.      *)
LEMMA ThirdAtTheLatest ==
  ASSUME IsDevice, NEW request \in S.requested, NEW addr \in Addresses(S.requests[request]),
         NEW row, NEW rs
  PROVE  LET final == S.requests[request]
             c1 == get_preq_command(rs, final, addr, row)
             r1 == update_states(rs, c1, addr, row)
             c2 == get_preq_command(r1, final, addr, row)
             r2 == update_states(r1, c2, addr, row)
         IN  final \in {c1, c2, get_preq_command(r2, final, addr, row)}
<1> DEFINE final == S.requests[request]
           scope == IF final \in DOMAIN S.scopes THEN S.scopes[final] ELSE "row"
           preq(r) == get_preq_command(r, final, addr, row)
           next(r) == update_states(r, preq(r), addr, row)
<1>1. final \in DOMAIN S.preqs /\ final \notin {"ACT", "PRE", "PREA", "PREsb"}
  BY DeviceFacts DEF Conforms
<1> SUFFICES final \in {preq(rs), preq(next(rs)), preq(next(next(rs)))}
  OBVIOUS
<1>2. CASE S.preqs[final] = "Bank::RequireRowOpen" /\ scope = "row"
  <2>1. addr \in Tree.banks
    BY <1>2, AddressFacts DEF WholeRank
  <2>2. ASSUME NEW r
        PROVE  /\ r[addr] = {} => row \in next(r)[addr]
               /\ row \in r[addr] => preq(r) = final
               /\ (r[addr] # {} /\ row \notin r[addr]) => next(r)[addr] = {}
    BY <1>1, <1>2, <2>1, PreqKinds, CommandEffects DEF RequireRowOpen
  <2> HIDE DEF preq, next, final
  <2> QED BY <2>2, Zenon
<1>3. CASE S.preqs[final] = "Bank::RequireBankClosed" /\ scope = "bank"
  <2>1. addr \in Tree.banks
    BY <1>3, AddressFacts DEF WholeRank
  <2>2. ASSUME NEW r
        PROVE  /\ r[addr] = {} => preq(r) = final
               /\ r[addr] # {} => next(r)[addr] = {}
    BY <1>1, <1>3, <2>1, PreqKinds, CommandEffects DEF RequireBankClosed
  <2> HIDE DEF preq, next, final
  <2> QED BY <2>2, Zenon
<1>4. CASE /\ S.preqs[final] = "BankGroup::RequireSameBanksClosed"
           /\ "PREsb" \in DOMAIN S.actions /\ S.actions["PREsb"] = "BankGroup::PREsb"
  <2>1. ASSUME NEW r
        PROVE  /\ (\A b \in Tree.banks : SameBank(b, addr) => r[b] = {}) => preq(r) = final
               /\ preq(r) \in {final, "PREsb"}
    BY <1>1, <1>4, PreqKinds DEF RequireSameBanksClosed
  <2>2. ASSUME NEW r, preq(r) = "PREsb"
        PROVE  \A b \in Tree.banks : SameBank(b, addr) => next(r)[b] = {}
    BY <1>4, <2>2, CommandEffects
  <2> HIDE DEF preq, next, final
  <2> QED BY <2>1, <2>2
<1>5. CASE /\ S.preqs[final] \in {"Rank::RequireAllBanksClosed", "Channel::RequireAllBanksClosed"}
           /\ scope \in {"channel", "rank"}
           /\ "PREA" \in DOMAIN S.scopes /\ S.scopes["PREA"] = scope
  <2> DEFINE node == SubSeq(addr, 1, Scope(final))
  <2>1. Scope("PREA") = Scope(final)
    BY <1>5 DEF Scope
  <2>2. ASSUME NEW r
        PROVE  /\ (\A b \in Tree.banks : IsTarget(node, b) => r[b] = {}) => preq(r) = final
               /\ preq(r) \in {final, "PREA"}
    BY <1>1, <1>5, PreqKinds DEF RequireAllBanksClosed
  <2>3. ASSUME NEW r, preq(r) = "PREA"
        PROVE  \A b \in Tree.banks : IsTarget(node, b) => next(r)[b] = {}
    BY <2>1, <2>3, CommandEffects
  <2> HIDE DEF preq, next, final, node
  <2> QED BY <2>2, <2>3
<1> HIDE DEF preq, next
<1> QED BY <1>2, <1>3, <1>4, <1>5, DeviceFacts DEF Conforms

(* set_preqs, set_actions and the scopes of set_actions' commands agree: no *)
(* request is sent in circles by its prerequisites, whatever rows others    *)
(* have left open, in any conforming device.                                *)
THEOREM Served == Spec => []EveryRequestServed
<1>1. RowInv => EveryRequestServed
  BY ThirdAtTheLatest DEF RowInv, EveryRequestServed
<1> QED BY <1>1, RowInvariance, PTL

-----------------------------------------------------------------------------
(* Refreshes *)

(* What a request can make the device do, and where.                        *)
Finals == {S.requests[request] : request \in S.requested}

Entry ==
  [cmd : Tree.commands,
   addr : UNION {Addresses(final) : final \in Finals},
   age : Nat]

LogInv == IsDevice /\ log \in Seq(Entry)

(* The command that is issued for a request.                                *)
LEMMA PreqCommands ==
  ASSUME IsDevice, NEW request \in S.requested, NEW rs, NEW addr, NEW row
  PROVE  LET cmd == get_preq_command(rs, S.requests[request], addr, row)
         IN  /\ cmd \in {S.requests[request], "ACT", "PRE", "PREA", "PREsb"}
             /\ cmd \in Tree.commands
<1> DEFINE final == S.requests[request]
           cmd == get_preq_command(rs, final, addr, row)
<1>1. /\ final \in DOMAIN S.preqs
      /\ S.preqs[final] \in {"Bank::RequireRowOpen", "Bank::RequireBankClosed",
                             "BankGroup::RequireSameBanksClosed", "Rank::RequireAllBanksClosed",
                             "Channel::RequireAllBanksClosed"}
      /\ S.preqs[final] = "BankGroup::RequireSameBanksClosed" => "PREsb" \in DOMAIN S.actions
      /\ {"ACT", "PRE", "PREA"} \subseteq DOMAIN S.actions
      /\ DOMAIN S.actions \cup DOMAIN S.preqs \subseteq ToSet(S.commands)
  BY DeviceFacts DEF Conforms
<1>2. Tree.commands = ToSet(S.commands)
  BY DeviceFacts
<1>3. \/ cmd \in {final, "ACT", "PRE", "PREA"}
      \/ S.preqs[final] = "BankGroup::RequireSameBanksClosed" /\ cmd = "PREsb"
  BY <1>1 DEF get_preq_command, RequireRowOpen, RequireBankClosed, RequireSameBanksClosed,
              RequireAllBanksClosed
<1> QED BY <1>1, <1>2, <1>3

(* A cycle later nothing in the log is new, and at most the last command is *)
(* forgotten.                                                               *)
LEMMA LogTick ==
  ASSUME LogInv, tick
  PROVE  /\ LogInv'
         /\ Len(log) \in Nat /\ DOMAIN log = 1 .. Len(log) /\ DOMAIN log' = 1 .. Len(log')
         /\ \/ Len(log') = Len(log) /\ (Len(log) > 0 => log'[Len(log)].age <= MaxAge)
            \/ Len(log') = Len(log) - 1 /\ Len(log) > 0
         /\ \A i \in DOMAIN log' : log'[i] = [log[i] EXCEPT !.age = @ + 1]
         /\ \A i \in DOMAIN log' : log'[i].age > 0
<1> DEFINE l == [i \in DOMAIN log |-> [log[i] EXCEPT !.age = @ + 1]]
<1>1. log \in Seq(Entry) /\ device' = device
  BY DEF LogInv, tick
<1>2. ASSUME NEW i \in DOMAIN log
      PROVE  l[i] \in Entry /\ l[i].age > 0
  <2>1. log[i] \in Entry
    BY <1>1
  <2> QED BY <2>1 DEF Entry
<1>3. /\ l \in Seq(Entry) /\ Len(l) = Len(log) /\ DOMAIN l = 1 .. Len(l)
      /\ Len(log) \in Nat /\ DOMAIN log = 1 .. Len(log)
  <2> HIDE DEF Entry
  <2>1. DOMAIN log = 1 .. Len(log) /\ Len(log) \in Nat
    BY <1>1
  <2>2. l \in [1 .. Len(log) -> Entry]
    BY <1>2, <2>1
  <2> HIDE DEF l
  <2> QED BY <2>1, <2>2
<1>4. \/ log' = l /\ (l # <<>> => ~(Last(l).age > MaxAge))
      \/ l # <<>> /\ log' = Front(l)
  BY DEF tick
<1>5. Entry' = Entry /\ IsDevice'
  BY <1>1 DEF Entry, Finals, Addresses, WholeRank, Scope, S, Tree, LogInv, IsDevice
<1>6. \A i \in DOMAIN log : l[i] = [log[i] EXCEPT !.age = @ + 1]
  OBVIOUS
<1>7. MaxAge \in Nat
  BY ConstraintFacts DEF LogInv
<1> HIDE DEF l
<1>8. ASSUME NEW i \in DOMAIN log
      PROVE  l[i].age \in Nat
  BY <1>2, SMTT(30) DEF Entry
<1> HIDE DEF Entry
<1>9. CASE log' = l /\ (l # <<>> => ~(Last(l).age > MaxAge))
  <2>1. Len(log) > 0 => l[Len(log)].age <= MaxAge
    <3>1. Len(log) > 0 => l # <<>> /\ Len(log) \in DOMAIN log
      BY <1>3, SMTT(30)
    <3> QED BY <1>3, <1>7, <1>8, <1>9, <3>1 DEF Last
  <2> QED BY <1>2, <1>3, <1>5, <1>6, <1>9, <2>1 DEF LogInv
<1>10. CASE l # <<>> /\ log' = Front(l)
  <2>1. /\ log' \in Seq(Entry) /\ Len(log') = Len(l) - 1 /\ DOMAIN log' = 1 .. (Len(l) - 1)
        /\ \A i \in 1 .. (Len(l) - 1) : log'[i] = l[i]
    BY <1>3, <1>10, SubSeqProperties DEF Front
  <2>2. Len(log) > 0
    BY <1>3, <1>10
  <2>3. \A i \in DOMAIN log' : i \in DOMAIN log /\ log'[i] = l[i]
    BY <1>3, <2>1
  <2>4. Len(log') = Len(log) - 1 /\ DOMAIN log' = 1 .. Len(log') /\ LogInv'
    BY <1>3, <1>5, <2>1 DEF LogInv
  <2>5. \A i \in DOMAIN log' :
          log'[i] = [log[i] EXCEPT !.age = @ + 1] /\ log'[i].age > 0
    BY <1>2, <1>6, <2>3
  <2> QED BY <1>3, <2>2, <2>4, <2>5
<1> QED BY <1>4, <1>9, <1>10

(* The command that is issued is new and before the others.                 *)
LEMMA LogIssue ==
  ASSUME LogInv, NEW request \in S.requested, NEW addr \in Addresses(S.requests[request]),
         NEW row, Issue(request, addr, row)
  PROVE  /\ LogInv'
         /\ Len(log) \in Nat /\ DOMAIN log = 1 .. Len(log) /\ DOMAIN log' = 1 .. (Len(log) + 1)
         /\ log'[1] = [cmd |-> get_preq_command(m_row_state, S.requests[request], addr, row),
                       addr |-> addr, age |-> 0]
         /\ \A i \in 2 .. (Len(log) + 1) : log'[i] = log[i - 1]
<1> DEFINE e == [cmd |-> get_preq_command(m_row_state, S.requests[request], addr, row),
                 addr |-> addr, age |-> 0]
<1>1. log' = <<e>> \o log /\ device' = device
  BY DEF Issue
<1>2. e \in Entry
  BY PreqCommands DEF Entry, Finals, LogInv
<1>3. Entry' = Entry /\ IsDevice'
  BY <1>1 DEF Entry, Finals, Addresses, WholeRank, Scope, S, Tree, LogInv, IsDevice
<1> HIDE DEF e, Entry
<1>4. <<e>> \in Seq(Entry) /\ Len(<<e>>) = 1 /\ <<e>>[1] = e
  BY <1>2
<1>5. /\ log \in Seq(Entry) /\ Len(log) \in Nat /\ DOMAIN log = 1 .. Len(log)
      /\ log' \in Seq(Entry) /\ Len(log') = 1 + Len(log) /\ DOMAIN log' = 1 .. Len(log')
      /\ \A i \in 1 .. 1 + Len(log) : log'[i] = IF i <= 1 THEN <<e>>[i] ELSE log[i - 1]
  BY <1>1, <1>4, ConcatProperties DEF LogInv
<1> QED BY <1>3, <1>4, <1>5 DEF LogInv, e

LEMMA LogStep ==
  ASSUME LogInv, [Next]_vars
  PROVE  LogInv'
<1>1. CASE UNCHANGED vars
  BY <1>1 DEF vars, LogInv, IsDevice, Entry, Finals, Addresses, Scope, S, Tree
<1> QED BY <1>1, LogTick, LogIssue DEF Next

LEMMA LogInvariance == Spec => []LogInv
<1>1. Init => LogInv
  BY DEF Init, LogInv, IsDevice
<1> QED BY <1>1, LogStep, PTL DEF Spec

(* A refresh comes out of get_preq_command only when all it reaches is      *)
(* closed.                                                                  *)
LEMMA RefreshClosed ==
  ASSUME IsDevice, NEW request \in S.requested, NEW addr \in Addresses(S.requests[request]),
         NEW row, NEW e, e.addr = addr,
         e.cmd = get_preq_command(m_row_state, S.requests[request], addr, row),
         e.cmd \in Refreshes, NEW b \in Tree.banks, Reaches(e, b)
  PROVE  m_row_state[b] = {}
<1> DEFINE final == S.requests[request]
           scope == IF final \in DOMAIN S.scopes THEN S.scopes[final] ELSE "row"
<1>1. e.cmd = final /\ final \in Refreshes
  BY PreqCommands DEF Refreshes
<1>2. /\ final \in DOMAIN S.preqs
      /\ \/ S.preqs[final] = "Bank::RequireBankClosed" /\ scope = "bank"
         \/ S.preqs[final] = "BankGroup::RequireSameBanksClosed" /\ scope = "bankgroup"
         \/ /\ S.preqs[final] \in {"Rank::RequireAllBanksClosed", "Channel::RequireAllBanksClosed"}
            /\ scope \in {"channel", "rank"}
  BY <1>1, DeviceFacts DEF Conforms
<1>3. get_preq_command(m_row_state, final, addr, row) = final
  BY <1>1
<1>4. /\ Len(S.levels) \in Nat
      /\ b \in [1 .. Len(S.levels) -> 0 .. 7]
      /\ Tree.banks \subseteq [1 .. Len(S.levels) -> 0 .. 7]
  BY BankFacts
<1>5. CASE S.preqs[final] = "Bank::RequireBankClosed" /\ scope = "bank"
  <2>1. m_row_state[addr] = {}
    BY <1>1, <1>2, <1>3, <1>5 DEF get_preq_command, RequireBankClosed, Refreshes
  <2>2. addr \in Tree.banks
    BY <1>5, AddressFacts DEF WholeRank
  <2>3. \A i \in 1 .. Len(S.levels) : addr[i] = b[i]
    <3>1. \A i \in DOMAIN b : addr[i] \in {-1, b[i]}
      BY <1>1, <1>5 DEF Reaches
    <3>2. DOMAIN b = 1 .. Len(S.levels) /\ \A i \in 1 .. Len(S.levels) : addr[i] # -1
      BY <1>4, <2>2
    <3> QED BY <3>1, <3>2
  <2>4. addr = b
    BY <1>4, <2>2, <2>3
  <2> QED BY <2>1, <2>4
<1>6. CASE S.preqs[final] = "BankGroup::RequireSameBanksClosed" /\ scope = "bankgroup"
  <2>1. SameBank(b, addr)
    BY <1>1, <1>6 DEF Reaches
  <2> QED BY <1>1, <1>2, <1>3, <1>6, <2>1 DEF get_preq_command, RequireSameBanksClosed, Refreshes
<1>7. CASE /\ S.preqs[final] \in {"Rank::RequireAllBanksClosed", "Channel::RequireAllBanksClosed"}
           /\ scope \in {"channel", "rank"}
  <2> DEFINE node == SubSeq(addr, 1, Scope(final))
  <2>1. /\ WholeRank(final) /\ Scope(final) \in 1 .. Len(S.levels)
        /\ DOMAIN addr = 1 .. Len(S.levels)
        /\ \A i \in 1 .. Scope(final) : addr[i] \in 0 .. 7
    BY <1>7, AddressFacts DEF WholeRank
  <2>2. \A i \in 1 .. Len(S.levels) : addr[i] \in {-1, b[i]}
    BY <1>1, <1>4, <1>7 DEF Reaches
  <2>3. DOMAIN node = 1 .. Scope(final) /\ \A i \in 1 .. Scope(final) : node[i] = addr[i]
    <3>1. /\ node \in Seq(0 .. 7) /\ Len(node) = Scope(final)
          /\ \A i \in 1 .. Scope(final) : node[i] = addr[1 + i - 1]
      BY <1>4, <2>1, SubSeqProperties
    <3> QED BY <1>4, <2>1, <3>1
  <2>4. IsTarget(node, b)
    BY <1>4, <2>1, <2>2, <2>3, SMTT(30) DEF IsTarget
  <2> HIDE DEF node
  <2>5. RequireAllBanksClosed(m_row_state, final, node) = final
    BY <1>2, <1>3, <1>7 DEF get_preq_command, node
  <2> QED BY <1>1, <2>4, <2>5 DEF RequireAllBanksClosed, Refreshes
<1> QED BY <1>2, <1>5, <1>6, <1>7

(* get_preq_command lets a refresh out only when every bank that it reaches *)
(* is closed, in the addressed group or in another, whatever the standard.  *)
THEOREM RefreshesFindClosed == Spec => RefreshesClosedBanks
<1>1. ASSUME LogInv, Next, NEW b \in Tree.banks, log' # <<>>, log'[1].age = 0,
             log'[1].cmd \in Refreshes, Reaches(log'[1], b)
      PROVE  m_row_state[b] = {}
  <2>1. CASE tick
    <3>1. LogInv' /\ \A i \in DOMAIN log' : log'[i].age > 0
      BY <1>1, <2>1, LogTick
    <3>2. 1 \in DOMAIN log'
      <4>1. log' \in Seq(Entry')
        BY <3>1 DEF LogInv
      <4> QED BY <1>1, <4>1
    <3> QED BY <1>1, <3>1, <3>2, SMTT(30)
  <2>2. ASSUME NEW request \in S.requested, NEW addr \in Addresses(S.requests[request]),
               NEW row \in Rows, Issue(request, addr, row)
        PROVE  m_row_state[b] = {}
    <3>1. log'[1] = [cmd |-> get_preq_command(m_row_state, S.requests[request], addr, row),
                     addr |-> addr, age |-> 0]
      BY <1>1, <2>2, LogIssue
    <3> DEFINE e == [cmd |-> get_preq_command(m_row_state, S.requests[request], addr, row),
                     addr |-> addr, age |-> 0]
    <3>2. e.addr = addr /\ e.cmd = get_preq_command(m_row_state, S.requests[request], addr, row)
      OBVIOUS
    <3>3. e.cmd \in Refreshes /\ Reaches(e, b)
      BY <1>1, <3>1
    <3>4. IsDevice
      BY <1>1 DEF LogInv
    <3> HIDE DEF e
    <3> QED BY <3>2, <3>3, <3>4, RefreshClosed, Zenon
  <2> QED BY <1>1, <2>1, <2>2 DEF Next
<1>2. LogInv /\ [Next]_vars =>
        [\A b \in Tree.banks :
           (log' # <<>> /\ log'[1].age = 0 /\ log'[1].cmd \in Refreshes /\ Reaches(log'[1], b))
             => m_row_state[b] = {}]_vars
  BY <1>1
<1> QED BY <1>2, LogInvariance, PTL DEF Spec, RefreshesClosedBanks
-----------------------------------------------------------------------------
(* Waits *)

(* What a node hears of a command, and of one next to it.                   *)
Hit(n, e) == IsTarget(n, e.addr) \/ n \in SameBankActions(e.cmd, e.addr)

Beside(n, e) == IsSibling(n, e.addr) /\ ~Hit(n, e)

(* The w positions p are issues of cmd that the node n records, the newest  *)
(* first.                                                                   *)
Picks(p, l, n, cmd, w) ==
  /\ \A a, b \in 1 .. w : a < b => p[a] < p[b]
  /\ \A a \in 1 .. w : l[p[a]].cmd = cmd /\ Hit(n, l[p[a]])

(* Command log[i] went through node n: its latency has passed since each    *)
(* command that was issued beside n, and since the last issues of a command *)
(* in n, as many as the constraint counts, began.                           *)
ConstraintsKept ==
  \A n \in Tree.nodes, i \in DOMAIN log, cmd \in Tree.commands :
    (IsTarget(n, log[i].addr) /\ Len(n) <= Scope(log[i].cmd)) =>
      \A t \in Constraints(n, cmd, log[i].cmd) :
        /\ t.sibling =>
             \A j \in DOMAIN log :
               (i < j /\ log[j].cmd = cmd /\ Beside(n, log[j]))
                 => log[j].age - log[i].age >= t.latency
        /\ ~t.sibling =>
             \A p \in [1 .. t.window -> DOMAIN log] :
               (i < p[1] /\ Picks(p, log, n, cmd, t.window))
                 => log[p[t.window]].age - log[i].age >= t.latency

(* What makes it inductive: a history is at least as recent as the issues   *)
(* that are in the log, and what a later command has to wait covers every   *)
(* constraint on it.                                                        *)
HistoriesCover ==
  \A n \in Tree.nodes, cmd \in Tree.commands : \A w \in 1 .. Tree.window[n][cmd] :
    \A p \in [1 .. w -> DOMAIN log] :
      Picks(p, log, n, cmd, w) =>
        (w <= Len(m_cmd_history[n][cmd]) /\ m_cmd_history[n][cmd][w] <= log[p[w]].age)

WaitsCover ==
  \A n \in Tree.nodes, cmd, f \in Tree.commands : \A t \in Constraints(n, cmd, f) :
    /\ t.sibling =>
         \A j \in DOMAIN log :
           (log[j].cmd = cmd /\ Beside(n, log[j]))
             => m_cmd_ready_clk[n][f] >= t.latency - log[j].age
    /\ ~t.sibling =>
         \A p \in [1 .. t.window -> DOMAIN log] :
           Picks(p, log, n, cmd, t.window)
             => m_cmd_ready_clk[n][f] >= t.latency - log[p[t.window]].age

LogAges ==
  /\ \A i \in DOMAIN log : log[i].age <= MaxAge
  /\ \A i, j \in DOMAIN log : i < j => log[i].age < log[j].age

Clocks ==
  /\ m_cmd_ready_clk \in [Tree.nodes -> [Tree.commands -> Nat]]
  /\ m_cmd_history \in [Tree.nodes -> [Tree.commands -> Seq(Nat)]]

TimingInv ==
  /\ LogInv
  /\ LogAges
  /\ Clocks
  /\ HistoriesCover
  /\ WaitsCover
  /\ ConstraintsKept

(* What the properties say of the next state; the device stays the same.    *)
LEMMA SameDevice ==
  ASSUME device' = device
  PROVE  S' = S /\ Tree' = Tree /\ MaxAge' = MaxAge
BY DEF S, Tree, MaxAge

LEMMA NextLogAges ==
  ASSUME device' = device
  PROVE  LogAges' <=>
           /\ \A i \in DOMAIN log' : log'[i].age <= MaxAge
           /\ \A i, j \in DOMAIN log' : i < j => log'[i].age < log'[j].age
BY SameDevice DEF LogAges

LEMMA NextClocks ==
  ASSUME device' = device
  PROVE  Clocks' <=>
           /\ m_cmd_ready_clk' \in [Tree.nodes -> [Tree.commands -> Nat]]
           /\ m_cmd_history' \in [Tree.nodes -> [Tree.commands -> Seq(Nat)]]
BY SameDevice DEF Clocks

LEMMA NextHistories ==
  ASSUME device' = device
  PROVE  HistoriesCover' <=>
           \A n \in Tree.nodes, cmd \in Tree.commands : \A w \in 1 .. Tree.window[n][cmd] :
             \A p \in [1 .. w -> DOMAIN log'] :
               Picks(p, log', n, cmd, w) =>
                 (w <= Len(m_cmd_history'[n][cmd]) /\ m_cmd_history'[n][cmd][w] <= log'[p[w]].age)
BY SameDevice, SMTT(60) DEF HistoriesCover, Picks, Hit, SameBankActions

LEMMA NextWaits ==
  ASSUME device' = device
  PROVE  WaitsCover' <=>
           \A n \in Tree.nodes, cmd, f \in Tree.commands : \A t \in Constraints(n, cmd, f) :
             /\ t.sibling =>
                  \A j \in DOMAIN log' :
                    (log'[j].cmd = cmd /\ Beside(n, log'[j]))
                      => m_cmd_ready_clk'[n][f] >= t.latency - log'[j].age
             /\ ~t.sibling =>
                  \A p \in [1 .. t.window -> DOMAIN log'] :
                    Picks(p, log', n, cmd, t.window)
                      => m_cmd_ready_clk'[n][f] >= t.latency - log'[p[t.window]].age
BY SameDevice, SMTT(60) DEF WaitsCover, Picks, Hit, SameBankActions, Beside, Constraints

LEMMA NextKept ==
  ASSUME device' = device
  PROVE  ConstraintsKept' <=>
           \A n \in Tree.nodes, i \in DOMAIN log', cmd \in Tree.commands :
             (IsTarget(n, log'[i].addr) /\ Len(n) <= Scope(log'[i].cmd)) =>
               \A t \in Constraints(n, cmd, log'[i].cmd) :
                 /\ t.sibling =>
                      \A j \in DOMAIN log' :
                        (i < j /\ log'[j].cmd = cmd /\ Beside(n, log'[j]))
                          => log'[j].age - log'[i].age >= t.latency
                 /\ ~t.sibling =>
                      \A p \in [1 .. t.window -> DOMAIN log'] :
                        (i < p[1] /\ Picks(p, log', n, cmd, t.window))
                          => log'[p[t.window]].age - log'[i].age >= t.latency
BY SameDevice, SMTT(60) DEF ConstraintsKept, Picks, Hit, SameBankActions, Beside, Constraints, Scope

(* The longest wait is as long as each of them.                             *)
LEMMA LongerFacts ==
  ASSUME NEW wait \in Nat, NEW waits \in SUBSET Int, NEW bound \in Nat,
         \A x \in waits : x <= bound
  PROVE  /\ Longer(wait, waits) \in Nat
         /\ Longer(wait, waits) >= wait
         /\ \A x \in waits : Longer(wait, waits) >= x
         /\ wait <= bound => Longer(wait, waits) <= bound
<1>1. CASE waits = {}
  BY <1>1 DEF Longer
<1>2. CASE waits # {}
  <2> DEFINE all == waits \cup {wait}
             top == bound + wait
  <2>1. all \in SUBSET Int /\ all # {} /\ top \in Int /\ \A x \in all : x <= top
    OBVIOUS
  <2>2. Max(all) \in all /\ \A x \in all : x <= Max(all)
    <3> HIDE DEF all, top
    <3> QED BY <2>1, BoundedMax
  <2>3. Longer(wait, waits) = Max(all)
    BY <1>2 DEF Longer
  <2>4. wait \in all /\ \A x \in waits : x \in all
    OBVIOUS
  <2>5. Max(all) \in Int /\ \A x \in all : x <= Max(all)
    BY <2>1, <2>2
  <2>6. wait <= bound => \A x \in all : x <= bound
    OBVIOUS
  <2> HIDE DEF all, top
  <2> QED BY <2>2, <2>3, <2>4, <2>5, <2>6
<1> QED BY <1>1, <1>2

(* A new issue comes first in the history.                                  *)
LEMMA NewHistoryFacts ==
  ASSUME IsDevice, Clocks, NEW n \in Tree.nodes, NEW cmd \in Tree.commands
  PROVE  LET old == m_cmd_history[n][cmd]
             new == NewHistory(n, cmd)
             w   == Tree.window[n][cmd]
         IN  /\ new \in Seq(Nat) /\ old \in Seq(Nat)
             /\ Len(new) = IF Len(old) < w THEN Len(old) + 1 ELSE w
             /\ \A k \in 1 .. Len(new) : new[k] = IF k = 1 THEN 0 ELSE old[k - 1]
<1> DEFINE old == m_cmd_history[n][cmd]
           new == NewHistory(n, cmd)
           w   == Tree.window[n][cmd]
           h   == <<0>> \o old
<1> SUFFICES /\ new \in Seq(Nat) /\ old \in Seq(Nat)
             /\ Len(new) = IF Len(old) < w THEN Len(old) + 1 ELSE w
             /\ \A k \in 1 .. Len(new) : new[k] = IF k = 1 THEN 0 ELSE old[k - 1]
  OBVIOUS
<1>1. old \in Seq(Nat) /\ w \in 0 .. 4
  BY ConstraintFacts DEF Clocks
<1>2. new = IF Len(h) <= w THEN h ELSE SubSeq(h, 1, w)
  BY DEF NewHistory
<1> HIDE DEF old, new, w
<1>3. <<0>> \in Seq(Nat) /\ Len(<<0>>) = 1 /\ <<0>>[1] = 0
  OBVIOUS
<1>4. /\ h \in Seq(Nat) /\ Len(h) = 1 + Len(old) /\ Len(old) \in Nat
      /\ \A i \in 1 .. 1 + Len(old) : h[i] = IF i <= 1 THEN <<0>>[i] ELSE old[i - 1]
  BY <1>1, <1>3, ConcatProperties
<1> HIDE DEF h
<1>5. \A i \in 1 .. 1 + Len(old) : h[i] \in Nat /\ h[i] = IF i = 1 THEN 0 ELSE old[i - 1]
  BY <1>3, <1>4
<1>6. CASE Len(h) <= w
  BY <1>1, <1>2, <1>4, <1>5, <1>6, SMTT(30)
<1>7. CASE Len(h) > w
  <2>1. new = SubSeq(h, 1, w)
    BY <1>1, <1>2, <1>4, <1>7
  <2>2. /\ new \in Seq(Nat)
        /\ Len(new) = IF 1 <= w THEN w - 1 + 1 ELSE 0
        /\ \A i \in 1 .. w - 1 + 1 : new[i] = h[1 + i - 1]
    <3>1. \A i \in 1 .. w : h[i] \in Nat
      BY <1>1, <1>4, <1>5, <1>7
    <3> QED BY <1>1, <2>1, <3>1, SubSeqProperties
  <2>3. Len(new) = w /\ \A i \in 1 .. w : new[i] = h[i]
    BY <1>1, <2>2
  <2> QED BY <1>1, <1>4, <1>5, <1>7, <2>2, <2>3, SMTT(30)
<1> QED BY <1>1, <1>4, <1>6, <1>7

(* A cycle later a history is a cycle older.                                *)
LEMMA OlderFacts ==
  ASSUME NEW h \in Seq(Nat)
  PROVE  LET new == Older(h)
         IN  /\ new \in Seq(Nat)
             /\ \A k \in DOMAIN new : k \in DOMAIN h /\ new[k] = h[k] + 1
             /\ \/ Len(new) = Len(h) /\ (Len(h) > 0 => ~(h[Len(h)] + 1 > MaxAge))
                \/ Len(new) = Len(h) - 1 /\ Len(h) > 0 /\ h[Len(h)] + 1 > MaxAge
<1> DEFINE l == [i \in DOMAIN h |-> h[i] + 1]
           new == Older(h)
<1> SUFFICES /\ new \in Seq(Nat)
             /\ \A k \in DOMAIN new : k \in DOMAIN h /\ new[k] = h[k] + 1
             /\ \/ Len(new) = Len(h) /\ (Len(h) > 0 => ~(h[Len(h)] + 1 > MaxAge))
                \/ Len(new) = Len(h) - 1 /\ Len(h) > 0 /\ h[Len(h)] + 1 > MaxAge
  OBVIOUS
<1>1. Len(h) \in Nat /\ DOMAIN h = 1 .. Len(h) /\ \A i \in DOMAIN h : h[i] \in Nat
  OBVIOUS
<1>2. /\ l \in Seq(Nat) /\ Len(l) = Len(h) /\ DOMAIN l = 1 .. Len(h)
      /\ \A i \in DOMAIN h : l[i] = h[i] + 1
  <2>1. l \in [1 .. Len(h) -> Nat] /\ \A i \in DOMAIN h : l[i] = h[i] + 1
    BY <1>1
  <2> HIDE DEF l
  <2> QED BY <1>1, <2>1, SMTT(30)
<1>3. \/ new = l /\ ~(l # <<>> /\ Last(l) > MaxAge)
      \/ l # <<>> /\ Last(l) > MaxAge /\ new = Front(l)
  BY DEF Older
<1> HIDE DEF l, new
<1>4. CASE new = l /\ ~(l # <<>> /\ Last(l) > MaxAge)
  <2>1. Len(h) > 0 => ~(h[Len(h)] + 1 > MaxAge)
    <3>1. ASSUME Len(h) > 0
          PROVE  l # <<>> /\ Last(l) = h[Len(h)] + 1
      BY <1>1, <1>2, <3>1 DEF Last
    <3> QED BY <1>4, <3>1
  <2> QED BY <1>1, <1>2, <1>4, <2>1
<1>5. CASE l # <<>> /\ Last(l) > MaxAge /\ new = Front(l)
  <2>1. /\ new \in Seq(Nat) /\ Len(new) = Len(l) - 1 /\ DOMAIN new = 1 .. (Len(l) - 1)
        /\ \A i \in 1 .. (Len(l) - 1) : new[i] = l[i]
    BY <1>2, <1>5, SubSeqProperties, SMTT(60) DEF Front
  <2>2. Len(h) > 0 /\ Last(l) = h[Len(h)] + 1
    BY <1>1, <1>2, <1>5 DEF Last
  <2>3. h[Len(h)] + 1 > MaxAge
    BY <1>5, <2>2
  <2>4. Len(new) = Len(h) - 1 /\ Len(h) > 0
    BY <1>2, <2>1, <2>2
  <2>5. ASSUME NEW k \in DOMAIN new
        PROVE  k \in DOMAIN h /\ new[k] = h[k] + 1
    <3>1. k \in 1 .. (Len(l) - 1) /\ Len(l) = Len(h) /\ Len(h) \in Nat
      BY <1>1, <1>2, <2>1
    <3>2. k \in DOMAIN h
      BY <1>1, <3>1
    <3> QED BY <1>2, <2>1, <3>1, <3>2
  <2> HIDE DEF Older
  <2> QED BY <2>1, <2>3, <2>4, <2>5, Zenon
<1> QED BY <1>3, <1>4, <1>5

(* What update_timing does in a node: e is the command that is issued.      *)
LEMMA UpdateFacts ==
  ASSUME IsDevice, Clocks, NEW cmd \in Tree.commands, NEW addr, update_timing(cmd, addr),
         NEW e, e.cmd = cmd, e.addr = addr, NEW n \in Tree.nodes
  PROVE  /\ Hit(n, e) => m_cmd_history'[n] = [m_cmd_history[n] EXCEPT ![cmd] = NewHistory(n, cmd)]
         /\ ~Hit(n, e) => m_cmd_history'[n] = m_cmd_history[n]
         /\ m_cmd_ready_clk'[n] \in [Tree.commands -> Nat]
         /\ \A f \in Tree.commands :
              /\ m_cmd_ready_clk'[n][f] \in Nat
              /\ m_cmd_ready_clk'[n][f] >= m_cmd_ready_clk[n][f]
              /\ m_cmd_ready_clk[n][f] <= MaxAge => m_cmd_ready_clk'[n][f] <= MaxAge
              /\ \A t \in Constraints(n, cmd, f) :
                   /\ (Beside(n, e) /\ t.sibling) => m_cmd_ready_clk'[n][f] >= t.latency
                   /\ (Hit(n, e) /\ ~t.sibling /\ t.window <= Len(NewHistory(n, cmd))) =>
                        m_cmd_ready_clk'[n][f] >= t.latency - NewHistory(n, cmd)[t.window]
<1> DEFINE h == NewHistory(n, cmd)
           Target == IsTarget(n, addr) \/ n \in SameBankActions(cmd, addr)
<1>1. /\ Hit(n, e) <=> Target
      /\ Beside(n, e) <=> (IsSibling(n, addr) /\ ~Target)
  BY DEF Hit, Beside
<1>2. /\ m_cmd_history'[n] = IF Target THEN [m_cmd_history[n] EXCEPT ![cmd] = h]
                                       ELSE m_cmd_history[n]
      /\ m_cmd_ready_clk'[n] =
           CASE Target -> [f \in Tree.commands |-> TargetWait(n, cmd, f, h)]
             [] IsSibling(n, addr) /\ ~Target -> [f \in Tree.commands |-> SiblingWait(n, cmd, f)]
             [] OTHER -> m_cmd_ready_clk[n]
  BY DEF update_timing
<1>3. m_cmd_ready_clk[n] \in [Tree.commands -> Nat]
  BY DEF Clocks
<1>4. h \in Seq(Nat)
  BY NewHistoryFacts
<1>5. /\ MaxAge \in Nat
      /\ \A f \in Tree.commands : \A t \in Constraints(n, cmd, f) :
           t.latency \in 0 .. MaxAge /\ t.window \in 1 .. Tree.window[n][cmd] /\ t.window \in Nat
  BY ConstraintFacts
<1> HIDE DEF h, Target
<1>6. ASSUME NEW f \in Tree.commands
      PROVE  /\ TargetWait(n, cmd, f, h) \in Nat
             /\ TargetWait(n, cmd, f, h) >= m_cmd_ready_clk[n][f]
             /\ m_cmd_ready_clk[n][f] <= MaxAge => TargetWait(n, cmd, f, h) <= MaxAge
             /\ \A t \in Constraints(n, cmd, f) :
                  (~t.sibling /\ t.window <= Len(h))
                    => TargetWait(n, cmd, f, h) >= t.latency - h[t.window]
  <2> DEFINE waits == {t.latency - h[t.window] :
                         t \in {c \in Constraints(n, cmd, f) : ~c.sibling /\ c.window <= Len(h)}}
             wait == m_cmd_ready_clk[n][f]
  <2>1. TargetWait(n, cmd, f, h) = Longer(wait, waits)
    BY DEF TargetWait
  <2>2. wait \in Nat
    BY <1>3
  <2>3. ASSUME NEW t \in Constraints(n, cmd, f), t.window <= Len(h)
        PROVE  t.latency - h[t.window] \in Int /\ t.latency - h[t.window] <= MaxAge
    <3>1. t.window >= 1 /\ t.window \in Nat /\ t.latency \in 0 .. MaxAge
      BY <1>5
    <3>2. h[t.window] \in Nat
      BY <1>4, <2>3, <3>1
    <3> QED BY <1>5, <3>1, <3>2
  <2>4. waits \in SUBSET Int /\ \A x \in waits : x <= MaxAge
    BY <2>3
  <2>5. \A t \in Constraints(n, cmd, f) :
          (~t.sibling /\ t.window <= Len(h)) => t.latency - h[t.window] \in waits
    OBVIOUS
  <2> HIDE DEF waits, wait
  <2>6. /\ Longer(wait, waits) \in Nat /\ Longer(wait, waits) >= wait
        /\ \A x \in waits : Longer(wait, waits) >= x
        /\ wait <= MaxAge => Longer(wait, waits) <= MaxAge
    BY <1>5, <2>2, <2>4, LongerFacts
  <2>7. wait = m_cmd_ready_clk[n][f]
    BY DEF wait
  <2> QED BY <2>1, <2>5, <2>6, <2>7
<1>7. ASSUME NEW f \in Tree.commands
      PROVE  /\ SiblingWait(n, cmd, f) \in Nat
             /\ SiblingWait(n, cmd, f) >= m_cmd_ready_clk[n][f]
             /\ m_cmd_ready_clk[n][f] <= MaxAge => SiblingWait(n, cmd, f) <= MaxAge
             /\ \A t \in Constraints(n, cmd, f) :
                  t.sibling => SiblingWait(n, cmd, f) >= t.latency
  <2> DEFINE waits == {t.latency : t \in {c \in Constraints(n, cmd, f) : c.sibling}}
             wait == m_cmd_ready_clk[n][f]
  <2>1. SiblingWait(n, cmd, f) = Longer(wait, waits)
    BY DEF SiblingWait
  <2>2. wait \in Nat
    BY <1>3
  <2>3. waits \in SUBSET Int /\ \A x \in waits : x <= MaxAge
    BY <1>5
  <2>4. \A t \in Constraints(n, cmd, f) : t.sibling => t.latency \in waits
    OBVIOUS
  <2> HIDE DEF waits, wait
  <2>5. /\ Longer(wait, waits) \in Nat /\ Longer(wait, waits) >= wait
        /\ \A x \in waits : Longer(wait, waits) >= x
        /\ wait <= MaxAge => Longer(wait, waits) <= MaxAge
    BY <1>5, <2>2, <2>3, LongerFacts
  <2>6. wait = m_cmd_ready_clk[n][f]
    BY DEF wait
  <2> QED BY <2>1, <2>4, <2>5, <2>6
<1>8. CASE Target
  <2>1. m_cmd_ready_clk'[n] = [f \in Tree.commands |-> TargetWait(n, cmd, f, h)]
    BY <1>2, <1>8
  <2> QED BY <1>1, <1>2, <1>6, <1>8, <2>1 DEF h
<1>9. CASE IsSibling(n, addr) /\ ~Target
  <2>1. m_cmd_ready_clk'[n] = [f \in Tree.commands |-> SiblingWait(n, cmd, f)]
    BY <1>2, <1>9
  <2> QED BY <1>1, <1>2, <1>7, <1>9, <2>1
<1>10. CASE ~IsSibling(n, addr) /\ ~Target
  <2>1. m_cmd_ready_clk'[n] = m_cmd_ready_clk[n]
    BY <1>2, <1>10
  <2> QED BY <1>1, <1>2, <1>3, <1>10, <2>1
<1> QED BY <1>8, <1>9, <1>10

LEMMA ClocksIssue ==
  ASSUME IsDevice, Clocks, NEW cmd \in Tree.commands, NEW addr, update_timing(cmd, addr),
         device' = device
  PROVE  Clocks'
<1> DEFINE e == [cmd |-> cmd, addr |-> addr]
<1>1. e.cmd = cmd /\ e.addr = addr
  OBVIOUS
<1> HIDE DEF e
<1>2. DOMAIN m_cmd_history' = Tree.nodes /\ DOMAIN m_cmd_ready_clk' = Tree.nodes
  BY DEF update_timing
<1>3. m_cmd_history' = [n \in Tree.nodes |-> m_cmd_history'[n]]
  BY DEF update_timing
<1>4. m_cmd_ready_clk' = [n \in Tree.nodes |-> m_cmd_ready_clk'[n]]
  BY DEF update_timing
<1>5. ASSUME NEW n \in Tree.nodes
      PROVE  /\ m_cmd_history'[n] \in [Tree.commands -> Seq(Nat)]
             /\ m_cmd_ready_clk'[n] \in [Tree.commands -> Nat]
  <2>1. /\ m_cmd_history[n] \in [Tree.commands -> Seq(Nat)]
        /\ NewHistory(n, cmd) \in Seq(Nat)
    BY NewHistoryFacts DEF Clocks
  <2>2. m_cmd_history'[n] \in {m_cmd_history[n],
                               [m_cmd_history[n] EXCEPT ![cmd] = NewHistory(n, cmd)]}
    BY <1>1, UpdateFacts
  <2>3. m_cmd_history'[n] \in [Tree.commands -> Seq(Nat)]
    BY <2>1, <2>2
  <2>4. m_cmd_ready_clk'[n] \in [Tree.commands -> Nat]
    BY <1>1, UpdateFacts
  <2> QED BY <2>3, <2>4
<1> QED BY <1>3, <1>4, <1>5, NextClocks

(* Issues that were picked from the log l with a new first entry are issues *)
(* of the log m before it, but for that entry.                              *)
LEMMA PicksBefore ==
  ASSUME NEW m, NEW l, NEW len \in Nat, DOMAIN m = 1 .. len, DOMAIN l = 1 .. (len + 1),
         \A i \in 2 .. (len + 1) : l[i] = m[i - 1],
         \A i \in DOMAIN m : m[i].age \in Nat,
         \A i, j \in DOMAIN m : i < j => m[i].age < m[j].age,
         NEW n, NEW cmd, NEW w \in Nat \ {0}, NEW p \in [1 .. w -> DOMAIN l],
         Picks(p, l, n, cmd, w)
  PROVE  /\ p[1] > 1 =>
              \E q \in [1 .. w -> DOMAIN m] :
                Picks(q, m, n, cmd, w) /\ q[1] = p[1] - 1 /\ m[q[w]] = l[p[w]]
         /\ w > 1 =>
              \E q \in [1 .. (w - 1) -> DOMAIN m] :
                Picks(q, m, n, cmd, w - 1) /\ m[q[w - 1]].age <= l[p[w]].age
<1>1. /\ \A a \in 1 .. w : p[a] \in 1 .. (len + 1)
      /\ \A a, b \in 1 .. w : a < b => p[a] < p[b]
      /\ \A a \in 1 .. w : l[p[a]].cmd = cmd /\ Hit(n, l[p[a]])
  BY DEF Picks
<1>2. ASSUME NEW a \in 1 .. w, p[a] > 1
      PROVE  p[a] - 1 \in DOMAIN m /\ m[p[a] - 1] = l[p[a]]
  BY <1>1, <1>2
<1>3. 1 \in 1 .. w /\ w \in 1 .. w
  OBVIOUS
<1>4. ASSUME p[1] > 1
      PROVE  \E q \in [1 .. w -> DOMAIN m] :
               Picks(q, m, n, cmd, w) /\ q[1] = p[1] - 1 /\ m[q[w]] = l[p[w]]
  <2>1. \A a \in 1 .. w : p[a] > 1
    BY <1>1, <1>3, <1>4
  <2> DEFINE q == [a \in 1 .. w |-> p[a] - 1]
  <2>2. \A a \in 1 .. w : q[a] = p[a] - 1 /\ q[a] \in DOMAIN m /\ m[q[a]] = l[p[a]]
    BY <1>2, <2>1
  <2>3. q \in [1 .. w -> DOMAIN m]
    BY <2>2
  <2> HIDE DEF q
  <2>4. Picks(q, m, n, cmd, w)
    <3>1. \A a, b \in 1 .. w : a < b => q[a] < q[b]
      BY <1>1, <2>2
    <3> QED BY <1>1, <2>2, <3>1 DEF Picks
  <2> QED BY <1>3, <2>2, <2>3, <2>4
<1>5. ASSUME w > 1
      PROVE  \E q \in [1 .. (w - 1) -> DOMAIN m] :
               Picks(q, m, n, cmd, w - 1) /\ m[q[w - 1]].age <= l[p[w]].age
  <2> DEFINE v == w - 1
  <2>1. v \in 1 .. w /\ v + 1 = w /\ v \in Nat /\ \A a \in 1 .. v : a \in 1 .. w /\ a + 1 \in 1 .. w
    BY <1>5
  <2> SUFFICES \E q \in [1 .. v -> DOMAIN m] :
                 Picks(q, m, n, cmd, v) /\ m[q[v]].age <= l[p[w]].age
    OBVIOUS
  <2> HIDE DEF v
  <2>2. p[w] > 1
    BY <1>1, <1>3, <1>5
  <2>3. CASE p[1] > 1
    <3>1. \A a \in 1 .. w : p[a] > 1
      BY <1>1, <1>3, <2>3
    <3> DEFINE q == [a \in 1 .. v |-> p[a] - 1]
    <3>2. \A a \in 1 .. v : q[a] = p[a] - 1 /\ q[a] \in DOMAIN m /\ m[q[a]] = l[p[a]]
      BY <1>2, <2>1, <3>1
    <3>3. q \in [1 .. v -> DOMAIN m]
      BY <3>2
    <3> HIDE DEF q
    <3>4. \A a, b \in 1 .. v : a < b => q[a] < q[b]
      BY <1>1, <2>1, <3>2
    <3>5. Picks(q, m, n, cmd, v)
      BY <1>1, <2>1, <3>2, <3>4 DEF Picks
    <3>6. m[q[v]].age <= l[p[w]].age
      <4>1. v \in 1 .. v /\ v < w
        BY <2>1
      <4>2. q[v] = p[v] - 1 /\ q[v] \in DOMAIN m /\ p[v] < p[w]
        BY <1>1, <1>3, <2>1, <3>2, <4>1
      <4>3. p[w] - 1 \in DOMAIN m /\ m[p[w] - 1] = l[p[w]] /\ q[v] < p[w] - 1
        BY <1>1, <1>2, <1>3, <2>1, <2>2, <4>2
      <4> QED BY <4>2, <4>3, SMTT(30)
    <3> QED BY <3>3, <3>5, <3>6
  <2>4. CASE p[1] = 1
    <3>1. ASSUME NEW a \in 1 .. v
          PROVE  p[a + 1] > 1
      <4>1. 1 < a + 1 /\ a + 1 \in 1 .. w
        BY <2>1
      <4>2. p[1] < p[a + 1]
        BY <1>1, <1>3, <4>1
      <4> QED BY <2>4, <4>2
    <3> DEFINE q == [a \in 1 .. v |-> p[a + 1] - 1]
    <3>2. \A a \in 1 .. v : q[a] = p[a + 1] - 1 /\ q[a] \in DOMAIN m /\ m[q[a]] = l[p[a + 1]]
      BY <1>2, <2>1, <3>1
    <3>3. q \in [1 .. v -> DOMAIN m]
      BY <3>2
    <3> HIDE DEF q
    <3>4. ASSUME NEW a \in 1 .. v, NEW b \in 1 .. v, a < b
          PROVE  q[a] < q[b]
      <4>1. p[a + 1] < p[b + 1]
        <5>1. a + 1 \in 1 .. w /\ b + 1 \in 1 .. w /\ a + 1 < b + 1
          BY <2>1, <3>4
        <5> QED BY <1>1, <5>1
      <4>2. p[a + 1] \in Nat /\ p[b + 1] \in Nat
        BY <1>1, <2>1
      <4>3. q[a] = p[a + 1] - 1 /\ q[b] = p[b + 1] - 1
        BY <3>2
      <4> QED BY <4>1, <4>2, <4>3, SMTT(30)
    <3>5. Picks(q, m, n, cmd, v)
      <4>1. ASSUME NEW a \in 1 .. v
            PROVE  m[q[a]].cmd = cmd /\ Hit(n, m[q[a]])
        <5>1. a + 1 \in 1 .. w /\ m[q[a]] = l[p[a + 1]]
          BY <2>1, <3>2
        <5>2. l[p[a + 1]].cmd = cmd /\ Hit(n, l[p[a + 1]])
          BY <1>1, <5>1
        <5> QED BY <5>1, <5>2
      <4> QED BY <3>4, <4>1 DEF Picks
    <3>6. m[q[v]] = l[p[w]] /\ q[v] \in DOMAIN m
      <4>1. v \in 1 .. v /\ v + 1 = w
        BY <2>1
      <4> QED BY <3>2, <4>1
    <3>7. m[q[v]].age <= l[p[w]].age
      BY <3>6
    <3> QED BY <3>3, <3>5, <3>7
  <2>5. p[1] \in 1 .. (len + 1)
    BY <1>1, <1>3
  <2> QED BY <2>3, <2>4, <2>5
<1> QED BY <1>4, <1>5

(* What check_ready finds of the nodes down to the command's scope.         *)
LEMMA ReadyFacts ==
  ASSUME IsDevice, NEW final, NEW addr \in Addresses(final), NEW cmd, check_ready(cmd, addr),
         NEW n \in Tree.nodes, IsTarget(n, addr), Len(n) <= Scope(cmd)
  PROVE  m_cmd_ready_clk[n][cmd] = 0
<1> DEFINE L == Len(S.levels)
           reached == {i \in DOMAIN addr : \A j \in 1 .. i : addr[j] >= 0}
           k == Len(n)
<1>1. addr \in [1 .. L -> -1 .. 7] /\ L \in Nat
  BY AddressFacts, BankFacts
<1>2. k \in 1 .. L /\ n \in [1 .. k -> 0 .. 7]
  BY NodeFacts
<1> HIDE DEF L, k
<1>3. \A i \in 1 .. k : n[i] = addr[i]
  BY <1>2 DEF IsTarget
<1>4. \A i \in 1 .. k : addr[i] >= 0
  BY <1>2, <1>3
<1>5. k \in reached
  BY <1>1, <1>2, <1>4
<1>6. reached \in SUBSET Int /\ \A i \in reached : i <= L
  BY <1>1
<1>7. Max(reached) \in Int /\ k <= Max(reached)
  <2> HIDE DEF reached
  <2>1. L \in Int /\ reached # {}
    BY <1>1, <1>5
  <2>2. Max(reached) \in reached /\ \A x \in reached : x <= Max(reached)
    BY <1>6, <2>1, BoundedMax
  <2> QED BY <1>5, <1>6, <2>2
<1>8. k \in 1 .. Depth(addr)
  <2>1. Depth(addr) = Max(reached)
    BY DEF Depth
  <2> HIDE DEF reached
  <2> QED BY <1>2, <1>7, <2>1
<1>9. m_cmd_ready_clk[SubSeq(addr, 1, k)][cmd] = 0
  <2>1. k <= Scope(cmd)
    BY DEF k
  <2> QED BY <1>8, <2>1 DEF check_ready
<1>10. SubSeq(addr, 1, k) = n
  <2>1. /\ SubSeq(addr, 1, k) \in Seq(-1 .. 7) /\ Len(SubSeq(addr, 1, k)) = k
        /\ \A i \in 1 .. k : SubSeq(addr, 1, k)[i] = addr[1 + i - 1]
    BY <1>1, <1>2, SubSeqProperties
  <2>2. n \in Seq(-1 .. 7) /\ Len(n) = k
    <3>1. n \in [1 .. k -> -1 .. 7] /\ k \in Nat
      BY <1>2
    <3> QED BY <3>1
  <2>3. \A i \in 1 .. k : SubSeq(addr, 1, k)[i] = n[i]
    BY <1>1, <1>2, <1>3, <2>1
  <2> QED BY <2>1, <2>2, <2>3, SeqEqual
<1> QED BY <1>9, <1>10

(* An issued command is ready: no constraint on it is pending.              *)
LEMMA TimingIssue ==
  ASSUME TimingInv, NEW request \in S.requested, NEW addr \in Addresses(S.requests[request]),
         NEW row, Issue(request, addr, row)
  PROVE  TimingInv'
<1> DEFINE cmd == get_preq_command(m_row_state, S.requests[request], addr, row)
           e == [cmd |-> cmd, addr |-> addr, age |-> 0]
           len == Len(log)
<1>1. /\ LogInv /\ LogInv' /\ IsDevice /\ device' = device
      /\ len \in Nat /\ DOMAIN log = 1 .. len /\ DOMAIN log' = 1 .. (len + 1)
      /\ log'[1] = e
      /\ \A i \in 2 .. (len + 1) : log'[i] = log[i - 1]
  BY LogIssue DEF TimingInv, LogInv, Issue
<1>2. /\ check_ready(cmd, addr) /\ update_timing(cmd, addr)
      /\ \A f \in ToSet(log) : f.age > 0
  BY DEF Issue, issue_command
<1>3. cmd \in Tree.commands
  BY <1>1, PreqCommands
<1>4. e.cmd = cmd /\ e.addr = addr /\ e.age = 0
  OBVIOUS
<1> HIDE DEF cmd, e, len
<1>5. /\ \A i \in DOMAIN log : log[i].age \in Nat /\ log[i].age > 0
      /\ \A i, j \in DOMAIN log : i < j => log[i].age < log[j].age
      /\ \A i \in DOMAIN log : log[i].age <= MaxAge
  <2>1. \A i \in DOMAIN log : log[i] \in ToSet(log)
    BY DEF ToSet
  <2>2. ASSUME NEW i \in DOMAIN log
        PROVE  log[i].age \in Nat
    <3>1. log[i] \in Entry
      BY <1>1 DEF LogInv
    <3> QED BY <3>1 DEF Entry
  <2> QED BY <1>2, <2>1, <2>2 DEF TimingInv, LogAges
<1>6. LogAges'
  <2>1. MaxAge \in Nat
    BY <1>1, ConstraintFacts
  <2>2. \A i \in DOMAIN log' : log'[i].age <= MaxAge
    BY <1>1, <1>4, <1>5, <2>1, SMTT(30)
  <2>3. ASSUME NEW i \in DOMAIN log', NEW j \in DOMAIN log', i < j
        PROVE  log'[i].age < log'[j].age
    <3>1. j - 1 \in DOMAIN log /\ log'[j] = log[j - 1]
      BY <1>1, <2>3
    <3>2. CASE i = 1
      BY <1>1, <1>4, <1>5, <3>1, <3>2
    <3>3. CASE i # 1
      <4>1. i - 1 \in DOMAIN log /\ log'[i] = log[i - 1] /\ i - 1 < j - 1
        BY <1>1, <2>3, <3>3
      <4> QED BY <1>5, <3>1, <4>1
    <3> QED BY <3>2, <3>3
  <2> QED BY <1>1, <2>2, <2>3, NextLogAges
<1>7. Clocks'
  BY <1>1, <1>2, <1>3, ClocksIssue DEF TimingInv
<1>8. ASSUME NEW n \in Tree.nodes, NEW c, NEW w \in Nat \ {0}, NEW p \in [1 .. w -> DOMAIN log'],
             Picks(p, log', n, c, w)
      PROVE  /\ p[1] > 1 =>
                  \E q \in [1 .. w -> DOMAIN log] :
                    Picks(q, log, n, c, w) /\ q[1] = p[1] - 1 /\ log[q[w]] = log'[p[w]]
             /\ w > 1 =>
                  \E q \in [1 .. (w - 1) -> DOMAIN log] :
                    Picks(q, log, n, c, w - 1) /\ log[q[w - 1]].age <= log'[p[w]].age
             /\ p[1] > 1 \/ (p[1] = 1 /\ c = cmd /\ Hit(n, e))
             /\ log'[p[w]].age \in Nat
  <2> DEFINE l == log'
  <2>1. /\ len \in Nat /\ DOMAIN log = 1 .. len /\ DOMAIN l = 1 .. (len + 1)
        /\ \A i \in 2 .. (len + 1) : l[i] = log[i - 1]
        /\ \A i \in DOMAIN log : log[i].age \in Nat
        /\ \A i, j \in DOMAIN log : i < j => log[i].age < log[j].age
        /\ p \in [1 .. w -> DOMAIN l] /\ Picks(p, l, n, c, w) /\ l[1] = e
    BY <1>1, <1>5, <1>8
  <2>2. 1 \in 1 .. w /\ w \in 1 .. w
    OBVIOUS
  <2> HIDE DEF l
  <2>3. /\ p[1] > 1 =>
             \E q \in [1 .. w -> DOMAIN log] :
               Picks(q, log, n, c, w) /\ q[1] = p[1] - 1 /\ log[q[w]] = l[p[w]]
        /\ w > 1 =>
             \E q \in [1 .. (w - 1) -> DOMAIN log] :
               Picks(q, log, n, c, w - 1) /\ log[q[w - 1]].age <= l[p[w]].age
    BY <2>1, PicksBefore
  <2>4. p[1] > 1 \/ (p[1] = 1 /\ c = cmd /\ Hit(n, e))
    <3>1. l[p[1]].cmd = c /\ Hit(n, l[p[1]]) /\ p[1] \in 1 .. (len + 1)
      BY <2>1, <2>2 DEF Picks
    <3> QED BY <1>4, <2>1, <3>1
  <2>5. l[p[w]].age \in Nat
    <3>1. p[w] \in 1 .. (len + 1)
      BY <2>1, <2>2
    <3> QED BY <1>4, <2>1, <3>1
  <2> QED BY <2>3, <2>4, <2>5 DEF l
<1>9. ASSUME NEW n \in Tree.nodes
      PROVE  /\ Hit(n, e) => m_cmd_history'[n] = [m_cmd_history[n] EXCEPT ![cmd] = NewHistory(n, cmd)]
             /\ ~Hit(n, e) => m_cmd_history'[n] = m_cmd_history[n]
             /\ \A f \in Tree.commands :
                  /\ m_cmd_ready_clk'[n][f] \in Nat
                  /\ m_cmd_ready_clk'[n][f] >= m_cmd_ready_clk[n][f]
                  /\ \A t \in Constraints(n, cmd, f) :
                       /\ (Beside(n, e) /\ t.sibling) => m_cmd_ready_clk'[n][f] >= t.latency
                       /\ (Hit(n, e) /\ ~t.sibling /\ t.window <= Len(NewHistory(n, cmd))) =>
                            m_cmd_ready_clk'[n][f] >= t.latency - NewHistory(n, cmd)[t.window]
  <2>1. /\ IsDevice /\ Clocks /\ cmd \in Tree.commands /\ update_timing(cmd, addr)
        /\ e.cmd = cmd /\ e.addr = addr
    BY <1>1, <1>2, <1>3, <1>4 DEF TimingInv
  <2>2. /\ Hit(n, e) => m_cmd_history'[n] = [m_cmd_history[n] EXCEPT ![cmd] = NewHistory(n, cmd)]
        /\ ~Hit(n, e) => m_cmd_history'[n] = m_cmd_history[n]
    BY <2>1, UpdateFacts
  <2>3. ASSUME NEW f \in Tree.commands
        PROVE  /\ m_cmd_ready_clk'[n][f] \in Nat
               /\ m_cmd_ready_clk'[n][f] >= m_cmd_ready_clk[n][f]
    BY <2>1, UpdateFacts
  <2>4. ASSUME NEW f \in Tree.commands, NEW t \in Constraints(n, cmd, f)
        PROVE  /\ (Beside(n, e) /\ t.sibling) => m_cmd_ready_clk'[n][f] >= t.latency
               /\ (Hit(n, e) /\ ~t.sibling /\ t.window <= Len(NewHistory(n, cmd))) =>
                    m_cmd_ready_clk'[n][f] >= t.latency - NewHistory(n, cmd)[t.window]
    BY <2>1, UpdateFacts, Zenon
  <2> QED BY <2>2, <2>3, <2>4
<1>10. ASSUME NEW n \in Tree.nodes, NEW c \in Tree.commands, NEW w \in 1 .. Tree.window[n][c],
              NEW p \in [1 .. w -> DOMAIN log'], Picks(p, log', n, c, w)
       PROVE  w <= Len(m_cmd_history'[n][c]) /\ m_cmd_history'[n][c][w] <= log'[p[w]].age
  <2> DEFINE old == m_cmd_history[n][c]
             new == m_cmd_history'[n][c]
             win == Tree.window[n][c]
  <2>1. win \in 0 .. 4 /\ w \in Nat \ {0} /\ w \in 1 .. win
    BY <1>1, ConstraintFacts
  <2>2. /\ w <= win
        /\ \A v \in 1 .. win : \A q \in [1 .. v -> DOMAIN log] :
             Picks(q, log, n, c, v) => v <= Len(old) /\ old[v] <= log[q[v]].age
    BY <2>1 DEF TimingInv, HistoriesCover
  <2>3. old \in Seq(Nat) /\ m_cmd_history[n] \in [Tree.commands -> Seq(Nat)]
    BY DEF TimingInv, Clocks
  <2>4. CASE c = cmd /\ Hit(n, e)
    <3>1. new = NewHistory(n, cmd)
      BY <1>9, <2>3, <2>4
    <3>2. /\ new \in Seq(Nat)
          /\ Len(new) = IF Len(old) < win THEN Len(old) + 1 ELSE win
          /\ \A k \in 1 .. Len(new) : new[k] = IF k = 1 THEN 0 ELSE old[k - 1]
      <4>1. IsDevice /\ Clocks /\ c \in Tree.commands
        BY <1>1 DEF TimingInv
      <4>2. LET h == NewHistory(n, c)
            IN  /\ h \in Seq(Nat)
                /\ Len(h) = IF Len(old) < win THEN Len(old) + 1 ELSE win
                /\ \A k \in 1 .. Len(h) : h[k] = IF k = 1 THEN 0 ELSE old[k - 1]
        BY <4>1, NewHistoryFacts
      <4>3. new = NewHistory(n, c)
        BY <2>4, <3>1
      <4> HIDE DEF new, old, win
      <4> QED BY <4>2, <4>3
    <3>3. log'[p[w]].age \in Nat
      BY <1>8, <1>10, <2>1
    <3> HIDE DEF new, old, win
    <3>4. CASE w = 1
      <4>1. Len(old) \in Nat /\ win \in Nat /\ win >= 1
        BY <2>1, <2>3, <3>4
      <4>2. Len(new) >= 1 /\ 1 \in 1 .. Len(new)
        BY <3>2, <4>1
      <4>3. new[1] = 0
        BY <3>2, <4>2
      <4> QED BY <3>3, <3>4, <4>2, <4>3 DEF new
    <3>5. CASE w > 1
      <4>1. PICK q \in [1 .. (w - 1) -> DOMAIN log] :
              Picks(q, log, n, c, w - 1) /\ log[q[w - 1]].age <= log'[p[w]].age
        BY <1>8, <1>10, <2>1, <3>5
      <4>2. w - 1 \in 1 .. win /\ q[w - 1] \in DOMAIN log
        BY <2>1, <3>5
      <4>3. w - 1 <= Len(old) /\ old[w - 1] <= log[q[w - 1]].age
        BY <2>2, <4>1, <4>2
      <4>4. w <= Len(new) /\ new[w] = old[w - 1] /\ old[w - 1] \in Nat
        <5>1. Len(old) \in Nat /\ w - 1 \in 1 .. Len(old) /\ w \in Nat /\ w <= win /\ win \in Nat
          BY <2>1, <2>3, <3>5, <4>2, <4>3
        <5>2. w <= Len(new) /\ w \in 1 .. Len(new)
          BY <3>2, <3>5, <5>1
        <5>3. old[w - 1] \in Nat
          BY <2>3, <5>1
        <5> QED BY <3>2, <3>5, <5>1, <5>2, <5>3, SMTT(30)
      <4>5. log[q[w - 1]].age \in Nat
        BY <1>5, <4>2
      <4>6. new[w] <= log'[p[w]].age
        BY <3>3, <4>1, <4>3, <4>4, <4>5
      <4> QED BY <4>4, <4>6 DEF new
    <3> QED BY <2>1, <3>4, <3>5
  <2>5. CASE ~(c = cmd /\ Hit(n, e))
    <3>1. new = old
      BY <1>9, <2>3, <2>5
    <3>2. PICK q \in [1 .. w -> DOMAIN log] : Picks(q, log, n, c, w) /\ log[q[w]] = log'[p[w]]
      BY <1>8, <1>10, <2>1, <2>5
    <3>3. w <= Len(old) /\ old[w] <= log[q[w]].age
      BY <2>1, <2>2, <3>2
    <3> QED BY <3>1, <3>2, <3>3
  <2> QED BY <2>4, <2>5
<1>11. HistoriesCover'
  BY <1>1, <1>10, NextHistories
<1>12. ASSUME NEW n \in Tree.nodes, NEW c \in Tree.commands, NEW f \in Tree.commands,
              NEW t \in Constraints(n, c, f)
       PROVE  /\ t.sibling =>
                   \A j \in DOMAIN log' :
                     (log'[j].cmd = c /\ Beside(n, log'[j]))
                       => m_cmd_ready_clk'[n][f] >= t.latency - log'[j].age
              /\ ~t.sibling =>
                   \A p \in [1 .. t.window -> DOMAIN log'] :
                     Picks(p, log', n, c, t.window)
                       => m_cmd_ready_clk'[n][f] >= t.latency - log'[p[t.window]].age
  <2>1. /\ t.latency \in Nat /\ t.window \in Nat \ {0} /\ t.window \in 1 .. Tree.window[n][c]
    <3>1. t.latency \in 0 .. MaxAge /\ t.window \in 1 .. Tree.window[n][c] /\ MaxAge \in Nat
      BY <1>1, ConstraintFacts
    <3> QED BY <3>1
  <2>2. /\ m_cmd_ready_clk'[n][f] \in Nat /\ m_cmd_ready_clk[n][f] \in Nat
        /\ m_cmd_ready_clk'[n][f] >= m_cmd_ready_clk[n][f]
    <3>1. m_cmd_ready_clk[n][f] \in Nat
      BY DEF TimingInv, Clocks
    <3> QED BY <1>9, <3>1
  <2>3. ASSUME t.sibling, NEW j \in DOMAIN log', log'[j].cmd = c, Beside(n, log'[j])
        PROVE  m_cmd_ready_clk'[n][f] >= t.latency - log'[j].age
    <3>1. CASE j = 1
      <4>1. c = cmd /\ Beside(n, e)
        BY <1>1, <1>4, <2>3, <3>1
      <4>2. m_cmd_ready_clk'[n][f] >= t.latency
        BY <1>9, <2>3, <4>1
      <4> QED BY <1>1, <1>4, <2>1, <2>2, <3>1, <4>2
    <3>2. CASE j # 1
      <4>1. j - 1 \in DOMAIN log /\ log'[j] = log[j - 1]
        BY <1>1, <3>2
      <4>2. m_cmd_ready_clk[n][f] >= t.latency - log[j - 1].age
        BY <2>3, <4>1 DEF TimingInv, WaitsCover
      <4>3. log[j - 1].age \in Nat
        BY <1>5, <4>1
      <4> QED BY <2>1, <2>2, <4>1, <4>2, <4>3
    <3> QED BY <3>1, <3>2
  <2>4. ASSUME ~t.sibling, NEW p \in [1 .. t.window -> DOMAIN log'], Picks(p, log', n, c, t.window)
        PROVE  m_cmd_ready_clk'[n][f] >= t.latency - log'[p[t.window]].age
    <3>0. log'[p[t.window]].age \in Nat
      BY <1>8, <2>1, <2>4
    <3>1. CASE p[1] > 1
      <4>1. PICK q \in [1 .. t.window -> DOMAIN log] :
              Picks(q, log, n, c, t.window) /\ log[q[t.window]] = log'[p[t.window]]
        BY <1>8, <2>1, <2>4, <3>1, SMTT(60)
      <4>2. m_cmd_ready_clk[n][f] >= t.latency - log[q[t.window]].age
        BY <2>4, <4>1 DEF TimingInv, WaitsCover
      <4> QED BY <2>1, <2>2, <3>0, <4>1, <4>2
    <3>2. CASE c = cmd /\ Hit(n, e)
      <4>1. t.window <= Len(m_cmd_history'[n][c]) /\ m_cmd_history'[n][c][t.window] <= log'[p[t.window]].age
        BY <1>10, <2>1, <2>4
      <4>2. m_cmd_history'[n][c] = NewHistory(n, cmd)
        BY <1>9, <3>2, ZenonT(60) DEF TimingInv, Clocks
      <4>3. NewHistory(n, cmd)[t.window] \in Nat
        <5>1. NewHistory(n, cmd) \in Seq(Nat)
          BY <1>1, <1>3, NewHistoryFacts DEF TimingInv
        <5> QED BY <2>1, <4>1, <4>2, <5>1
      <4>4. m_cmd_ready_clk'[n][f] >= t.latency - NewHistory(n, cmd)[t.window]
        BY <1>9, <2>4, <3>2, <4>1, <4>2
      <4> QED BY <2>1, <2>2, <3>0, <4>1, <4>2, <4>3, <4>4
    <3> QED BY <1>8, <2>1, <2>4, <3>1, <3>2
  <2> QED BY <2>3, <2>4
<1>13. WaitsCover'
  BY <1>1, <1>12, NextWaits
<1>14. ASSUME NEW n \in Tree.nodes, NEW c, NEW w \in Nat \ {0}, NEW p \in [1 .. w -> DOMAIN log'],
              Picks(p, log', n, c, w), p[1] > 1
       PROVE  \E q \in [1 .. w -> DOMAIN log] :
                Picks(q, log, n, c, w) /\ q[1] = p[1] - 1 /\ log[q[w]] = log'[p[w]]
  BY <1>8, <1>14
<1>15. ASSUME NEW n \in Tree.nodes, NEW i \in DOMAIN log', NEW c \in Tree.commands,
              IsTarget(n, log'[i].addr), Len(n) <= Scope(log'[i].cmd),
              NEW t \in Constraints(n, c, log'[i].cmd)
       PROVE  /\ t.sibling =>
                   \A j \in DOMAIN log' :
                     (i < j /\ log'[j].cmd = c /\ Beside(n, log'[j]))
                       => log'[j].age - log'[i].age >= t.latency
              /\ ~t.sibling =>
                   \A p \in [1 .. t.window -> DOMAIN log'] :
                     (i < p[1] /\ Picks(p, log', n, c, t.window))
                       => log'[p[t.window]].age - log'[i].age >= t.latency
  <2>1. log'[i].cmd \in Tree.commands
    <3>1. CASE i = 1
      BY <1>1, <1>3, <1>4, <3>1
    <3>2. CASE i # 1
      <4>1. log'[i] \in Entry
        <5>1. i - 1 \in DOMAIN log /\ log'[i] = log[i - 1]
          BY <1>1, <3>2
        <5>2. log[i - 1] \in Entry
          BY <1>1, <5>1 DEF LogInv
        <5> QED BY <5>1, <5>2
      <4> QED BY <4>1 DEF Entry
    <3> QED BY <3>1, <3>2
  <2>2. t.latency \in Nat /\ t.window \in Nat \ {0}
    <3>1. t.latency \in 0 .. MaxAge /\ t.window \in 1 .. Tree.window[n][c] /\ MaxAge \in Nat
      BY <1>1, <2>1, ConstraintFacts
    <3>2. Tree.window[n][c] \in 0 .. 4
      BY <1>1, ConstraintFacts
    <3> QED BY <3>1, <3>2
  <2>3. 1 \in 1 .. t.window /\ t.window \in 1 .. t.window
    BY <2>2
  <2>4. CASE i = 1
    <3>1. log'[i] = e /\ log'[i].age = 0 /\ log'[i].cmd = cmd
      BY <1>1, <1>4, <2>4
    <3>2. m_cmd_ready_clk[n][cmd] = 0
      BY <1>1, <1>2, <1>4, <1>15, <3>1, ReadyFacts
    <3>3. t \in Constraints(n, c, cmd)
      BY <1>15, <3>1
    <3>4. ASSUME t.sibling, NEW j \in DOMAIN log', i < j, log'[j].cmd = c, Beside(n, log'[j])
          PROVE  log'[j].age - log'[i].age >= t.latency
      <4>1. j - 1 \in DOMAIN log /\ log'[j] = log[j - 1]
        BY <1>1, <2>4, <3>4
      <4>2. m_cmd_ready_clk[n][cmd] >= t.latency - log[j - 1].age
        BY <1>3, <3>3, <3>4, <4>1 DEF TimingInv, WaitsCover
      <4>3. log[j - 1].age \in Nat
        BY <1>5, <4>1
      <4> QED BY <2>2, <3>1, <3>2, <4>1, <4>2, <4>3
    <3>5. ASSUME ~t.sibling, NEW p \in [1 .. t.window -> DOMAIN log'], i < p[1],
                 Picks(p, log', n, c, t.window)
          PROVE  log'[p[t.window]].age - log'[i].age >= t.latency
      <4>1. PICK q \in [1 .. t.window -> DOMAIN log] :
              Picks(q, log, n, c, t.window) /\ log[q[t.window]] = log'[p[t.window]]
        BY <1>8, <2>2, <2>4, <3>5
      <4>2. m_cmd_ready_clk[n][cmd] >= t.latency - log[q[t.window]].age
        BY <1>3, <3>3, <3>5, <4>1 DEF TimingInv, WaitsCover
      <4>3. log[q[t.window]].age \in Nat
        BY <1>5, <2>3, <4>1
      <4> QED BY <2>2, <3>1, <3>2, <4>1, <4>2, <4>3
    <3> QED BY <3>4, <3>5
  <2>5. CASE i # 1
    <3>1. i - 1 \in DOMAIN log /\ log'[i] = log[i - 1] /\ i \in Nat
      BY <1>1, <2>5
    <3>2. ASSUME t.sibling, NEW j \in DOMAIN log', i < j, log'[j].cmd = c, Beside(n, log'[j])
          PROVE  log'[j].age - log'[i].age >= t.latency
      <4>1. j - 1 \in DOMAIN log /\ log'[j] = log[j - 1] /\ i - 1 < j - 1
        BY <1>1, <2>5, <3>1, <3>2
      <4>2. log[j - 1].age - log[i - 1].age >= t.latency
        BY <1>15, <3>1, <3>2, <4>1 DEF TimingInv, ConstraintsKept
      <4> QED BY <3>1, <4>1, <4>2
    <3>3. ASSUME ~t.sibling, NEW p \in [1 .. t.window -> DOMAIN log'], i < p[1],
                 Picks(p, log', n, c, t.window)
          PROVE  log'[p[t.window]].age - log'[i].age >= t.latency
      <4>1. p[1] \in Nat /\ p[1] > 1
        BY <1>1, <2>3, <2>5, <3>1, <3>3
      <4>2. PICK q \in [1 .. t.window -> DOMAIN log] :
              Picks(q, log, n, c, t.window) /\ q[1] = p[1] - 1 /\ log[q[t.window]] = log'[p[t.window]]
        BY <1>14, <2>2, <3>3, <4>1, SMTT(30)
      <4>3. i - 1 < q[1]
        BY <3>1, <3>3, <4>1, <4>2
      <4>4. log[q[t.window]].age - log[i - 1].age >= t.latency
        BY <1>15, <3>1, <3>3, <4>2, <4>3 DEF TimingInv, ConstraintsKept
      <4> QED BY <3>1, <4>2, <4>4
    <3> QED BY <3>2, <3>3
  <2> QED BY <2>4, <2>5
<1>16. ConstraintsKept'
  BY <1>1, <1>15, NextKept
<1> QED BY <1>1, <1>6, <1>7, <1>11, <1>13, <1>16 DEF TimingInv

(* A cycle that passes counts for every distance and every wait.            *)
LEMMA ClocksTick ==
  ASSUME Clocks, tick
  PROVE  Clocks'
<1>1. device' = device
  BY DEF tick
<1>2. ASSUME NEW n \in Tree.nodes, NEW c \in Tree.commands
      PROVE  /\ m_cmd_ready_clk[n][c] \in Nat
             /\ m_cmd_ready_clk'[n][c] = IF m_cmd_ready_clk[n][c] > 0
                                         THEN m_cmd_ready_clk[n][c] - 1 ELSE 0
             /\ m_cmd_history[n][c] \in Seq(Nat)
             /\ m_cmd_history'[n][c] = Older(m_cmd_history[n][c])
  BY DEF Clocks, tick
<1>3. \A n \in Tree.nodes, c \in Tree.commands :
        m_cmd_ready_clk'[n][c] \in Nat /\ m_cmd_history'[n][c] \in Seq(Nat)
  <2>1. \A h \in Seq(Nat) : Older(h) \in Seq(Nat)
    BY OlderFacts
  <2>2. \A k \in Nat : (IF k > 0 THEN k - 1 ELSE 0) \in Nat
    OBVIOUS
  <2> HIDE DEF Older
  <2> QED BY <1>2, <2>1, <2>2
<1>4. /\ m_cmd_ready_clk' = [n \in Tree.nodes |-> [c \in Tree.commands |-> m_cmd_ready_clk'[n][c]]]
      /\ m_cmd_history' = [n \in Tree.nodes |-> [c \in Tree.commands |-> m_cmd_history'[n][c]]]
  BY DEF tick
<1> QED BY <1>1, <1>3, <1>4, NextClocks

LEMMA TimingTick ==
  ASSUME TimingInv, tick
  PROVE  TimingInv'
<1> DEFINE len == Len(log)
<1>1. /\ LogInv /\ LogInv' /\ IsDevice /\ device' = device
      /\ len \in Nat /\ DOMAIN log = 1 .. len /\ DOMAIN log' = 1 .. Len(log')
      /\ \/ Len(log') = len /\ (len > 0 => log'[len].age <= MaxAge)
         \/ Len(log') = len - 1 /\ len > 0
      /\ \A i \in DOMAIN log' : log'[i] = [log[i] EXCEPT !.age = @ + 1]
  BY LogTick DEF TimingInv, LogInv, tick
<1> HIDE DEF len
<1>2. DOMAIN log' \subseteq DOMAIN log
  BY <1>1
<1>3. ASSUME NEW i \in DOMAIN log'
      PROVE  /\ i \in DOMAIN log
             /\ log'[i].cmd = log[i].cmd /\ log'[i].addr = log[i].addr
             /\ log'[i].age = log[i].age + 1 /\ log[i].age \in Nat
  <2>1. log[i] \in Entry
    BY <1>1, <1>2 DEF LogInv
  <2> QED BY <1>1, <1>2, <2>1 DEF Entry
<1>4. ASSUME NEW i \in DOMAIN log', NEW n
      PROVE  Hit(n, log'[i]) <=> Hit(n, log[i])
  BY <1>3 DEF Hit
<1>5. ASSUME NEW i \in DOMAIN log', NEW n
      PROVE  Beside(n, log'[i]) <=> Beside(n, log[i])
  BY <1>3, <1>4 DEF Beside
<1>6. LogAges'
  <2>1. MaxAge \in Nat
    BY <1>1, ConstraintFacts
  <2>2. \A i, j \in DOMAIN log' : i < j => log'[i].age < log'[j].age
    BY <1>3 DEF TimingInv, LogAges
  <2>3. ASSUME NEW i \in DOMAIN log'
        PROVE  log'[i].age <= MaxAge
    <3>1. CASE i = len
      BY <1>1, <1>3, <3>1
    <3>2. CASE i # len
      <4>1. len \in DOMAIN log /\ i < len
        BY <1>1, <1>2, <3>2
      <4>2. log[i].age < log[len].age /\ log[len].age <= MaxAge
        BY <1>3, <4>1 DEF TimingInv, LogAges
      <4>3. log[len] \in Entry
        BY <1>1, <4>1 DEF LogInv
      <4>4. log[len].age \in Nat
        BY <4>3 DEF Entry
      <4> QED BY <1>3, <2>1, <4>2, <4>4
    <3> QED BY <3>1, <3>2
  <2> QED BY <1>1, <2>2, <2>3, NextLogAges
<1>7. ASSUME NEW n \in Tree.nodes, NEW c \in Tree.commands
      PROVE  /\ m_cmd_ready_clk[n][c] \in Nat
             /\ m_cmd_ready_clk'[n][c] = IF m_cmd_ready_clk[n][c] > 0
                                         THEN m_cmd_ready_clk[n][c] - 1 ELSE 0
             /\ m_cmd_history[n][c] \in Seq(Nat)
             /\ m_cmd_history'[n][c] = Older(m_cmd_history[n][c])
  BY DEF TimingInv, Clocks, tick
<1>8. Clocks'
  BY <1>1, ClocksTick DEF TimingInv
<1>9. ASSUME NEW n, NEW c, NEW w \in Nat \ {0}, NEW p \in [1 .. w -> DOMAIN log'],
             Picks(p, log', n, c, w)
      PROVE  p \in [1 .. w -> DOMAIN log] /\ Picks(p, log, n, c, w) /\ w \in 1 .. w
  <2>1. \A a \in 1 .. w : p[a] \in DOMAIN log'
    OBVIOUS
  <2>2. \A a \in 1 .. w : log[p[a]].cmd = c /\ Hit(n, log[p[a]])
    BY <1>3, <1>4, <1>9, <2>1 DEF Picks
  <2> QED BY <1>2, <1>9, <2>2 DEF Picks
<1>10. HistoriesCover'
  <2>1. ASSUME NEW n \in Tree.nodes, NEW c \in Tree.commands, NEW w \in 1 .. Tree.window[n][c],
               NEW p \in [1 .. w -> DOMAIN log'], Picks(p, log', n, c, w)
        PROVE  w <= Len(m_cmd_history'[n][c]) /\ m_cmd_history'[n][c][w] <= log'[p[w]].age
    <3> DEFINE h == m_cmd_history[n][c]
    <3>1. w \in Nat \ {0}
      <4>1. Tree.window[n][c] \in 0 .. 4
        BY <1>1, ConstraintFacts
      <4> QED BY <4>1
    <3>2. p \in [1 .. w -> DOMAIN log] /\ Picks(p, log, n, c, w) /\ p[w] \in DOMAIN log'
      BY <1>9, <2>1, <3>1
    <3>3. w <= Len(h) /\ h[w] <= log[p[w]].age
      BY <3>2 DEF TimingInv, HistoriesCover
    <3>4. h \in Seq(Nat) /\ m_cmd_history'[n][c] = Older(h)
      BY <1>7
    <3> HIDE DEF h
    <3>5. /\ Older(h) \in Seq(Nat)
          /\ \A k \in DOMAIN Older(h) : k \in DOMAIN h /\ Older(h)[k] = h[k] + 1
          /\ \/ Len(Older(h)) = Len(h)
             \/ Len(Older(h)) = Len(h) - 1 /\ Len(h) > 0 /\ h[Len(h)] + 1 > MaxAge
      BY <3>4, OlderFacts
    <3>6. log'[p[w]].age = log[p[w]].age + 1 /\ log[p[w]].age \in Nat /\ log'[p[w]].age <= MaxAge
      BY <1>1, <1>3, <1>6, <3>2, NextLogAges
    <3>7. h[w] \in Nat /\ MaxAge \in Nat /\ Len(h) \in Nat
      BY <1>1, <3>1, <3>3, <3>4, ConstraintFacts
    <3>8. w <= Len(Older(h))
      <4>1. ~(w = Len(h) /\ h[Len(h)] + 1 > MaxAge)
        BY <3>3, <3>6, <3>7
      <4>2. w < Len(h) \/ w = Len(h)
        BY <3>1, <3>3, <3>7
      <4> QED BY <3>1, <3>3, <3>5, <3>7, <4>1, <4>2
    <3>9. Older(h)[w] = h[w] + 1
      <4>1. w \in DOMAIN Older(h)
        BY <3>1, <3>5, <3>8
      <4> QED BY <3>5, <4>1
    <3> QED BY <3>3, <3>4, <3>6, <3>7, <3>8, <3>9
  <2> QED BY <1>1, <2>1, NextHistories
<1>11. WaitsCover'
  <2>1. ASSUME NEW n \in Tree.nodes, NEW c \in Tree.commands, NEW f \in Tree.commands,
               NEW t \in Constraints(n, c, f)
        PROVE  /\ t.sibling =>
                    \A j \in DOMAIN log' :
                      (log'[j].cmd = c /\ Beside(n, log'[j]))
                        => m_cmd_ready_clk'[n][f] >= t.latency - log'[j].age
               /\ ~t.sibling =>
                    \A p \in [1 .. t.window -> DOMAIN log'] :
                      Picks(p, log', n, c, t.window)
                        => m_cmd_ready_clk'[n][f] >= t.latency - log'[p[t.window]].age
    <3>1. t.latency \in Nat /\ t.window \in Nat \ {0}
      <4>1. t.latency \in 0 .. MaxAge /\ t.window \in 1 .. Tree.window[n][c] /\ MaxAge \in Nat
        BY <1>1, ConstraintFacts
      <4>2. Tree.window[n][c] \in 0 .. 4
        BY <1>1, ConstraintFacts
      <4> QED BY <4>1, <4>2
    <3>2. ASSUME NEW i \in DOMAIN log', m_cmd_ready_clk[n][f] >= t.latency - log[i].age
          PROVE  m_cmd_ready_clk'[n][f] >= t.latency - log'[i].age
      BY <1>3, <1>7, <3>1, <3>2
    <3>3. ASSUME t.sibling, NEW j \in DOMAIN log', log'[j].cmd = c, Beside(n, log'[j])
          PROVE  m_cmd_ready_clk'[n][f] >= t.latency - log'[j].age
      <4>1. j \in DOMAIN log /\ log[j].cmd = c /\ Beside(n, log[j])
        BY <1>3, <1>5, <3>3
      <4>2. m_cmd_ready_clk[n][f] >= t.latency - log[j].age
        BY <3>3, <4>1 DEF TimingInv, WaitsCover
      <4> QED BY <3>2, <4>2
    <3>4. ASSUME ~t.sibling, NEW p \in [1 .. t.window -> DOMAIN log'],
                 Picks(p, log', n, c, t.window)
          PROVE  m_cmd_ready_clk'[n][f] >= t.latency - log'[p[t.window]].age
      <4>1. p \in [1 .. t.window -> DOMAIN log] /\ Picks(p, log, n, c, t.window)
        BY <1>9, <3>1, <3>4
      <4>2. m_cmd_ready_clk[n][f] >= t.latency - log[p[t.window]].age
        BY <3>4, <4>1 DEF TimingInv, WaitsCover
      <4>3. p[t.window] \in DOMAIN log'
        BY <3>1
      <4> QED BY <3>2, <4>2, <4>3
    <3> QED BY <3>3, <3>4
  <2> QED BY <1>1, <2>1, NextWaits
<1>12. ConstraintsKept'
  <2>1. ASSUME NEW n \in Tree.nodes, NEW i \in DOMAIN log', NEW c \in Tree.commands,
               IsTarget(n, log'[i].addr), Len(n) <= Scope(log'[i].cmd),
               NEW t \in Constraints(n, c, log'[i].cmd)
        PROVE  /\ t.sibling =>
                    \A j \in DOMAIN log' :
                      (i < j /\ log'[j].cmd = c /\ Beside(n, log'[j]))
                        => log'[j].age - log'[i].age >= t.latency
               /\ ~t.sibling =>
                    \A p \in [1 .. t.window -> DOMAIN log'] :
                      (i < p[1] /\ Picks(p, log', n, c, t.window))
                        => log'[p[t.window]].age - log'[i].age >= t.latency
    <3>1. /\ i \in DOMAIN log /\ IsTarget(n, log[i].addr) /\ Len(n) <= Scope(log[i].cmd)
          /\ t \in Constraints(n, c, log[i].cmd)
      BY <1>3, <2>1
    <3>2. log[i].cmd \in Tree.commands
      <4>1. log[i] \in Entry
        BY <1>1, <3>1 DEF LogInv
      <4> QED BY <4>1 DEF Entry
    <3>3. t.latency \in Nat /\ t.window \in Nat \ {0}
      <4>1. t.latency \in 0 .. MaxAge /\ t.window \in 1 .. Tree.window[n][c] /\ MaxAge \in Nat
        BY <1>1, <3>1, <3>2, ConstraintFacts
      <4>2. Tree.window[n][c] \in 0 .. 4
        BY <1>1, ConstraintFacts
      <4> QED BY <4>1, <4>2
    <3>4. ASSUME NEW j \in DOMAIN log'
          PROVE  log'[j].age - log'[i].age = log[j].age - log[i].age
      BY <1>3
    <3>5. ASSUME t.sibling, NEW j \in DOMAIN log', i < j, log'[j].cmd = c, Beside(n, log'[j])
          PROVE  log'[j].age - log'[i].age >= t.latency
      <4>1. j \in DOMAIN log /\ log[j].cmd = c /\ Beside(n, log[j])
        BY <1>3, <1>5, <3>5
      <4>2. log[j].age - log[i].age >= t.latency
        BY <3>1, <3>5, <4>1 DEF TimingInv, ConstraintsKept
      <4> QED BY <3>4, <4>2
    <3>6. ASSUME ~t.sibling, NEW p \in [1 .. t.window -> DOMAIN log'], i < p[1],
                 Picks(p, log', n, c, t.window)
          PROVE  log'[p[t.window]].age - log'[i].age >= t.latency
      <4>1. p \in [1 .. t.window -> DOMAIN log] /\ Picks(p, log, n, c, t.window)
        BY <1>9, <3>3, <3>6
      <4>2. log[p[t.window]].age - log[i].age >= t.latency
        BY <3>1, <3>6, <4>1 DEF TimingInv, ConstraintsKept
      <4>3. p[t.window] \in DOMAIN log'
        BY <3>3
      <4> QED BY <3>4, <4>2, <4>3
    <3> QED BY <3>5, <3>6
  <2> QED BY <1>1, <2>1, NextKept
<1> QED BY <1>1, <1>6, <1>8, <1>10, <1>11, <1>12, SMTT(30) DEF TimingInv

LEMMA TimingStep ==
  ASSUME TimingInv, [Next]_vars
  PROVE  TimingInv'
<1>1. CASE UNCHANGED vars
  <2>1. device' = device /\ log' = log
    BY <1>1 DEF vars
  <2>2. m_cmd_ready_clk' = m_cmd_ready_clk /\ m_cmd_history' = m_cmd_history
    BY <1>1 DEF vars
  <2>3. LogInv'
    BY <1>1, LogStep DEF TimingInv
  <2>4. LogAges' /\ Clocks'
    BY <2>1, <2>2, NextLogAges, NextClocks DEF TimingInv, LogAges, Clocks
  <2>5. HistoriesCover'
    BY <2>1, <2>2, NextHistories DEF TimingInv, HistoriesCover
  <2>6. WaitsCover'
    BY <2>1, <2>2, NextWaits DEF TimingInv, WaitsCover
  <2>7. ConstraintsKept'
    BY <2>1, NextKept DEF TimingInv, ConstraintsKept
  <2> QED BY <2>3, <2>4, <2>5, <2>6, <2>7 DEF TimingInv
<1> QED BY <1>1, TimingIssue, TimingTick DEF Next

LEMMA TimingInit ==
  ASSUME Init
  PROVE  TimingInv
<1>1. IsDevice /\ log = <<>> /\ DOMAIN log = {} /\ LogInv
  BY DEF Init, LogInv, IsDevice
<1>2. LogAges /\ ConstraintsKept
  <2>1. ASSUME NEW t, t.window \in Nat \ {0}
        PROVE  [1 .. t.window -> DOMAIN log] = {}
    BY <1>1, <2>1
  <2> QED BY <1>1 DEF LogAges, ConstraintsKept
<1>3. Clocks
  BY DEF Clocks, Init
<1>4. ASSUME NEW w \in Nat \ {0}, NEW p \in [1 .. w -> DOMAIN log]
      PROVE  FALSE
  BY <1>1
<1>5. HistoriesCover
  <2>1. \A n \in Tree.nodes, c \in Tree.commands : Tree.window[n][c] \in 0 .. 4
    BY <1>1, ConstraintFacts
  <2>2. \A n \in Tree.nodes, c \in Tree.commands : \A w \in 1 .. Tree.window[n][c] :
          w \in Nat \ {0}
    BY <2>1
  <2> QED BY <1>4, <2>2 DEF HistoriesCover
<1>6. WaitsCover
  <2>1. ASSUME NEW n \in Tree.nodes, NEW c \in Tree.commands, NEW f \in Tree.commands,
               NEW t \in Constraints(n, c, f)
        PROVE  t.window \in Nat \ {0}
    <3>1. t.window \in 1 .. Tree.window[n][c] /\ Tree.window[n][c] \in 0 .. 4
      BY <1>1, ConstraintFacts
    <3> QED BY <3>1
  <2> QED BY <1>1, <1>4, <2>1 DEF WaitsCover
<1> QED BY <1>1, <1>2, <1>3, <1>5, <1>6 DEF TimingInv

LEMMA TimingInvariance == Spec => []TimingInv
BY TimingInit, TimingStep, PTL DEF Spec

(* node.h keeps, in every node, when each command may be issued next, and   *)
(* check_ready asks the nodes on the path only: for any standard, any       *)
(* organisation and any timing values, that keeps every constraint between  *)
(* the commands of a node, of its siblings and of its namesakes, windows    *)
(* (as nFAW's) included.                                                    *)
THEOREM TimingConstraints == Spec => []ConstraintsKept
<1>1. TimingInv => ConstraintsKept
  BY DEF TimingInv
<1> QED BY <1>1, TimingInvariance, PTL

-----------------------------------------------------------------------------
(* Types *)

(* The waits are short; a history is short, ascending and recent.           *)
Ages ==
  \A n \in Tree.nodes, cmd \in Tree.commands :
    /\ m_cmd_ready_clk[n][cmd] <= MaxAge
    /\ Len(m_cmd_history[n][cmd]) <= Tree.window[n][cmd]
    /\ \A i \in DOMAIN m_cmd_history[n][cmd] : m_cmd_history[n][cmd][i] <= MaxAge
    /\ \A i, j \in DOMAIN m_cmd_history[n][cmd] :
         i < j => m_cmd_history[n][cmd][i] < m_cmd_history[n][cmd][j]

(* There was an issue in this cycle; then the log has it, too.              *)
Fresh ==
  \E n \in Tree.nodes, cmd \in Tree.commands : \E i \in DOMAIN m_cmd_history[n][cmd] :
    m_cmd_history[n][cmd][i] = 0

HistoryInv == Ages /\ (Fresh => \E k \in DOMAIN log : log[k].age = 0)

TypeInv == TimingInv /\ RowInv /\ HistoryInv /\ Len(log) <= S.maxlog

LEMMA NextAges ==
  ASSUME device' = device
  PROVE  /\ Ages' <=>
              \A n \in Tree.nodes, cmd \in Tree.commands :
                /\ m_cmd_ready_clk'[n][cmd] <= MaxAge
                /\ Len(m_cmd_history'[n][cmd]) <= Tree.window[n][cmd]
                /\ \A i \in DOMAIN m_cmd_history'[n][cmd] : m_cmd_history'[n][cmd][i] <= MaxAge
                /\ \A i, j \in DOMAIN m_cmd_history'[n][cmd] :
                     i < j => m_cmd_history'[n][cmd][i] < m_cmd_history'[n][cmd][j]
         /\ Fresh' <=>
              \E n \in Tree.nodes, cmd \in Tree.commands : \E i \in DOMAIN m_cmd_history'[n][cmd] :
                m_cmd_history'[n][cmd][i] = 0
<1>1. S' = S /\ Tree' = Tree /\ MaxAge' = MaxAge
  BY SameDevice
<1>2. Ages' <=>
        \A n \in Tree.nodes, cmd \in Tree.commands :
          /\ m_cmd_ready_clk'[n][cmd] <= MaxAge
          /\ Len(m_cmd_history'[n][cmd]) <= Tree.window[n][cmd]
          /\ \A i \in DOMAIN m_cmd_history'[n][cmd] : m_cmd_history'[n][cmd][i] <= MaxAge
          /\ \A i, j \in DOMAIN m_cmd_history'[n][cmd] :
               i < j => m_cmd_history'[n][cmd][i] < m_cmd_history'[n][cmd][j]
  BY <1>1, SMTT(60) DEF Ages
<1>3. Fresh' <=>
        \E n \in Tree.nodes, cmd \in Tree.commands : \E i \in DOMAIN m_cmd_history'[n][cmd] :
          m_cmd_history'[n][cmd][i] = 0
  BY <1>1, SMTT(60) DEF Fresh
<1> QED BY <1>2, <1>3

LEMMA HistoryIssue ==
  ASSUME IsDevice, Clocks, Ages, ~Fresh, NEW cmd \in Tree.commands, NEW addr,
         update_timing(cmd, addr), device' = device
  PROVE  Ages'
<1> DEFINE e == [cmd |-> cmd, addr |-> addr]
<1>1. e.cmd = cmd /\ e.addr = addr
  OBVIOUS
<1> HIDE DEF e
<1>2. MaxAge \in Nat
  BY ConstraintFacts
<1>3. ASSUME NEW n \in Tree.nodes, NEW c \in Tree.commands
      PROVE  m_cmd_ready_clk'[n][c] <= MaxAge
  <2>1. m_cmd_ready_clk[n][c] <= MaxAge
    BY DEF Ages
  <2> QED BY <1>1, <2>1, UpdateFacts
<1>4. ASSUME NEW n \in Tree.nodes, NEW c \in Tree.commands
      PROVE  /\ Len(m_cmd_history'[n][c]) <= Tree.window[n][c]
             /\ \A i \in DOMAIN m_cmd_history'[n][c] : m_cmd_history'[n][c][i] <= MaxAge
             /\ \A i, j \in DOMAIN m_cmd_history'[n][c] :
                  i < j => m_cmd_history'[n][c][i] < m_cmd_history'[n][c][j]
  <2> DEFINE old == m_cmd_history[n][c]
             new == m_cmd_history'[n][c]
             win == Tree.window[n][c]
  <2>1. /\ old \in Seq(Nat) /\ win \in Nat /\ Len(old) <= win
        /\ \A i \in DOMAIN old : old[i] <= MaxAge /\ old[i] # 0
        /\ \A i, j \in DOMAIN old : i < j => old[i] < old[j]
    <3>1. old \in Seq(Nat) /\ win \in 0 .. 4
      BY ConstraintFacts DEF Clocks
    <3>2. /\ Len(old) <= win
          /\ \A i \in DOMAIN old : old[i] <= MaxAge
          /\ \A i \in DOMAIN old : old[i] # 0
          /\ \A i, j \in DOMAIN old : i < j => old[i] < old[j]
      BY DEF Ages, Fresh
    <3> HIDE DEF old, win
    <3> QED BY <3>1, <3>2
  <2>2. new = old \/ new = NewHistory(n, c)
    <3>1. /\ Hit(n, e) => m_cmd_history'[n] = [m_cmd_history[n] EXCEPT ![cmd] = NewHistory(n, cmd)]
          /\ ~Hit(n, e) => m_cmd_history'[n] = m_cmd_history[n]
      BY <1>1, UpdateFacts
    <3>2. m_cmd_history[n] \in [Tree.commands -> Seq(Nat)]
      BY DEF Clocks
    <3> QED BY <3>1, <3>2
  <2>3. LET h == NewHistory(n, c)
        IN  /\ h \in Seq(Nat)
            /\ Len(h) = IF Len(old) < win THEN Len(old) + 1 ELSE win
            /\ \A k \in 1 .. Len(h) : h[k] = IF k = 1 THEN 0 ELSE old[k - 1]
    BY NewHistoryFacts
  <2> SUFFICES /\ Len(new) <= win
               /\ \A i \in DOMAIN new : new[i] <= MaxAge
               /\ \A i, j \in DOMAIN new : i < j => new[i] < new[j]
    OBVIOUS
  <2> HIDE DEF old, new, win
  <2>4. CASE new = old
    BY <2>1, <2>4
  <2>5. CASE new = NewHistory(n, c)
    <3>1. /\ new \in Seq(Nat) /\ Len(new) \in Nat /\ DOMAIN new = 1 .. Len(new)
          /\ Len(new) = IF Len(old) < win THEN Len(old) + 1 ELSE win
          /\ \A k \in 1 .. Len(new) : new[k] = IF k = 1 THEN 0 ELSE old[k - 1]
      BY <2>3, <2>5
    <3>2. Len(old) \in Nat /\ DOMAIN old = 1 .. Len(old) /\ \A i \in DOMAIN old : old[i] \in Nat
      BY <2>1
    <3>3. Len(new) <= win /\ Len(new) <= Len(old) + 1
      BY <2>1, <3>1, <3>2
    <3>4. ASSUME NEW k \in DOMAIN new, k # 1
          PROVE  k - 1 \in DOMAIN old /\ new[k] = old[k - 1]
      BY <3>1, <3>2, <3>3, <3>4, SMTT(30)
    <3>5. ASSUME NEW i \in DOMAIN new
          PROVE  new[i] <= MaxAge
      <4>1. CASE i = 1
        <5>1. new[i] = 0
          BY <3>1, <4>1
        <5> QED BY <1>2, <5>1
      <4>2. CASE i # 1
        BY <2>1, <3>4, <4>2
      <4> QED BY <4>1, <4>2
    <3>6. ASSUME NEW i \in DOMAIN new, NEW j \in DOMAIN new, i < j
          PROVE  new[i] < new[j]
      <4>1. j # 1 /\ i \in Nat /\ j \in Nat /\ i >= 1
        BY <3>1, <3>6
      <4>2. CASE i = 1
        <5>1. new[i] = 0
          BY <3>1, <4>2
        <5>2. new[j] \in Nat /\ new[j] # 0
          BY <2>1, <3>2, <3>4, <4>1
        <5> QED BY <5>1, <5>2
      <4>3. CASE i # 1
        <5>1. i - 1 < j - 1
          BY <3>6, <4>1
        <5> QED BY <2>1, <3>4, <4>1, <4>3, <5>1
      <4> QED BY <4>2, <4>3
    <3> QED BY <3>3, <3>5, <3>6
  <2> QED BY <2>2, <2>4, <2>5
<1> QED BY <1>3, <1>4, NextAges

LEMMA HistoryTick ==
  ASSUME IsDevice, Clocks, Ages, tick
  PROVE  Ages' /\ ~Fresh'
<1>1. device' = device
  BY DEF tick
<1>2. MaxAge \in Nat
  BY ConstraintFacts
<1>3. ASSUME NEW n \in Tree.nodes, NEW c \in Tree.commands
      PROVE  /\ m_cmd_ready_clk'[n][c] <= MaxAge
             /\ Len(m_cmd_history'[n][c]) <= Tree.window[n][c]
             /\ \A i \in DOMAIN m_cmd_history'[n][c] :
                  m_cmd_history'[n][c][i] <= MaxAge /\ m_cmd_history'[n][c][i] # 0
             /\ \A i, j \in DOMAIN m_cmd_history'[n][c] :
                  i < j => m_cmd_history'[n][c][i] < m_cmd_history'[n][c][j]
  <2> DEFINE old == m_cmd_history[n][c]
             new == m_cmd_history'[n][c]
             win == Tree.window[n][c]
  <2>1. /\ m_cmd_ready_clk[n][c] \in Nat
        /\ m_cmd_ready_clk'[n][c] = IF m_cmd_ready_clk[n][c] > 0
                                    THEN m_cmd_ready_clk[n][c] - 1 ELSE 0
        /\ old \in Seq(Nat) /\ new = Older(old)
    BY DEF Clocks, tick
  <2>2. /\ m_cmd_ready_clk[n][c] <= MaxAge
        /\ Len(old) <= win
        /\ \A i \in DOMAIN old : old[i] <= MaxAge
        /\ \A i, j \in DOMAIN old : i < j => old[i] < old[j]
    BY DEF Ages
  <2>3. win \in 0 .. 4
    BY ConstraintFacts
  <2>4. m_cmd_ready_clk'[n][c] <= MaxAge
    BY <1>2, <2>1, <2>2
  <2> SUFFICES /\ Len(new) <= win
               /\ \A i \in DOMAIN new : new[i] <= MaxAge /\ new[i] # 0
               /\ \A i, j \in DOMAIN new : i < j => new[i] < new[j]
    BY <2>4
  <2> HIDE DEF old, new, win
  <2>5. /\ new \in Seq(Nat)
        /\ \A k \in DOMAIN new : k \in DOMAIN old /\ new[k] = old[k] + 1
        /\ \/ Len(new) = Len(old) /\ (Len(old) > 0 => ~(old[Len(old)] + 1 > MaxAge))
           \/ Len(new) = Len(old) - 1 /\ Len(old) > 0 /\ old[Len(old)] + 1 > MaxAge
    BY <2>1, OlderFacts
  <2>6. /\ Len(old) \in Nat /\ DOMAIN old = 1 .. Len(old) /\ \A i \in DOMAIN old : old[i] \in Nat
        /\ Len(new) \in Nat /\ DOMAIN new = 1 .. Len(new)
    BY <2>1, <2>5
  <2>7. Len(new) <= win
    <3>1. Len(new) = Len(old) \/ Len(new) = Len(old) - 1
      BY <2>5
    <3>2. Len(old) \in Nat /\ Len(old) <= win /\ win \in Nat
      BY <2>2, <2>3, <2>6
    <3> QED BY <3>1, <3>2
  <2>8. ASSUME NEW i \in DOMAIN new, NEW j \in DOMAIN new, i < j
        PROVE  new[i] < new[j]
    <3>1. /\ i \in DOMAIN old /\ new[i] = old[i] + 1
          /\ j \in DOMAIN old /\ new[j] = old[j] + 1
      BY <2>5
    <3>2. old[i] \in Nat /\ old[j] \in Nat /\ old[i] < old[j]
      BY <2>2, <2>6, <2>8, <3>1
    <3> QED BY <3>1, <3>2
  <2>9. ASSUME NEW i \in DOMAIN new
        PROVE  new[i] <= MaxAge /\ new[i] # 0
    <3>1. i \in DOMAIN old /\ new[i] = old[i] + 1 /\ old[i] \in Nat
      BY <2>5, <2>6
    <3>2. CASE i = Len(old)
      <4>1. Len(old) > 0 /\ i <= Len(new)
        BY <2>6, <3>1, <3>2
      <4>2. ~(Len(new) = Len(old) - 1)
        <5>1. Len(old) \in Nat /\ Len(old) <= Len(new)
          BY <2>6, <3>2, <4>1
        <5> QED BY <5>1
      <4>3. Len(new) = Len(old) /\ ~(old[Len(old)] + 1 > MaxAge)
        BY <2>5, <4>1, <4>2, Zenon
      <4> QED BY <1>2, <3>1, <3>2, <4>3
    <3>3. CASE i # Len(old)
      <4>1. Len(old) \in DOMAIN old /\ i < Len(old)
        BY <2>6, <3>1, <3>3
      <4>2. old[i] < old[Len(old)] /\ old[Len(old)] <= MaxAge /\ old[Len(old)] \in Nat
        BY <2>2, <2>6, <3>1, <4>1
      <4> QED BY <1>2, <3>1, <4>2
    <3> QED BY <3>2, <3>3, SMTT(30)
  <2> QED BY <2>7, <2>8, <2>9
<1> QED BY <1>1, <1>3, NextAges

LEMMA TypeStep ==
  ASSUME TypeInv, [Next]_vars
  PROVE  TypeInv'
<1>1. TimingInv' /\ RowInv'
  BY TimingStep, RowsStep DEF TypeInv
<1>2. CASE UNCHANGED vars
  <2>1. device' = device /\ log' = log
    BY <1>2 DEF vars
  <2>2. m_cmd_ready_clk' = m_cmd_ready_clk /\ m_cmd_history' = m_cmd_history
    BY <1>2 DEF vars
  <2>3. HistoryInv'
    <3>1. (Ages' <=> Ages) /\ (Fresh' <=> Fresh)
      BY <2>1, <2>2, NextAges DEF Ages, Fresh
    <3> QED BY <2>1, <3>1 DEF TypeInv, HistoryInv
  <2> QED BY <1>1, <2>1, <2>3, SameDevice DEF TypeInv
<1>3. CASE tick
  <2>1. LogInv /\ device' = device
    BY <1>3, SMTT(30) DEF TypeInv, TimingInv, tick
  <2>2. Len(log) \in Nat /\ (Len(log') = Len(log) \/ Len(log') = Len(log) - 1)
    BY <1>3, <2>1, LogTick
  <2>3. S.maxlog \in Nat
    BY <2>1, DeviceAssumption DEF S, LogInv, IsDevice
  <2>4. Len(log') <= S.maxlog
    BY <2>2, <2>3 DEF TypeInv
  <2>5. Ages' /\ ~Fresh'
    BY <1>3, HistoryTick DEF TypeInv, TimingInv, LogInv, HistoryInv
  <2> QED BY <1>1, <2>1, <2>4, <2>5, SameDevice DEF TypeInv, HistoryInv
<1>4. ASSUME NEW request \in S.requested,
             NEW addr \in Addresses(S.requests[request]), NEW row \in Rows,
             Issue(request, addr, row)
      PROVE  TypeInv'
  <2>1. LogInv /\ device' = device /\ Len(log) < S.maxlog
    BY <1>4 DEF TypeInv, TimingInv, Issue
  <2>2. Len(log) \in Nat /\ DOMAIN log' = 1 .. (Len(log) + 1) /\ LogInv'
    BY <1>4, <2>1, LogIssue
  <2>3. Len(log') = Len(log) + 1
    <3>1. log' \in Seq(Entry')
      BY <2>2 DEF LogInv
    <3>2. DOMAIN log' = 1 .. Len(log') /\ Len(log') \in Nat
      BY <3>1
    <3> QED BY <2>2, <3>2
  <2>4. S.maxlog \in Nat
    BY <2>1, DeviceAssumption DEF S, LogInv, IsDevice
  <2>5. Len(log') <= S.maxlog
    BY <2>1, <2>2, <2>3, <2>4
  <2>6. HistoryInv'
    <3> DEFINE cmd == get_preq_command(m_row_state, S.requests[request], addr, row)
    <3>1. \A k \in DOMAIN log : log[k].age # 0
      <4>1. \A k \in DOMAIN log : log[k] \in ToSet(log)
        BY DEF ToSet
      <4>2. \A f \in ToSet(log) : f.age > 0
        BY <1>4 DEF Issue
      <4> QED BY <4>1, <4>2
    <3>2. log'[1].age = 0 /\ 1 \in DOMAIN log'
      <4>1. log'[1] = [cmd |-> cmd, addr |-> addr, age |-> 0]
        BY <1>4, <2>1, LogIssue
      <4> HIDE DEF cmd
      <4> QED BY <2>2, <4>1
    <3>3. update_timing(cmd, addr) /\ cmd \in Tree.commands /\ IsDevice /\ Clocks
      BY <1>4, <2>1, PreqCommands DEF Issue, issue_command, LogInv, TypeInv, TimingInv
    <3> HIDE DEF cmd
    <3>4. Ages'
      BY <2>1, <3>1, <3>3, HistoryIssue DEF TypeInv, HistoryInv
    <3> QED BY <3>2, <3>4 DEF HistoryInv
  <2> QED BY <1>1, <2>1, <2>5, <2>6, SameDevice DEF TypeInv
<1> QED BY <1>2, <1>3, <1>4 DEF Next

LEMMA TypeInit ==
  ASSUME Init
  PROVE  TypeInv
<1>1. IsDevice /\ TimingInv /\ RowInv
  BY TimingInit, RowsInit DEF Init, IsDevice
<1>2. MaxAge \in Nat /\ S.maxlog \in Nat
  BY <1>1, ConstraintFacts, DeviceAssumption DEF S, IsDevice
<1>3. ASSUME NEW n \in Tree.nodes, NEW c \in Tree.commands
      PROVE  /\ m_cmd_ready_clk[n][c] = 0
             /\ m_cmd_history[n][c] = <<>>
             /\ Tree.window[n][c] \in 0 .. 4
  BY <1>1, ConstraintFacts DEF Init
<1>4. HistoryInv
  BY <1>2, <1>3 DEF HistoryInv, Ages, Fresh
<1>5. Len(log) <= S.maxlog
  BY <1>2 DEF Init
<1> QED BY <1>1, <1>4, <1>5 DEF TypeInv

LEMMA TypesOfInv ==
  ASSUME IsDevice, Clocks, Ages, m_row_state \in [Tree.banks -> SUBSET Rows],
         Len(log) <= S.maxlog, log \in Seq(Entry), \A i \in DOMAIN log : log[i].age <= MaxAge
  PROVE  TypeOK
<1>1. MaxAge \in Nat
  BY ConstraintFacts
<1>2. m_cmd_ready_clk \in [Tree.nodes -> [Tree.commands -> 0 .. MaxAge]]
  <2>1. \A n \in Tree.nodes : m_cmd_ready_clk[n] \in [Tree.commands -> 0 .. MaxAge]
    <3>1. \A n \in Tree.nodes : m_cmd_ready_clk[n] \in [Tree.commands -> Nat]
      BY DEF Clocks
    <3>2. \A n \in Tree.nodes, c \in Tree.commands : m_cmd_ready_clk[n][c] <= MaxAge
      BY DEF Ages
    <3> QED BY <1>1, <3>1, <3>2
  <2> QED BY <2>1 DEF Clocks
<1>3. ASSUME NEW n \in Tree.nodes, NEW c \in Tree.commands
      PROVE  /\ Len(m_cmd_history[n][c]) <= Tree.window[n][c]
             /\ \A i \in DOMAIN m_cmd_history[n][c] : m_cmd_history[n][c][i] \in 0 .. MaxAge
  <2>1. m_cmd_history[n][c] \in Seq(Nat)
    BY DEF Clocks
  <2>2. /\ Len(m_cmd_history[n][c]) <= Tree.window[n][c]
        /\ \A i \in DOMAIN m_cmd_history[n][c] : m_cmd_history[n][c][i] <= MaxAge
    BY DEF Ages
  <2> QED BY <1>1, <2>1, <2>2
<1>4. ASSUME NEW e \in ToSet(log)
      PROVE  e.cmd \in Tree.commands /\ e.age \in 0 .. MaxAge
  <2>1. PICK i \in DOMAIN log : e = log[i]
    BY DEF ToSet
  <2>2. e \in Entry /\ e.age <= MaxAge
    BY <2>1
  <2> QED BY <1>1, <2>2 DEF Entry
<1> QED BY <1>2, <1>3, <1>4 DEF TypeOK, IsDevice

(* node.h: the waits never exceed the longest latency, a history never has  *)
(* more entries than the constraints look back, whatever is sent when.      *)
THEOREM Types == Spec => []TypeOK
<1>1. TypeInv => TypeOK
  BY TypesOfInv DEF TypeInv, TimingInv, LogInv, LogAges, RowInv, HistoryInv
<1> QED BY <1>1, TypeInit, TypeStep, PTL DEF Spec

-----------------------------------------------------------------------------
(* Distances *)

(* What was sent: a command that some request makes a controller issue, at  *)
(* the address of that request.                                             *)
SentEntry(e) == \E final \in Finals : e.cmd \in SentFor(S, final) /\ e.addr \in Addresses(final)

LogSent == \A i \in DOMAIN log : SentEntry(log[i])

LEMMA SentPreq ==
  ASSUME IsDevice, NEW request \in S.requested, NEW rs, NEW addr, NEW row
  PROVE  get_preq_command(rs, S.requests[request], addr, row) \in SentFor(S, S.requests[request])
<1> DEFINE final == S.requests[request]
<1>1. /\ final \in DOMAIN S.preqs
      /\ S.preqs[final] \in {"Bank::RequireRowOpen", "Bank::RequireBankClosed",
                             "BankGroup::RequireSameBanksClosed", "Rank::RequireAllBanksClosed",
                             "Channel::RequireAllBanksClosed"}
  BY DeviceFacts DEF Conforms
<1> HIDE DEF final
<1>2. get_preq_command(rs, final, addr, row) \in SentFor(S, final)
  BY <1>1 DEF get_preq_command, SentFor, RequireRowOpen, RequireBankClosed,
              RequireSameBanksClosed, RequireAllBanksClosed
<1> QED BY <1>2 DEF final

LEMMA NextSent ==
  ASSUME device' = device
  PROVE  LogSent' <=> \A i \in DOMAIN log' : SentEntry(log'[i])
BY SameDevice, SMTT(60) DEF LogSent, SentEntry, Finals, Addresses, Scope

LEMMA SentStep ==
  ASSUME LogInv, LogSent, [Next]_vars
  PROVE  LogSent'
<1>1. CASE UNCHANGED vars
  <2>1. log' = log /\ device' = device
    BY <1>1 DEF vars
  <2> QED BY <2>1, NextSent DEF LogSent
<1>2. CASE tick
  <2>1. /\ Len(log) \in Nat /\ DOMAIN log = 1 .. Len(log) /\ DOMAIN log' = 1 .. Len(log')
        /\ Len(log') = Len(log) \/ Len(log') = Len(log) - 1
        /\ \A i \in DOMAIN log' : log'[i] = [log[i] EXCEPT !.age = @ + 1]
    BY <1>2, LogTick
  <2>2. ASSUME NEW i \in DOMAIN log' PROVE i \in DOMAIN log
    <3> DEFINE m == Len(log)
               k == Len(log')
    <3>1. i \in 1 .. k /\ (k = m \/ k = m - 1) /\ m \in Nat
      BY <2>1
    <3>2. i \in 1 .. m
      <4> HIDE DEF m, k
      <4> QED BY <3>1
    <3> QED BY <2>1, <3>2
  <2>3. ASSUME NEW i \in DOMAIN log' PROVE SentEntry(log'[i])
    <3>1. log[i] \in Entry /\ SentEntry(log[i])
      BY <2>2 DEF LogInv, LogSent
    <3>2. log'[i].cmd = log[i].cmd /\ log'[i].addr = log[i].addr
      BY <2>1, <3>1 DEF Entry
    <3> QED BY <3>1, <3>2 DEF SentEntry
  <2> QED BY <1>2, <2>3, NextSent DEF tick
<1>3. ASSUME NEW request \in S.requested, NEW addr \in Addresses(S.requests[request]),
             NEW row \in Rows, Issue(request, addr, row)
      PROVE  LogSent'
  <2> DEFINE cmd == get_preq_command(m_row_state, S.requests[request], addr, row)
  <2>1. /\ Len(log) \in Nat /\ DOMAIN log = 1 .. Len(log) /\ DOMAIN log' = 1 .. (Len(log) + 1)
        /\ log'[1] = [cmd |-> cmd, addr |-> addr, age |-> 0]
        /\ \A i \in 2 .. (Len(log) + 1) : log'[i] = log[i - 1]
    BY <1>3, LogIssue
  <2>2. cmd \in SentFor(S, S.requests[request]) /\ S.requests[request] \in Finals
    BY SentPreq DEF LogInv, Finals
  <2> HIDE DEF cmd
  <2>3. SentEntry(log'[1])
    BY <2>1, <2>2 DEF SentEntry
  <2>4. ASSUME NEW i \in DOMAIN log' PROVE SentEntry(log'[i])
    <3>1. CASE i = 1
      BY <2>3, <3>1
    <3>2. CASE i # 1
      <4>1. i - 1 \in DOMAIN log /\ log'[i] = log[i - 1]
        BY <2>1, <3>2
      <4> QED BY <4>1 DEF LogSent
    <3> QED BY <3>1, <3>2
  <2> QED BY <1>3, <2>4, NextSent DEF Issue
<1> QED BY <1>1, <1>2, <1>3 DEF Next

LEMMA SentInvariance == Spec => [](TimingInv /\ LogSent)
<1>1. Init => LogSent
  BY DEF Init, LogSent
<1>2. TimingInv /\ LogSent /\ [Next]_vars => LogSent'
  BY SentStep DEF TimingInv
<1> QED BY <1>1, <1>2, TimingInvariance, PTL DEF Spec

(* How far down the tree a command looks.                                   *)
LEMMA ScopeFacts ==
  ASSUME IsDevice, NEW cmd
  PROVE  /\ Scope(cmd) \in 0 .. Len(S.levels)
         /\ cmd \in DOMAIN S.scopes =>
              Scope(cmd) \in DOMAIN S.levels /\ S.levels[Scope(cmd)] = S.scopes[cmd]
<1>1. Len(S.levels) \in Nat /\ DOMAIN S.levels = 1 .. Len(S.levels)
  BY BankFacts
<1>2. ASSUME cmd \in DOMAIN S.scopes
      PROVE  Scope(cmd) \in DOMAIN S.levels /\ S.levels[Scope(cmd)] = S.scopes[cmd]
  <2>1. \E i \in DOMAIN S.levels : S.levels[i] = S.scopes[cmd]
    BY <1>2, DeviceFacts DEF Conforms, ToSet
  <2> QED BY <1>2, <2>1 DEF Scope
<1>3. cmd \notin DOMAIN S.scopes => Scope(cmd) = Len(S.levels)
  BY DEF Scope
<1> QED BY <1>1, <1>2, <1>3

(* The address of a command that was sent leads down to its scope.          *)
LEMMA SentFacts ==
  ASSUME IsDevice, NEW e, SentEntry(e)
  PROVE  /\ e.cmd \in Sent(S)
         /\ e.addr \in [1 .. Len(S.levels) -> -1 .. 7]
         /\ \E b \in Tree.banks : \A m \in 1 .. Scope(e.cmd) : e.addr[m] = b[m]
<1>1. PICK final \in Finals : e.cmd \in SentFor(S, final) /\ e.addr \in Addresses(final)
  BY DEF SentEntry
<1>2. e.cmd \in Sent(S)
  BY <1>1 DEF Sent, Finals
<1>3. /\ e.addr \in [1 .. Len(S.levels) -> -1 .. 7]
      /\ ~WholeRank(final) => e.addr \in Tree.banks
  BY <1>1, AddressFacts
<1>4. CASE ~WholeRank(final)
  BY <1>2, <1>3, <1>4
<1>5. CASE WholeRank(final)
  <2> DEFINE scope == IF final \in DOMAIN S.scopes THEN S.scopes[final] ELSE "row"
  <2>1. scope = S.scopes[final] /\ scope \in {"channel", "rank"}
    BY <1>5 DEF WholeRank
  <2>2. /\ S.preqs[final] \in {"Rank::RequireAllBanksClosed", "Channel::RequireAllBanksClosed"}
        /\ "PREA" \in DOMAIN S.scopes /\ S.scopes["PREA"] = scope
    BY <2>1, DeviceFacts DEF Conforms, Finals
  <2>3. e.cmd \in {final, "PREA"}
    BY <1>1, <2>2 DEF SentFor
  <2>4. Scope("PREA") = Scope(final)
    BY <1>5, <2>1, <2>2 DEF Scope, WholeRank
  <2>5. Scope(e.cmd) = Scope(final)
    BY <2>3, <2>4
  <2>6. PICK n \in Tree.banks : e.addr = [i \in DOMAIN S.levels |-> IF i <= Scope(final) THEN n[i] ELSE -1]
    BY <1>1, <1>5 DEF Addresses, WholeRank
  <2>7. \A m \in 1 .. Scope(final) : m \in DOMAIN S.levels /\ m <= Scope(final)
    <3>1. Scope(final) \in 0 .. Len(S.levels) /\ Len(S.levels) \in Nat /\ DOMAIN S.levels = 1 .. Len(S.levels)
      BY ScopeFacts, BankFacts
    <3> QED BY <3>1
  <2>8. \A m \in 1 .. Scope(e.cmd) : e.addr[m] = n[m]
    BY <2>5, <2>6, <2>7
  <2> QED BY <1>2, <1>3, <2>8
<1> QED BY <1>4, <1>5

(* The nodes on the path of a bank.                                         *)
LEMMA PrefixNode ==
  ASSUME IsDevice, NEW b \in Tree.banks, NEW k \in DOMAIN S.levels
  PROVE  /\ SubSeq(b, 1, k) \in Tree.nodes
         /\ Len(SubSeq(b, 1, k)) = k /\ DOMAIN SubSeq(b, 1, k) = 1 .. k
         /\ \A m \in 1 .. k : SubSeq(b, 1, k)[m] = b[m]
<1> DEFINE L == Len(S.levels)
           n == SubSeq(b, 1, k)
<1>1. L \in Nat /\ DOMAIN S.levels = 1 .. L /\ Tree.banks = LevelNodes(S, L)
  BY BankFacts, DeviceFacts DEF BankNodes
<1>2. b \in [1 .. L -> 0 .. 7] /\ \A m \in 1 .. L : b[m] < S.org[S.levels[m]]
  BY <1>1 DEF LevelNodes
<1>3. k \in 1 .. L
  BY <1>1
<1> HIDE DEF L
<1>4. /\ n \in Seq(0 .. 7) /\ Len(n) = k
      /\ \A m \in 1 .. k : n[m] = b[m]
  <2>1. \A m \in 1 .. k : b[m] \in 0 .. 7
    BY <1>1, <1>2, <1>3
  <2>2. /\ n \in Seq(0 .. 7) /\ Len(n) = IF 1 <= k THEN k - 1 + 1 ELSE 0
        /\ \A m \in 1 .. k - 1 + 1 : n[m] = b[1 + m - 1]
    BY <1>3, <2>1, SubSeqProperties
  <2> HIDE DEF n
  <2> QED BY <1>3, <2>2
<1> HIDE DEF n
<1>5. DOMAIN n = 1 .. k /\ n \in [1 .. k -> 0 .. 7]
  BY <1>4
<1>6. \A m \in 1 .. k : n[m] < S.org[S.levels[m]]
  BY <1>1, <1>2, <1>3, <1>4
<1>7. n \in LevelNodes(S, k)
  BY <1>5, <1>6 DEF LevelNodes
<1>8. Tree.nodes = UNION {LevelNodes(S, i) : i \in DOMAIN S.levels}
  BY DeviceFacts DEF create_nodes
<1> QED BY <1>4, <1>5, <1>7, <1>8 DEF n

LEMMA LevelScope ==
  ASSUME IsDevice, NEW cmd, NEW k \in PathLevels(S, cmd)
  PROVE  k \in DOMAIN S.levels /\ k <= Scope(cmd)
<1>1. k \in DOMAIN S.levels /\ DOMAIN S.levels = 1 .. Len(S.levels)
  BY BankFacts DEF PathLevels
<1>2. CASE cmd \in DOMAIN S.scopes
  BY <1>2, ScopeFacts DEF PathLevels
<1>3. CASE cmd \notin DOMAIN S.scopes
  BY <1>1, <1>3 DEF Scope
<1> QED BY <1>1, <1>2, <1>3

(* The node of a bank at a level that the paths share is on the path of     *)
(* every command that reaches the bank.                                     *)
LEMMA PathNode ==
  ASSUME IsDevice, NEW e, SentEntry(e), NEW b \in Tree.banks, Reaches(e, b),
         NEW k \in PathLevels(S, e.cmd)
  PROVE  IsTarget(SubSeq(b, 1, k), e.addr) /\ k <= Scope(e.cmd) /\ k \in DOMAIN S.levels
<1> DEFINE L == Len(S.levels)
<1>1. L \in Nat /\ DOMAIN S.levels = 1 .. L /\ b \in [1 .. L -> 0 .. 7]
  BY BankFacts
<1>2. k \in 1 .. L /\ (e.cmd \in DOMAIN S.scopes /\ S.scopes[e.cmd] = "bankgroup" => k <= L - 2)
  BY <1>1 DEF PathLevels
<1>3. k <= Scope(e.cmd)
  BY LevelScope
<1>4. /\ DOMAIN SubSeq(b, 1, k) = 1 .. k
      /\ \A m \in 1 .. k : SubSeq(b, 1, k)[m] = b[m]
  BY <1>1, <1>2, PrefixNode
<1>5. Scope(e.cmd) \in 0 .. L
  BY ScopeFacts
<1> HIDE DEF L
<1>6. ASSUME NEW m \in 1 .. k PROVE b[m] = e.addr[m]
  <2>1. CASE e.cmd \in DOMAIN S.scopes /\ S.scopes[e.cmd] = "bankgroup"
    <3> DEFINE g == SubSeq(b, 1, L - 1)
               h == SubSeq(g, 1, L - 2)
    <3>1. L - 2 >= 1
      BY <1>1, <1>2, <2>1
    <3>2. \A i \in 1 .. L : b[i] \in 0 .. 7
      BY <1>1
    <3>3. g \in Seq(0 .. 7) /\ Len(g) = L - 1 /\ \A i \in 1 .. (L - 1) : g[i] = b[i]
      <4>1. /\ g \in Seq(0 .. 7) /\ Len(g) = (IF 1 <= L - 1 THEN (L - 1) - 1 + 1 ELSE 0)
            /\ \A i \in 1 .. ((L - 1) - 1 + 1) : g[i] = b[1 + i - 1]
        BY <1>1, <3>1, <3>2, SubSeqProperties
      <4> HIDE DEF g
      <4> QED BY <1>1, <3>1, <4>1
    <3>4. Front(b) = g
      <4>1. Len(b) = L
        BY <1>1
      <4> QED BY <4>1 DEF Front
    <3>5. Front(g) = h
      <4>1. Len(g) - 1 = L - 2
        BY <1>1, <3>3
      <4> QED BY <4>1 DEF Front
    <3> HIDE DEF g
    <3>6. Len(h) = L - 2 /\ h \in Seq(0 .. 7) /\ \A i \in 1 .. (L - 2) : h[i] = g[i]
      <4>0. \A i \in 1 .. (L - 2) : g[i] \in 0 .. 7
        BY <1>1, <3>2, <3>3
      <4>1. /\ h \in Seq(0 .. 7) /\ Len(h) = (IF 1 <= L - 2 THEN (L - 2) - 1 + 1 ELSE 0)
            /\ \A i \in 1 .. ((L - 2) - 1 + 1) : h[i] = g[1 + i - 1]
        BY <1>1, <3>1, <4>0, SubSeqProperties
      <4> HIDE DEF h
      <4> QED BY <1>1, <3>1, <4>1
    <3> HIDE DEF h
    <3>7. m \in DOMAIN h /\ h[m] = b[m]
      BY <1>1, <1>2, <2>1, <3>3, <3>6
    <3>8. IsTarget(h, e.addr)
      BY <2>1, <3>4, <3>5 DEF Reaches, SameBank
    <3> QED BY <3>7, <3>8 DEF IsTarget
  <2>2. CASE ~(e.cmd \in DOMAIN S.scopes /\ S.scopes[e.cmd] = "bankgroup")
    <3>1. \A i \in DOMAIN b : e.addr[i] \in {-1, b[i]}
      BY <2>2 DEF Reaches
    <3>2. m \in 1 .. L /\ m \in 1 .. Scope(e.cmd)
      BY <1>1, <1>2, <1>3, <1>5
    <3>3. PICK a \in Tree.banks : e.addr[m] = a[m]
      BY <3>2, SentFacts
    <3>4. a[m] # -1
      <4>1. a \in [1 .. L -> 0 .. 7]
        BY BankFacts DEF L
      <4> QED BY <3>2, <4>1
    <3> QED BY <1>1, <3>1, <3>2, <3>3, <3>4
  <2> QED BY <2>1, <2>2
<1> QED BY <1>1, <1>2, <1>3, <1>4, <1>6 DEF IsTarget

(* A constraint in a node that both commands pass keeps them apart.         *)
LEMMA Distance ==
  ASSUME TimingInv, NEW n \in Tree.nodes, NEW i \in DOMAIN log, NEW j \in DOMAIN log, i < j,
         IsTarget(n, log[i].addr), Len(n) <= Scope(log[i].cmd), Hit(n, log[j]),
         NEW cycles \in Int, AtLevel(S, Len(n), log[j].cmd, log[i].cmd, cycles)
  PROVE  log[j].age - log[i].age >= cycles
<1> DEFINE cmd == log[j].cmd
           f == log[i].cmd
<1>1. /\ IsDevice /\ log[i] \in Entry /\ log[j] \in Entry
      /\ log[i].age < log[j].age
  BY DEF TimingInv, LogInv, LogAges
<1>2. cmd \in Tree.commands /\ f \in Tree.commands /\ log[i].age \in Nat /\ log[j].age \in Nat
  BY <1>1 DEF Entry
<1> HIDE DEF cmd, f
<1>3. CASE cycles <= 1
  BY <1>1, <1>2, <1>3
<1>4. ASSUME NEW t \in Constraints(n, cmd, f), ~t.sibling, t.window = 1, t.latency >= cycles
      PROVE  log[j].age - log[i].age >= cycles
  <2> DEFINE p == [a \in 1 .. 1 |-> j]
  <2>1. p \in [1 .. t.window -> DOMAIN log] /\ p[1] = j /\ p[t.window] = j
    BY <1>4
  <2>2. Picks(p, log, n, cmd, t.window)
    BY <1>4 DEF Picks, cmd
  <2> HIDE DEF p
  <2>3. log[p[t.window]].age - log[i].age >= t.latency
    BY <1>2, <1>4, <2>1, <2>2 DEF TimingInv, ConstraintsKept, f
  <2>4. t.latency \in Nat
    BY <1>1, <1>2, <1>4, ConstraintFacts
  <2> QED BY <1>2, <1>4, <2>1, <2>3, <2>4
<1>5. Constraints(n, cmd, f) = timing_cons(S, S.levels[Len(n)], cmd, f)
  BY <1>1, <1>2, ConstraintsOf
<1> QED BY <1>3, <1>4, <1>5 DEF AtLevel, cmd, f

(* So does one between the nodes of a level.                                *)
LEMMA SiblingDistance ==
  ASSUME TimingInv, NEW n \in Tree.nodes, NEW i \in DOMAIN log, NEW j \in DOMAIN log, i < j,
         IsTarget(n, log[i].addr), Len(n) <= Scope(log[i].cmd), Beside(n, log[j]),
         NEW cycles \in Int,
         NEW t \in timing_cons(S, S.levels[Len(n)], log[j].cmd, log[i].cmd),
         t.sibling, t.latency >= cycles
  PROVE  log[j].age - log[i].age >= cycles
<1> DEFINE cmd == log[j].cmd
           f == log[i].cmd
<1>1. IsDevice /\ log[i] \in Entry /\ log[j] \in Entry
  BY DEF TimingInv, LogInv
<1>2. cmd \in Tree.commands /\ f \in Tree.commands /\ log[i].age \in Nat /\ log[j].age \in Nat
  BY <1>1 DEF Entry
<1> HIDE DEF cmd, f
<1>3. t \in Constraints(n, cmd, f)
  <2>1. Constraints(n, cmd, f) = timing_cons(S, S.levels[Len(n)], cmd, f)
    BY <1>1, <1>2, ConstraintsOf
  <2> QED BY <2>1 DEF cmd, f
<1>4. log[j].age - log[i].age >= t.latency
  BY <1>2, <1>3 DEF TimingInv, ConstraintsKept, cmd, f
<1>5. t.latency \in Nat
  BY <1>1, <1>2, <1>3, ConstraintFacts
<1> QED BY <1>2, <1>4, <1>5

(* Where the tables cover two kinds of commands, a bank sees them apart.    *)
LEMMA CoveredApart ==
  ASSUME TimingInv, LogSent, NEW earlier, NEW later, NEW cycles \in Int,
         CoversBank(S, earlier, later, cycles)
  PROVE  Apart(earlier, later, cycles)
<1> SUFFICES ASSUME NEW i \in DOMAIN log, NEW j \in DOMAIN log, i < j,
                    log[i].cmd \in later, log[j].cmd \in earlier, Shared(log[i], log[j])
             PROVE  log[j].age - log[i].age >= cycles
  BY DEF Apart
<1>1. IsDevice /\ SentEntry(log[i]) /\ SentEntry(log[j])
  BY DEF TimingInv, LogInv, LogSent
<1>2. log[i].cmd \in Sent(S) /\ log[j].cmd \in Sent(S)
  BY <1>1, SentFacts
<1>3. PICK k \in PathLevels(S, log[j].cmd) \cap PathLevels(S, log[i].cmd) :
        AtLevel(S, k, log[j].cmd, log[i].cmd, cycles)
  BY <1>2 DEF CoversBank
<1>4. PICK b \in Tree.banks : Reaches(log[i], b) /\ Reaches(log[j], b)
  BY DEF Shared
<1> DEFINE n == SubSeq(b, 1, k)
<1>5. /\ IsTarget(n, log[i].addr) /\ IsTarget(n, log[j].addr)
      /\ k <= Scope(log[i].cmd) /\ k \in DOMAIN S.levels
  BY <1>1, <1>3, <1>4, PathNode
<1>6. n \in Tree.nodes /\ Len(n) = k
  BY <1>1, <1>5, PrefixNode
<1> HIDE DEF n
<1>7. Hit(n, log[j])
  BY <1>5 DEF Hit
<1> QED BY <1>3, <1>5, <1>6, <1>7, Distance

(* Five activations in a node are as far apart as the window says.          *)
LEMMA CoveredWindow ==
  ASSUME TimingInv, LogSent, S.V.nFAW \in Int, CoversWindow(S)
  PROVE  FourActivateWindow
<1> SUFFICES ASSUME NEW n \in Tree.nodes, Len(n) \in WindowLevels(S),
                    NEW i \in DOMAIN log, NEW j \in DOMAIN log, NEW k \in DOMAIN log,
                    NEW l \in DOMAIN log, NEW m \in DOMAIN log,
                    i < j, j < k, k < l, l < m,
                    \A x \in {i, j, k, l, m} : log[x].cmd = "ACT" /\ IsTarget(n, log[x].addr)
             PROVE  log[m].age - log[i].age >= S.V.nFAW
  BY DEF FourActivateWindow
<1>1. IsDevice /\ SentEntry(log[i]) /\ log \in Seq(Entry) /\ DOMAIN log = 1 .. Len(log) /\ Len(log) \in Nat
  <2>1. IsDevice /\ SentEntry(log[i]) /\ log \in Seq(Entry)
    BY DEF TimingInv, LogInv, LogSent
  <2> HIDE DEF Entry
  <2> QED BY <2>1
<1>2. "ACT" \in Sent(S) /\ "ACT" \in Tree.commands
  <2>1. log[i] \in Entry /\ log[i].cmd = "ACT"
    BY <1>1
  <2> QED BY <1>1, <2>1, SentFacts DEF Entry
<1>3. ASSUME NEW x \in {i, j, k, l, m} PROVE log[x].age \in Nat
  <2>1. log[x] \in Entry
    BY <1>1
  <2> QED BY <2>1 DEF Entry
<1>4. CASE S.V.nFAW <= 4
  <2>1. log[i].age < log[j].age /\ log[j].age < log[k].age /\ log[k].age < log[l].age
        /\ log[l].age < log[m].age
    BY DEF TimingInv, LogAges
  <2> QED BY <1>3, <1>4, <2>1
<1>5. CASE ~(S.V.nFAW <= 4)
  <2>1. Len(n) \in PathLevels(S, "ACT")
    BY <1>2, <1>5 DEF CoversWindow
  <2>2. PICK t \in timing_cons(S, S.levels[Len(n)], "ACT", "ACT") :
          ~t.sibling /\ t.window = 4 /\ t.latency >= S.V.nFAW
    BY <1>2, <1>5 DEF CoversWindow
  <2>3. t \in Constraints(n, "ACT", "ACT")
    BY <1>1, <1>2, <2>2, ConstraintsOf
  <2>4. Len(n) <= Scope("ACT")
    BY <1>1, <2>1, LevelScope
  <2> DEFINE p == <<j, k, l, m>>
  <2>5. p \in [1 .. 4 -> DOMAIN log] /\ p[1] = j /\ p[2] = k /\ p[3] = l /\ p[4] = m
    OBVIOUS
  <2> HIDE DEF p
  <2>6. \A a, b \in 1 .. 4 : a < b => p[a] < p[b]
    <3>1. i \in Nat /\ j \in Nat /\ k \in Nat /\ l \in Nat /\ m \in Nat
      BY <1>1
    <3> QED BY <2>5, <3>1
  <2>7. \A a \in 1 .. 4 : p[a] \in {j, k, l, m}
    BY <2>5
  <2>8. Picks(p, log, n, "ACT", t.window)
    BY <2>2, <2>6, <2>7 DEF Picks, Hit
  <2>9. log[p[t.window]].age - log[i].age >= t.latency
    <3>1. p \in [1 .. t.window -> DOMAIN log] /\ i < p[1]
      BY <2>2, <2>5
    <3>2. log[i].cmd = "ACT" /\ IsTarget(n, log[i].addr)
      OBVIOUS
    <3> QED BY <1>2, <2>2, <2>3, <2>4, <2>8, <3>1, <3>2 DEF TimingInv, ConstraintsKept
  <2>10. t.latency \in Nat
    BY <1>1, <1>2, <2>3, ConstraintFacts
  <2> QED BY <1>3, <2>2, <2>5, <2>9, <2>10
<1> QED BY <1>4, <1>5

(* A command passes a node of every level down to its scope, the first one  *)
(* of which is the channel.                                                 *)
PathTo(n, e, k) ==
  /\ n \in Tree.nodes /\ Len(n) = k /\ DOMAIN n = 1 .. k /\ n[1] = 0
  /\ \A m \in 1 .. k : n[m] = e.addr[m] /\ n[m] \in 0 .. 7 /\ n[m] < S.org[S.levels[m]]

LEMMA PathToLevel ==
  ASSUME IsDevice, S.org["channel"] = 1, NEW e, SentEntry(e), NEW k \in DOMAIN S.levels,
         k <= Scope(e.cmd)
  PROVE  \E n : PathTo(n, e, k)
<1>1. PICK b \in Tree.banks : \A m \in 1 .. Scope(e.cmd) : e.addr[m] = b[m]
  BY SentFacts
<1> DEFINE n == SubSeq(b, 1, k)
<1>2. /\ Scope(e.cmd) \in 0 .. Len(S.levels) /\ Len(S.levels) \in Nat
      /\ DOMAIN S.levels = 1 .. Len(S.levels)
  BY ScopeFacts, BankFacts
<1>3. /\ n \in Tree.nodes /\ Len(n) = k /\ DOMAIN n = 1 .. k
      /\ \A m \in 1 .. k : n[m] = b[m]
  BY PrefixNode
<1> HIDE DEF n
<1>4. ASSUME NEW m \in 1 .. k
      PROVE  n[m] = e.addr[m] /\ n[m] \in 0 .. 7 /\ n[m] < S.org[S.levels[m]]
  <2>1. b \in LevelNodes(S, Len(S.levels))
    BY DeviceFacts DEF BankNodes
  <2>2. m \in 1 .. Len(S.levels) /\ m \in 1 .. Scope(e.cmd)
    BY <1>2
  <2>3. b[m] \in 0 .. 7 /\ b[m] < S.org[S.levels[m]]
    BY <2>1, <2>2 DEF LevelNodes
  <2> QED BY <1>1, <1>3, <2>2, <2>3
<1>5. n[1] = 0
  <2>1. 1 \in 1 .. k
    BY <1>2
  <2>2. S.levels[1] = "channel"
    BY DeviceFacts DEF Conforms
  <2> QED BY <1>4, <2>1, <2>2
<1>6. PathTo(n, e, k)
  BY <1>3, <1>4, <1>5 DEF PathTo
<1> QED BY <1>6

(* Two commands of which one was sent after the other keep the bus free for *)
(* the burst of the first.                                                  *)
LEMMA BusDistance ==
  ASSUME TimingInv, LogSent, Covering(S), NEW i \in DOMAIN log, NEW j \in DOMAIN log, i < j,
         log[i].cmd \in CAS, log[j].cmd \in CAS
  PROVE  log[j].age - log[i].age
           >= S.V.nBL + DataDelay(S, log[j].cmd) - DataDelay(S, log[i].cmd)
<1> DEFINE cmd == log[j].cmd
           f == log[i].cmd
           cycles == S.V.nBL + DataDelay(S, cmd) - DataDelay(S, f)
<1>1. IsDevice /\ SentEntry(log[i]) /\ SentEntry(log[j]) /\ S.org["channel"] = 1
  BY DEF TimingInv, LogInv, LogSent, Covering
<1>2. cmd \in Sent(S) /\ f \in Sent(S)
  BY <1>1, SentFacts
<1>3. cycles \in Int
  BY DEF Covering, DataDelay
<1>4. \/ AtLevel(S, 1, cmd, f, cycles)
      \/ /\ 2 \in PathLevels(S, cmd) \cap PathLevels(S, f)
         /\ AtLevel(S, 2, cmd, f, cycles)
         /\ \/ S.org[S.levels[2]] = 1
            \/ \E t \in timing_cons(S, S.levels[2], cmd, f) : t.sibling /\ t.latency >= cycles
  BY <1>2 DEF Covering, CoversBus
<1> HIDE DEF cycles
<1>5. CASE AtLevel(S, 1, cmd, f, cycles)
  <2>1. 1 \in DOMAIN S.levels /\ 1 <= Scope(cmd) /\ 1 <= Scope(f)
    <3>1. /\ DOMAIN S.levels = 1 .. Len(S.levels) /\ Len(S.levels) \in Nat
          /\ S.levels # <<>> /\ S.levels \in Seq(STRING)
      BY <1>1, BankFacts, DeviceFacts DEF Conforms
    <3>2. Len(S.levels) >= 1
      BY <3>1
    <3>3. ASSUME NEW c PROVE 1 <= Scope(c)
      <4>1. c \in DOMAIN S.scopes => Scope(c) \in DOMAIN S.levels
        BY <1>1, ScopeFacts
      <4>2. c \notin DOMAIN S.scopes => Scope(c) = Len(S.levels)
        BY DEF Scope
      <4> QED BY <3>1, <3>2, <4>1, <4>2
    <3> QED BY <3>1, <3>2, <3>3
  <2>2. PICK n : PathTo(n, log[i], 1)
    BY <1>1, <2>1, PathToLevel
  <2>3. PICK y : PathTo(y, log[j], 1)
    BY <1>1, <2>1, PathToLevel
  <2>4. n \in Tree.nodes /\ Len(n) = 1 /\ IsTarget(n, log[i].addr) /\ IsTarget(n, log[j].addr)
    BY <2>2, <2>3 DEF PathTo, IsTarget
  <2>5. log[j].age - log[i].age >= cycles
    BY <1>3, <1>5, <2>1, <2>4, Distance DEF Hit
  <2> QED BY <2>5 DEF cycles
<1>6. CASE /\ 2 \in PathLevels(S, cmd) \cap PathLevels(S, f)
           /\ AtLevel(S, 2, cmd, f, cycles)
           /\ \/ S.org[S.levels[2]] = 1
              \/ \E t \in timing_cons(S, S.levels[2], cmd, f) : t.sibling /\ t.latency >= cycles
  <2>1. 2 \in DOMAIN S.levels /\ 2 <= Scope(cmd) /\ 2 <= Scope(f)
    BY <1>1, <1>6, LevelScope
  <2>2. PICK n : PathTo(n, log[i], 2)
    BY <1>1, <2>1, PathToLevel
  <2>3. PICK y : PathTo(y, log[j], 2)
    BY <1>1, <2>1, PathToLevel
  <2>4. n \in Tree.nodes /\ Len(n) = 2 /\ IsTarget(n, log[i].addr) /\ Len(n) <= Scope(log[i].cmd)
    BY <2>1, <2>2 DEF PathTo, IsTarget
  <2>5. CASE Hit(n, log[j])
    <3>1. log[j].age - log[i].age >= cycles
      BY <1>3, <1>6, <2>4, <2>5, Distance
    <3> QED BY <3>1 DEF cycles
  <2>6. CASE ~Hit(n, log[j])
    <3>1. n[1] = y[1] /\ n[2] # y[2]
      <4>1. ~IsTarget(n, log[j].addr)
        BY <2>6 DEF Hit
      <4> QED BY <2>2, <2>3, <4>1 DEF PathTo, IsTarget
    <3>2. DOMAIN Front(n) = 1 .. 1 /\ Front(n)[1] = n[1]
      <4>1. \A m \in 1 .. 1 : n[m] \in 0 .. 7
        BY <2>2 DEF PathTo
      <4>2. /\ SubSeq(n, 1, 1) \in Seq(0 .. 7) /\ Len(SubSeq(n, 1, 1)) = 1
            /\ \A m \in 1 .. 1 : SubSeq(n, 1, 1)[m] = n[m]
        <5>1. /\ Len(SubSeq(n, 1, 1)) = (IF 1 <= 1 THEN 1 - 1 + 1 ELSE 0)
              /\ SubSeq(n, 1, 1) \in Seq(0 .. 7)
              /\ \A m \in 1 .. 1 - 1 + 1 : SubSeq(n, 1, 1)[m] = n[1 + m - 1]
          BY <4>1, SubSeqProperties
        <5> QED BY <5>1
      <4>3. Front(n) = SubSeq(n, 1, 1)
        BY <2>4 DEF Front
      <4> QED BY <4>2, <4>3
    <3>3. Beside(n, log[j])
      <4>1. ~IsTarget(n, log[j].addr)
        BY <2>6 DEF Hit
      <4>2. IsTarget(Front(n), log[j].addr)
        BY <2>2, <2>3, <3>1, <3>2 DEF PathTo, IsTarget
      <4> QED BY <2>6, <4>1, <4>2 DEF Beside, IsSibling
    <3>4. S.org[S.levels[2]] # 1
      BY <2>2, <2>3, <3>1 DEF PathTo
    <3>5. PICK t \in timing_cons(S, S.levels[2], cmd, f) : t.sibling /\ t.latency >= cycles
      BY <1>6, <3>4
    <3>6. log[j].age - log[i].age >= cycles
      BY <1>3, <2>4, <3>3, <3>5, SiblingDistance
    <3> QED BY <3>6 DEF cycles
  <2> QED BY <2>5, <2>6
<1> QED BY <1>4, <1>5, <1>6

LEMMA CoveredBus ==
  ASSUME TimingInv, LogSent, Covering(S)
  PROVE  DataBusExclusive
<1> DEFINE Starts(e) == DataDelay(S, e.cmd) - e.age
<1> SUFFICES ASSUME NEW i \in DOMAIN log, NEW j \in DOMAIN log,
                    log[i].cmd \in CAS, log[j].cmd \in CAS, log[i] # log[j],
                    Starts(log[i]) <= Starts(log[j])
             PROVE  Starts(log[i]) + S.V.nBL <= Starts(log[j])
  BY DEF DataBusExclusive, ToSet
<1>1. log \in Seq(Entry) /\ log[i] \in Entry /\ log[j] \in Entry
  BY DEF TimingInv, LogInv
<1>2. log[i].age \in Nat /\ log[j].age \in Nat
  BY <1>1 DEF Entry
<1>3. i \in Nat /\ j \in Nat /\ i # j
  <2>1. DOMAIN log = 1 .. Len(log) /\ Len(log) \in Nat
    <3> HIDE DEF Entry
    <3> QED BY <1>1
  <2> QED BY <2>1
<1>4. S.V.nBL \in Int /\ DataDelay(S, log[i].cmd) \in Int /\ DataDelay(S, log[j].cmd) \in Int
  BY DEF Covering, DataDelay
<1>5. CASE j < i
  <2>1. log[i].age - log[j].age
          >= S.V.nBL + DataDelay(S, log[i].cmd) - DataDelay(S, log[j].cmd)
    BY <1>5, BusDistance
  <2> QED BY <1>2, <1>4, <2>1
<1>6. CASE i < j
  <2>1. log[j].age - log[i].age
          >= S.V.nBL + DataDelay(S, log[j].cmd) - DataDelay(S, log[i].cmd)
    BY <1>6, BusDistance
  <2> QED BY <1>2, <1>4, <2>1
<1> QED BY <1>3, <1>5, <1>6

(* check_ready asks only the nodes on a command's path, and update_timing   *)
(* tells only the nodes on it, beside it and of the same banks: when the    *)
(* tables of a standard have a constraint for every distance at a level     *)
(* that both commands pass, banks, ranks and the data bus keep all of them, *)
(* for any organisation, any timing values and any order of commands.       *)
THEOREM DistancesKept == Spec => [](Covering(S) => TimingKept)
<1>1. ASSUME TimingInv, LogSent, Covering(S) PROVE TimingKept
  <2>1. /\ S.V.nRP \in Int /\ S.V.nRAS \in Int /\ S.V.nRFC \in Int /\ S.V.nFAW \in Int
        /\ CoversBank(S, Precharges, {"ACT"}, S.V.nRP)
        /\ CoversBank(S, {"ACT"}, Precharges, S.V.nRAS)
        /\ CoversBank(S, {"REFab"}, {"ACT"}, S.V.nRFC)
        /\ CoversBank(S, Precharges, Refreshes, S.V.nRP)
        /\ CoversWindow(S)
    BY <1>1 DEF Covering
  <2>2. PrechargeTime /\ RowActiveTime /\ RefreshTime /\ PrechargedBeforeRefresh
    BY <1>1, <2>1, CoveredApart
       DEF PrechargeTime, RowActiveTime, RefreshTime, PrechargedBeforeRefresh
  <2> QED BY <1>1, <2>1, <2>2, CoveredWindow, CoveredBus DEF TimingKept
<1>2. TimingInv /\ LogSent => (Covering(S) => TimingKept)
  BY <1>1
<1> QED BY <1>2, SentInvariance, PTL
=============================================================================
