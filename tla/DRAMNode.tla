------------------------------ MODULE DRAMNode ------------------------------
(***************************************************************************)
(* One channel of a device as the tree of nodes of dram/node.h: when a      *)
(* command may be issued, which command a request needs first, and what an  *)
(* issued command does to the rows and to the waiting times below it.       *)
(*                                                                          *)
(* A node is the sequence of the ids on its path, <<0>> being the channel;  *)
(* an address is a sequence of ids down to a bank, where -1 is no id.  The  *)
(* clock is kept relative: m_cmd_ready_clk is how long a command still has  *)
(* to wait, m_cmd_history the ages of the last issues.  log, which no code  *)
(* keeps, is what the device was sent in the last MaxAge cycles, newest     *)
(* first.  Its length is bounded by the device's maxlog.                    *)
(***************************************************************************)
EXTENDS DRAMTree, FiniteSets

CONSTANT Device   \* the devices considered: a record for each name, which has
                  \* what DRAMStandards says of its standard, its m_timing_vals
                  \* V, its m_organization org (the count of every level), the
                  \* tree of its nodes, the kinds of requests that are made
                  \* (requested), and maxlog, a bound: the commands that are
                  \* sent within MaxAge cycles

(* The devices and their trees, each of them worked out once.               *)
Devices == Device
Trees   == [s \in DOMAIN Device |-> Device[s].tree]

Refreshes == {"REFab", "REFsb", "RFMab", "RFMsb", "DRFMab", "DRFMsb", "VRR"}

(* What the tables of all standards have in common: the first two commands; *)
(* which banks the precharges close; and that the prerequisite of a final   *)
(* command, a refresh's above all, looks at the banks that it is about.     *)
Conforms(D) ==
  /\ D.levels \in Seq(STRING) /\ D.levels # <<>> /\ D.levels[1] = "channel"
  /\ D.commands[1] = "ACT" /\ D.commands[2] = "PRE"
  /\ \A cmd \in DOMAIN D.scopes : D.scopes[cmd] \in ToSet(D.levels)
  /\ {"ACT", "PRE", "PREA"} \subseteq DOMAIN D.actions
  /\ DOMAIN D.actions \cup DOMAIN D.preqs \subseteq ToSet(D.commands)
  /\ D.actions["ACT"] = "Bank::ACT" /\ D.actions["PRE"] = "Bank::PRE"
  /\ D.actions["PREA"] \in {"Rank::PREab", "Channel::PREab"}
  /\ \A final \in {D.requests[request] : request \in D.requested} :
       /\ final \in DOMAIN D.preqs \ {"ACT", "PRE", "PREA", "PREsb"}
       /\ LET scope == IF final \in DOMAIN D.scopes THEN D.scopes[final] ELSE "row"
          IN  CASE D.preqs[final] = "Bank::RequireRowOpen" ->
                     scope = "row" /\ final \notin Refreshes
                [] D.preqs[final] = "Bank::RequireBankClosed" -> scope = "bank"
                [] D.preqs[final] = "BankGroup::RequireSameBanksClosed" ->
                     /\ scope = "bankgroup"
                     /\ "PREsb" \in DOMAIN D.actions /\ D.actions["PREsb"] = "BankGroup::PREsb"
                [] D.preqs[final] \in {"Rank::RequireAllBanksClosed",
                                       "Channel::RequireAllBanksClosed"} ->
                     /\ scope \in {"channel", "rank"}
                     /\ "PREA" \in DOMAIN D.scopes /\ D.scopes["PREA"] = scope
                [] OTHER -> FALSE

(* The tree is what the constructor makes of the rest, and no constraint    *)
(* looks further back than four issues.                                     *)
ASSUME DeviceAssumption ==
  \A s \in DOMAIN Device :
    LET tree == Trees[s]
    IN  /\ tree = create_nodes(Devices[s])
        /\ tree.window \in [tree.nodes -> [tree.commands -> 0..4]]
        /\ IsFiniteSet(Devices[s].timingcons) /\ Devices[s].timingcons # {}
        /\ \A t \in Devices[s].timingcons : t.latency \in Nat /\ t.window \in 1..4
        /\ Devices[s].maxlog \in Nat
        /\ Conforms(Devices[s])

VARIABLES device,           \* the name of the device
          m_row_state,      \* bank -> the rows it records as open
          m_cmd_ready_clk,  \* node -> command -> cycles until it may be issued
          m_cmd_history,    \* node -> command -> ages of its last issues
          log               \* commands sent lately, newest first

vars == <<device, m_row_state, m_cmd_ready_clk, m_cmd_history, log>>

S    == Devices[device]
Tree == Trees[device]

Constraints(n, cmd, f) == Tree.cons[n][cmd, f]

Rows == 0..(S.org["row"] - 1)

(* No constraint reaches further back.                                      *)
MaxAge == Tree.maxage

Init ==
  /\ device \in DOMAIN Device
  /\ m_row_state = [b \in Tree.banks |-> {}]
  /\ m_cmd_ready_clk = [n \in Tree.nodes |-> [cmd \in Tree.commands |-> 0]]
  /\ m_cmd_history = [n \in Tree.nodes |-> [cmd \in Tree.commands |-> <<>>]]
  /\ log = <<>>

-----------------------------------------------------------------------------
(* Paths *)

Scope(cmd) ==
  IF cmd \in DOMAIN S.scopes
  THEN CHOOSE i \in DOMAIN S.levels : S.levels[i] = S.scopes[cmd]
  ELSE Len(S.levels)

(* The levels that a walk down the address reaches.                         *)
Depth(addr) == Max({i \in DOMAIN addr : \A j \in 1..i : addr[j] >= 0})

IsTarget(n, addr) == \A i \in DOMAIN n : n[i] = addr[i]

(* A node next to the path: its parent is on it.                            *)
IsSibling(n, addr) == ~IsTarget(n, addr) /\ IsTarget(Front(n), addr)

SameBank(b, addr) == Last(b) = Last(addr) /\ IsTarget(Front(Front(b)), addr)

(* BankGroup::SameBankActions updates the timing of the same bank in every  *)
(* group.  (For the addressed bank it repeats what was just done.)          *)
SameBankActions(cmd, addr) ==
  IF cmd \in DOMAIN S.actions /\ S.actions[cmd] = "BankGroup::SameBankActions"
  THEN {b \in Tree.banks : SameBank(b, addr)}
  ELSE {}

-----------------------------------------------------------------------------
(* Timing *)

(* A walk that runs out of ids before the scope returns the command itself, *)
(* which is false for the first one only.                                   *)
check_ready(cmd, addr) ==
  /\ \A i \in 1..Depth(addr) :
       i <= Scope(cmd) => m_cmd_ready_clk[SubSeq(addr, 1, i)][cmd] = 0
  /\ Depth(addr) < Scope(cmd) => cmd # S.commands[1]

(* The longest of the waits, or the one there is already.                   *)
Longer(wait, waits) == IF waits = {} THEN wait ELSE Max(waits \cup {wait})

(* A constraint counts from the window-th last issue, if there were as many.*)
TargetWait(n, cmd, f, history) ==
  Longer(m_cmd_ready_clk[n][f],
         {t.latency - history[t.window] :
            t \in {c \in Constraints(n, cmd, f) : ~c.sibling /\ c.window <= Len(history)}})

(* Mutant: the nodes next to the path are forgotten.                        *)
NoSiblingWait(n, cmd, f) == m_cmd_ready_clk[n][f]

SiblingWait(n, cmd, f) ==
  Longer(m_cmd_ready_clk[n][f],
         {t.latency : t \in {c \in Constraints(n, cmd, f) : c.sibling}})

(* Mutant: the oldest issue is not dropped.                                 *)
GrowingHistory(n, cmd) == <<0>> \o m_cmd_history[n][cmd]

NewHistory(n, cmd) ==
  LET h == <<0>> \o m_cmd_history[n][cmd]
      w == Tree.window[n][cmd]
  IN  IF Len(h) <= w THEN h ELSE SubSeq(h, 1, w)

update_timing(cmd, addr) ==
  LET Target(n) == IsTarget(n, addr) \/ n \in SameBankActions(cmd, addr)
  IN  /\ m_cmd_history' = [n \in Tree.nodes |->
           IF Target(n) THEN [m_cmd_history[n] EXCEPT ![cmd] = NewHistory(n, cmd)]
                        ELSE m_cmd_history[n]]
      /\ m_cmd_ready_clk' = [n \in Tree.nodes |->
           CASE Target(n) ->
                  LET h == NewHistory(n, cmd)
                  IN  [f \in Tree.commands |-> TargetWait(n, cmd, f, h)]
             [] IsSibling(n, addr) /\ ~Target(n) ->
                  [f \in Tree.commands |-> SiblingWait(n, cmd, f)]
             [] OTHER -> m_cmd_ready_clk[n]]

-----------------------------------------------------------------------------
(* Rows: rs stands for the row states, m_row_state *)

(* Mutant: a bank with another row open is activated.                       *)
RowOpenWithoutPRE(rs, cmd, bank, row) == IF row \in rs[bank] THEN cmd ELSE "ACT"

RequireRowOpen(rs, cmd, bank, row) ==
  CASE rs[bank] = {}      -> "ACT"
    [] row \in rs[bank]   -> cmd
    [] OTHER              -> "PRE"

RequireBankClosed(rs, cmd, bank) == IF rs[bank] = {} THEN cmd ELSE "PRE"

(* Rank:: and Channel::RequireAllBanksClosed, in the node of the scope.     *)
RequireAllBanksClosed(rs, cmd, node) ==
  IF \E b \in Tree.banks : IsTarget(node, b) /\ rs[b] # {}
  THEN "PREA" ELSE cmd

(* Mutant: only the addressed bank is looked at.                            *)
RequireAddressedBankClosed(rs, cmd, addr) ==
  IF rs[addr] # {} THEN "PREsb" ELSE cmd

RequireSameBanksClosed(rs, cmd, addr) ==
  IF \E b \in Tree.banks : SameBank(b, addr) /\ rs[b] # {}
  THEN "PREsb" ELSE cmd

(* A command whose walk ends at a bank that has no prerequisite for it is   *)
(* answered true, which is the number of the second command.                *)
get_preq_command(rs, cmd, addr, row) ==
  IF cmd \in DOMAIN S.preqs
  THEN CASE S.preqs[cmd] = "Bank::RequireRowOpen" -> RequireRowOpen(rs, cmd, addr, row)
         [] S.preqs[cmd] = "Bank::RequireBankClosed" -> RequireBankClosed(rs, cmd, addr)
         [] S.preqs[cmd] = "BankGroup::RequireSameBanksClosed" ->
              RequireSameBanksClosed(rs, cmd, addr)
         [] S.preqs[cmd] \in {"Rank::RequireAllBanksClosed", "Channel::RequireAllBanksClosed"} ->
              RequireAllBanksClosed(rs, cmd, SubSeq(addr, 1, Scope(cmd)))
  ELSE IF Depth(addr) = Len(addr) THEN S.commands[2] ELSE cmd

(* Mutant: a same-bank precharge closes the addressed bank only.            *)
ClosesAddressedBank(cmd, addr) ==
  IF cmd \in {"PREA", "ACT"} \/ cmd \notin DOMAIN S.actions
  THEN IF cmd = "PREA" THEN Tree.banks ELSE {}
  ELSE {addr}

(* The banks that a lambda closes.                                          *)
Closes(cmd, addr) ==
  IF cmd \notin DOMAIN S.actions THEN {}
  ELSE CASE S.actions[cmd] = "Bank::PRE" -> {addr}
         [] S.actions[cmd] = "BankGroup::PREsb" ->
              {b \in Tree.banks : SameBank(b, addr)}
         [] S.actions[cmd] \in {"Rank::PREab", "Channel::PREab"} ->
              {b \in Tree.banks : IsTarget(SubSeq(addr, 1, Scope(cmd)), b)}
         [] OTHER -> {}

(* update_states, for the row states rs.                                    *)
update_states(rs, cmd, addr, row) ==
  [b \in Tree.banks |->
     CASE cmd = "ACT" /\ b = addr      -> rs[b] \cup {row}
       [] b \in Closes(cmd, addr)      -> {}
       [] OTHER                        -> rs[b]]

-----------------------------------------------------------------------------
(* The channel *)

issue_command(cmd, addr, row) ==
  /\ update_timing(cmd, addr)
  /\ m_row_state' = update_states(m_row_state, cmd, addr, row)

(* A request for a final command is addressed down to the command's scope   *)
(* (the same-bank commands down to the bank), as the controllers and their  *)
(* refresh managers fill in the address.                                    *)
Addresses(cmd) ==
  LET depth == IF cmd \in DOMAIN S.scopes /\ S.scopes[cmd] \in {"channel", "rank"}
               THEN Scope(cmd) ELSE Len(S.levels)
  IN  {[i \in DOMAIN S.levels |-> IF i <= depth THEN n[i] ELSE -1] : n \in Tree.banks}

(* The controller takes a request, asks for the command it needs and issues *)
(* it if it is ready; it issues one command in a cycle at most.             *)
Issue(request, addr, row) ==
  LET cmd == get_preq_command(m_row_state, S.requests[request], addr, row)
  IN  /\ Len(log) < S.maxlog
      /\ \A e \in ToSet(log) : e.age > 0
      /\ check_ready(cmd, addr)
      /\ issue_command(cmd, addr, row)
      /\ log' = <<[cmd |-> cmd, addr |-> addr, age |-> 0]>> \o log
      /\ UNCHANGED device

(* What is older than every latency imposes no wait any more and is         *)
(* forgotten.                                                               *)
Older(history) ==
  LET h == [i \in DOMAIN history |-> history[i] + 1]
  IN  IF h # <<>> /\ Last(h) > MaxAge THEN Front(h) ELSE h

(* IDRAM::tick: m_clk++.                                                    *)
tick ==
  /\ m_cmd_ready_clk' = [n \in Tree.nodes |-> [cmd \in Tree.commands |->
        IF m_cmd_ready_clk[n][cmd] > 0 THEN m_cmd_ready_clk[n][cmd] - 1 ELSE 0]]
  /\ m_cmd_history' = [n \in Tree.nodes |-> [cmd \in Tree.commands |->
        Older(m_cmd_history[n][cmd])]]
  /\ log' = LET l == [i \in DOMAIN log |-> [log[i] EXCEPT !.age = @ + 1]]
            IN  IF l # <<>> /\ Last(l).age > MaxAge THEN Front(l) ELSE l
  /\ UNCHANGED <<device, m_row_state>>

Next ==
  \/ \E request \in S.requested :
       \E addr \in Addresses(S.requests[request]), row \in Rows : Issue(request, addr, row)
  \/ tick

Spec == Init /\ [][Next]_vars

-----------------------------------------------------------------------------
(* Properties *)

(* The bank b is one of those that a logged command is about.               *)
Reaches(e, b) ==
  IF e.cmd \in DOMAIN S.scopes /\ S.scopes[e.cmd] = "bankgroup"
  THEN SameBank(b, e.addr)
  ELSE \A i \in DOMAIN b : e.addr[i] \in {-1, b[i]}

Shared(e, f) == \E b \in Tree.banks : Reaches(e, b) /\ Reaches(f, b)

(* Command log[i], whose kind is among later, was issued when log[j], whose *)
(* kind is among earlier and which shares a bank with it, was cycles old.   *)
Apart(earlier, later, cycles) ==
  \A i, j \in DOMAIN log :
    (i < j /\ log[i].cmd \in later /\ log[j].cmd \in earlier /\ Shared(log[i], log[j]))
      => log[j].age - log[i].age >= cycles

Reads      == {"RD", "RDA"}
CAS        == Reads \cup {"WR", "WRA"}
Precharges == {"PRE", "PREA", "PREsb"}

(* node.h: the types of the clocks, the histories and the row states.       *)
TypeOK ==
  /\ device \in DOMAIN Device
  /\ m_row_state \in [Tree.banks -> SUBSET Rows]
  /\ m_cmd_ready_clk \in [Tree.nodes -> [Tree.commands -> 0..MaxAge]]
  /\ \A n \in Tree.nodes : \A cmd \in Tree.commands :
       /\ Len(m_cmd_history[n][cmd]) <= Tree.window[n][cmd]
       /\ \A i \in DOMAIN m_cmd_history[n][cmd] : m_cmd_history[n][cmd][i] \in 0..MaxAge
  /\ Len(log) <= S.maxlog
  /\ \A e \in ToSet(log) : e.cmd \in Tree.commands /\ e.age \in 0..MaxAge

(* action.h asserts that an activated bank is closed and records no row:    *)
(* whatever order requests, refreshes and precharges come in, a bank never  *)
(* has two rows open.                                                       *)
OneRowOpen == \A b \in Tree.banks : Cardinality(m_row_state[b]) <= 1

(* A refresh finds every bank it refreshes closed: get_preq_command lets it *)
(* out only then, also when another group holds the open bank.              *)
RefreshesClosedBanks ==
  [][\A b \in Tree.banks :
       (log' # <<>> /\ log'[1].age = 0 /\ log'[1].cmd \in Refreshes /\ Reaches(log'[1], b))
         => m_row_state[b] = {}]_vars

(* The prerequisites lead to the goal: in every reachable state of the rows,*)
(* a request that is alone gets its final command issued as the third one   *)
(* at the latest (m_request_translations: "the final DRAM commands needed   *)
(* by every request").                                                      *)
EveryRequestServed ==
  \A request \in S.requested :
    LET final == S.requests[request]
    IN  \A addr \in Addresses(final), row \in Rows :
          LET c1 == get_preq_command(m_row_state, final, addr, row)
              r1 == update_states(m_row_state, c1, addr, row)
              c2 == get_preq_command(r1, final, addr, row)
              r2 == update_states(r1, c2, addr, row)
          IN  final \in {c1, c2, get_preq_command(r2, final, addr, row)}

(* nRP and nRAS: whichever command closed a bank (for itself, for its rank  *)
(* or for its namesakes in other groups), it is activated nRP cycles later  *)
(* at the earliest, and it was not closed before it had been open for nRAS. *)
PrechargeTime == Apart(Precharges, {"ACT"}, S.V.nRP)
RowActiveTime == Apart({"ACT"}, Precharges, S.V.nRAS)

(* nRFC: a bank that was refreshed with its rank or channel is activated    *)
(* nRFC cycles later at the earliest.                                       *)
RefreshTime == Apart({"REFab"}, {"ACT"}, S.V.nRFC)

(* A refresh waits until the banks it refreshes have been precharged.       *)
PrechargedBeforeRefresh == Apart(Precharges, Refreshes, S.V.nRP)

(* The levels, counted from the channel, that nFAW is about.                *)
WindowLevels(D) ==
  {i \in DOMAIN D.levels : /\ D.levels[i] \in {"channel", "rank", "pseudochannel"}
                           /\ D.levels[2] \in {"rank", "pseudochannel"} => i = 2}

(* nFAW: no five activations of a rank (a pseudo channel, or a channel that *)
(* has neither) within nFAW cycles, also when rows are closed and opened    *)
(* again in between.                                                        *)
FourActivateWindow ==
  \A n \in {m \in Tree.nodes : Len(m) \in WindowLevels(S)} :
    LET acts == {i \in DOMAIN log : log[i].cmd = "ACT" /\ IsTarget(n, log[i].addr)}
    IN  \A i, j, k, l, m \in acts :
          (i < j /\ j < k /\ k < l /\ l < m) => log[m].age - log[i].age >= S.V.nFAW

(* When the data of a read or write follow.                                 *)
DataDelay(D, cmd) == IF cmd \in Reads THEN D.V.nCL ELSE D.V.nCWL

(* The data bus carries one burst at a time: the data of reads (nCL after   *)
(* the command) and of writes (nCWL after it) never overlap, across banks,  *)
(* bank groups and ranks.                                                   *)
DataBusExclusive ==
  LET Starts(e) == DataDelay(S, e.cmd) - e.age
      bursts    == {e \in ToSet(log) : e.cmd \in CAS}
  IN  \A e, f \in bursts : (e # f /\ Starts(e) <= Starts(f)) => Starts(e) + S.V.nBL <= Starts(f)

(* What check_ready must achieve: whichever levels the constraints between  *)
(* two commands are stated at, and whichever nodes they are recorded in,    *)
(* together they keep all the distances that banks, ranks and bus need.     *)
TimingKept ==
  /\ PrechargeTime
  /\ RowActiveTime
  /\ RefreshTime
  /\ PrechargedBeforeRefresh
  /\ FourActivateWindow
  /\ DataBusExclusive

-----------------------------------------------------------------------------
(* When the tables of a standard are enough for TimingKept.                 *)

(* What a request for a final command makes a controller issue.             *)
SentFor(D, final) ==
  CASE D.preqs[final] = "Bank::RequireRowOpen"             -> {final, "ACT", "PRE"}
    [] D.preqs[final] = "Bank::RequireBankClosed"          -> {final, "PRE"}
    [] D.preqs[final] = "BankGroup::RequireSameBanksClosed" -> {final, "PREsb"}
    [] OTHER                                               -> {final, "PREA"}

Sent(D) == UNION {SentFor(D, final) : final \in {D.requests[r] : r \in D.requested}}

(* The levels whose node on the path of the command is on the path of every *)
(* bank that the command reaches.                                           *)
PathLevels(D, cmd) ==
  {i \in DOMAIN D.levels :
     cmd \in DOMAIN D.scopes =>
       /\ \A j \in DOMAIN D.levels : D.levels[j] = D.scopes[cmd] => i <= j
       /\ D.scopes[cmd] = "bankgroup" => i <= Len(D.levels) - 2}

(* Two commands are a cycle apart in any case.                              *)
AtLevel(D, i, cmd, f, cycles) ==
  \/ cycles <= 1
  \/ \E t \in timing_cons(D, D.levels[i], cmd, f) :
       ~t.sibling /\ t.window = 1 /\ t.latency >= cycles

(* Some level that a bank's path shares with both commands has a constraint *)
(* between them.                                                            *)
CoversBank(D, earlier, later, cycles) ==
  \A cmd \in earlier \cap Sent(D), f \in later \cap Sent(D) :
    \E i \in PathLevels(D, cmd) \cap PathLevels(D, f) : AtLevel(D, i, cmd, f, cycles)

CoversWindow(D) ==
  "ACT" \in Sent(D) =>
    \A i \in WindowLevels(D) :
      \/ D.V.nFAW <= 4
      \/ /\ i \in PathLevels(D, "ACT")
         /\ \E t \in timing_cons(D, D.levels[i], "ACT", "ACT") :
              ~t.sibling /\ t.window = 4 /\ t.latency >= D.V.nFAW

(* Either the channel keeps the bursts of two commands apart, or a rank its *)
(* own bursts from each other and from those of the ranks beside it.        *)
CoversBus(D) ==
  \A cmd, f \in CAS \cap Sent(D) :
    LET cycles == D.V.nBL + DataDelay(D, cmd) - DataDelay(D, f)
    IN  \/ AtLevel(D, 1, cmd, f, cycles)
        \/ /\ 2 \in PathLevels(D, cmd) \cap PathLevels(D, f)
           /\ AtLevel(D, 2, cmd, f, cycles)
           /\ \/ D.org[D.levels[2]] = 1
              \/ \E t \in timing_cons(D, D.levels[2], cmd, f) : t.sibling /\ t.latency >= cycles

(* Every distance of TimingKept is some constraint of the standard, stated  *)
(* where both commands pass.                                                *)
Covering(D) ==
  /\ D.org["channel"] = 1
  /\ \A timing \in {"nRP", "nRAS", "nRFC", "nFAW", "nBL", "nCL", "nCWL"} : D.V[timing] \in Int
  /\ CoversBank(D, Precharges, {"ACT"}, D.V.nRP)
  /\ CoversBank(D, {"ACT"}, Precharges, D.V.nRAS)
  /\ CoversBank(D, {"REFab"}, {"ACT"}, D.V.nRFC)
  /\ CoversBank(D, Precharges, Refreshes, D.V.nRP)
  /\ CoversWindow(D)
  /\ CoversBus(D)
=============================================================================
