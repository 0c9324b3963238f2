------------------------------ MODULE DRAMTree ------------------------------
(***************************************************************************)
(* The tree of nodes that the constructor of dram/node.h makes for one      *)
(* channel, and the constraints and histories of every node in it.  S is    *)
(* what DRAMStandards says of a standard, with its organisation S.org.      *)
(*                                                                          *)
(* A node is the sequence of the ids on its path, <<0>> being the channel.  *)
(***************************************************************************)
EXTENDS Integers, TLC, SequencesExt

(* The paths of a level, and of the last one that has nodes.                *)
LevelNodes(S, i) ==
  {n \in [1..i -> 0..7] : \A j \in 1..i : n[j] < S.org[S.levels[j]]}

BankNodes(S) == LevelNodes(S, Len(S.levels))

(* populate_timingcons: the constraints that a command imposes, in a node   *)
(* of the level, on the command f.                                          *)
timing_cons(S, level, cmd, f) ==
  {t \in S.timingcons : t.level = level /\ cmd \in t.preceding /\ f \in t.following}

(* How long a history a node of the level keeps of a command.               *)
Window(S, level, cmd) ==
  Max({t.window : t \in UNION {timing_cons(S, level, cmd, f) : f \in ToSet(S.commands)}} \cup {0})

(* Everything about the tree that does not change; maxage is the longest    *)
(* that a constraint looks back.                                            *)
create_nodes(S) ==
  LET nodes    == UNION {LevelNodes(S, i) : i \in DOMAIN S.levels}
      commands == ToSet(S.commands)
  IN  [banks    |-> BankNodes(S),
       nodes    |-> nodes,
       commands |-> commands,
       cons     |-> [n \in nodes |-> [pair \in commands \X commands |->
                       timing_cons(S, S.levels[Len(n)], pair[1], pair[2])]],
       window   |-> [n \in nodes |-> [cmd \in commands |->
                       Window(S, S.levels[Len(n)], cmd)]],
       maxage   |-> Max({t.latency : t \in S.timingcons})]

(* A device with its tree.                                                  *)
WithTree(S) == S @@ [tree |-> create_nodes(S)]
=============================================================================
