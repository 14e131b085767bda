---------------------------- MODULE MCPairStore ----------------------------
(* Instances of PairStore for TLC. *)
EXTENDS PairStore

Scenario(start, ops, width, kills, losses, faults, starts, looks) ==
  [start |-> start, ops |-> ops, width |-> width, kills |-> kills,
   losses |-> losses, faults |-> faults, starts |-> starts,
   looks |-> looks]

\* Two operations, one after the other, each of which may be killed, cut off
\* by a power loss or hit by a failing call.
Interrupted == {Scenario(start, 2, 1, 1, 1, 1, 0, 0) :
                  start \in {"empty", "direct", "legacy", "managed"}}
\* The same with a daemon started by hand in the middle.
Meddled == {Scenario(start, 2, 1, 1, 0, 1, 1, 0) : start \in {"direct", "managed"}}
\* Three operations, two at a time, and nothing going wrong.
Concurrent == {Scenario("managed", 3, 2, 0, 0, 0, 0, 0)}
\* Two operations, a failing call, and a health inspection beside them.
Inspected == {Scenario(s, 2, 1, 0, 0, 1, 0, 1) : s \in {"direct", "managed"}}
Everything == Interrupted \cup Meddled \cup Concurrent \cup Inspected

Symmetry == Permutations(Updaters)
=============================================================================
