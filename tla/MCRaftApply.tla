---------------------------- MODULE MCRaftApply ----------------------------
(* Instances of RaftApply for TLC. *)
EXTENDS RaftApply

\* A log of three entries that two leaders wrote.
ThreeEntries == [i \in 1 .. 3 |-> [Term |-> IF i = 1 THEN 1 ELSE 2, Command |-> i]]

\* maxraftstate = -1: the service takes no snapshots.
NoSnapshots == -1
=============================================================================
