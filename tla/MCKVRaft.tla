------------------------------ MODULE MCKVRaft ------------------------------
(* Instances of KVRaft for TLC. *)
EXTENDS KVRaft, TLC

CONSTANTS c1, c2

Call(types, tries) == [types |-> types, tries |-> tries]

\* A late copy of the first call of c1 meets its second one and a call of c2.
Duplicates ==
    [calls |-> (c1 :> <<Call({"Put"}, 2), Call({"Get"}, 1)>>) @@ (c2 :> <<Call({"Append"}, 1)>>),
     snapshotAt |-> {}, restarts |-> 0]

\* One server falls behind and gets a snapshot.
Snapshots ==
    [calls |-> (c1 :> <<Call({"Append"}, 2)>>) @@ (c2 :> <<Call({"Get"}, 1)>>),
     snapshotAt |-> {2}, restarts |-> 1]

\* The third RPC of a call comes to the server of the first.
SameServer ==
    [calls |-> (c1 :> <<Call({"Append"}, 3), Call({"Get"}, 1)>>) @@ (c2 :> <<>>),
     snapshotAt |-> {}, restarts |-> 1]

\* One server falls behind, gets a snapshot and then an entry.
Overtaken ==
    [calls |-> (c1 :> <<Call({"Append"}, 1), Call({"Get"}, 2)>>) @@ (c2 :> <<>>),
     snapshotAt |-> {1}, restarts |-> 0]
OvertakenPlan == {Overtaken}

AllPlans == {Duplicates, Snapshots, SameServer}
=============================================================================
