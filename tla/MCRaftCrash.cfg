\* A peer crashes between any two steps and restarts from its persister; two
\* leaders in a row.
SPECIFICATION Spec

CONSTANTS
    Server = {s1, s2, s3}
    Command = {c1}
    None = None
    Disks <- NewDisks
    MaxTerm = 2
    MaxElections = 2
    MaxIndex = 1
    MaxRestarts = 1
    MaxInFlight = 1
    MaxRaftState <- NoSnapshots

SYMMETRY Symmetry

INVARIANT VoteOnce
INVARIANT ElectionSafety
INVARIANT ElectionInv
INVARIANT LeaderCompleteness
PROPERTY ImplementsReplicatedLog

\* With the bounds of this instance used up, no action is left.
CHECK_DEADLOCK FALSE
