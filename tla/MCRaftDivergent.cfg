\* The logs diverge at the start; two elections, and no entry of the old terms
\* may be committed by counting replicas. No symmetry: the three peers start
\* with different disks, and one assignment of the disks stands for all.
SPECIFICATION Spec

CONSTANTS
    Server = {s1, s2, s3}
    Command = {c1}
    None = None
    Disks <- TimedOutDisks
    MaxTerm = 4
    MaxElections = 2
    MaxIndex = 3
    MaxRestarts = 0
    MaxInFlight = 1
    MaxRaftState <- NoSnapshots

INVARIANT RejectionBacksUp
INVARIANT LogMatching
INVARIANT LeaderCompleteness
INVARIANT MatchIndexSound
PROPERTY ImplementsReplicatedLog

\* With the bounds of this instance used up, no action is left.
CHECK_DEADLOCK FALSE
