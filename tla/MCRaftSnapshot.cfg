\* The logs diverge at the start, or a peer lags behind; the services take
\* snapshots as early as they can, so that a follower needs InstallSnapshot, and
\* a peer crashes and restarts from its snapshot.  No symmetry: the three peers
\* start with different disks, and one assignment of the disks stands for all.
SPECIFICATION Spec

CONSTANTS
    Server = {s1, s2, s3}
    Command = {c1, c2}
    None = None
    Disks <- DivergedOrLaggingDisks
    MaxTerm = 3
    MaxElections = 1
    MaxIndex = 2
    MaxRestarts = 1
    MaxInFlight = 1
    MaxRaftState = 0

INVARIANT TypeOK
INVARIANT NoIndexPanic
INVARIANT MatchIndexSound
PROPERTY ImplementsReplicatedLog

\* With the bounds of this instance used up, no action is left.
CHECK_DEADLOCK FALSE
