\* Lossy network, one election, diverging logs: the leader brings everybody to
\* its log.
SPECIFICATION FairSpec

CONSTANTS
    Server = {s1, s2, s3}
    Command = {c1}
    None = None
    Disks <- DivergedDisks
    MaxTerm = 3
    MaxElections = 1
    MaxIndex = 3
    MaxRestarts = 0
    MaxInFlight = 2
    MaxRaftState <- NoSnapshots

PROPERTY ReplicationConverges

\* With the bounds of this instance used up, no action is left.
CHECK_DEADLOCK FALSE
