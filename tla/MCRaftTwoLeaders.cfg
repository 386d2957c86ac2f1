\* Five peers: a round's counter takes votes of two terms.
SPECIFICATION Spec

CONSTANTS
    Server = {s1, s2, s3, s4, s5}
    Command = {c1}
    None = None
    Disks <- NewDisks
    MaxTerm = 2
    MaxElections = 3
    MaxIndex = 0
    MaxRestarts = 0
    MaxInFlight = 1
    MaxRaftState <- NoSnapshots

SYMMETRY Symmetry

INVARIANT OneLeaderPerTerm

\* With the bounds of this instance used up, no action is left.
CHECK_DEADLOCK FALSE
