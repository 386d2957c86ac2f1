\* Nothing says that a snapshot of the leader is handed over before the entries
\* that follow it.
SPECIFICATION Spec
CONSTANTS
    NServer = 2
    c1 = c1
    c2 = c2
    Client = {c1, c2}
    Key = {x}
    Plans <- OvertakenPlan
    SnapshotFirst = FALSE
    None = None
PROPERTY Linearizable

\* The clerks make a bounded number of calls.
CHECK_DEADLOCK FALSE
