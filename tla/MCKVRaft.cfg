\* Two clerks and two servers: late duplicates, a server that falls behind and
\* gets a snapshot, and a call whose third RPC comes back to the first server.
\* Assumed: a snapshot of the leader is handed over before what comes after it.
SPECIFICATION Spec
CONSTANTS
    NServer = 2
    c1 = c1
    c2 = c2
    Client = {c1, c2}
    Key = {x}
    Plans <- AllPlans
    SnapshotFirst = TRUE
    None = None
INVARIANT ServerIsPrefix
PROPERTY Linearizable
PROPERTY NotifiedWhenApplied

\* The clerks make a bounded number of calls.
CHECK_DEADLOCK FALSE
