\* The network under the operations of the kvraft harness: shutdowns, restarts,
\* partitions and clerks that come and go while a request is under way.
SPECIFICATION FairSpec
CONSTANTS
    Server = {s1, s2, s3}
    Clerk = {c1}
    Request = {r1}
    ClerkTo = {s1}
    MaxGen = 2
    MaxRestarts = 1
INVARIANT PositiveReplyIsDurable
INVARIANT PartitionIsClean
PROPERTY CallReturns
CHECK_DEADLOCK FALSE
