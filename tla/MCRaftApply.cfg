\* The leader sends entries and snapshots in any order; the service, the key/value
\* server or a reader of the Raft tests, takes its own, and crashes.
SPECIFICATION FairSpec

CONSTANTS
    Server = {s1}
    Command = {1, 2, 3}
    None = None
    Self = s1
    Chosen <- ThreeEntries
    LeaderTerm = 2
    MaxInstalls = 2
    MaxRestarts = 1
    MaxRaftState = 0
    Readers = {"kvraft", "applier", "applierSnap"}
    SnapShotInterval = 2

INVARIANT EntriesInOrder
INVARIANT NoFalseAlarm
INVARIANT SnapshotSound
INVARIANT NoLostWakeup
PROPERTY CommittedIsApplied
