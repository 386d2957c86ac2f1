# TLA+ specifications of Ellen-6.5840

This directory models the Go code under `src/src/`: a Raft library, the
replicated key/value service on top of it, the simulated network and the test
harness both run on, the linearizability checker of the tests, and a MapReduce
coordinator with its workers. It states what the code must do, checks it with TLC
on small instances, and proves the parts where all sizes matter with TLAPS: the
elections of Raft, and the durability and the partitions of the network under the
harness.

## The system

| Part | Source | State | Operations | Talks to |
|---|---|---|---|---|
| Raft peer | `raft/*.go` | `struct Raft` (`types.go`), one mutex | `ticker`, `collectOpinion`, `RequestVote`, `replicator`/`singleAppend`, `AppendEntries`, `helpInstall`, `InstallSnapshot`, `Start`, `Snapshot`, `guardKick`, `Make` | peers over labrpc, the service over `applyCh`, the persister |
| Persister | `raft/persister.go` | raft state and snapshot, saved together | `Save`, `ReadRaftState`, `ReadSnapshot` | one Raft peer |
| KV server | `kvraft/server.go`, `help_snapshot.go` | `kvMap`, `lastSeq`, `chanMap`, `lastApplied` | `Get`, `PutAppend`, `guardApply`, snapshots | clerks, its Raft peer |
| KV clerk | `kvraft/client.go` | `clientId`, `seqNum`, `leader` | `Get`, `PutAppend` with retries | KV servers |
| Network | `labrpc/labrpc.go` | ends, servers, connections | `Call`, `processReq`, `AddServer`, `DeleteServer`, `Enable`, `Cleanup` | everybody |
| Harness of the KV tests | `kvraft/config.go` | end names, saved persisters | `StartServer`, `ShutdownServer`, `ConnectAll`, `partition`, `ConnectClient`, `DisconnectClient` | network, servers, clerks |
| MapReduce coordinator | `mr/coordinator.go` | `phase`, task tables | `RequestTask`, `ResponseTask`, `Done` | workers |
| MapReduce worker | `mr/worker.go` | intermediate and output files | `mapper`, `reducer` | coordinator, file system |
| Linearizability checker | `porcupine/*.go`, `models/kv.go` | one search per partition, a channel of verdicts | `CheckOperations`, `CheckEvents`, `checkParallel`, `checkSingle` | tests |
| Shard controller, sharded KV | `shardctrler/`, `shardkv/` | none yet | clerks only; the handlers are empty | |

What makes each part hard, and what should hold:

* **Elections.** Each election starts one goroutine per peer; they share a
  counter and read the term when they get the lock. Votes come late, from
  earlier terms, and voters crash. At most one peer wins a term, and nobody
  votes twice.
* **Replication.** Requests and replies are lost, late and reordered; leaders
  change; logs diverge. What is committed stays committed, all services see one
  log, and a lasting leader brings everybody up to date.
* **Snapshots and restarts.** Logs are cut under the feet of `nextIndex`,
  `commitIndex` and `lastApplied`. No index falls out of the log, and a restart
  from any persisted state continues the same log.
* **Apply pipeline.** Three kinds of goroutines meet at an unbuffered channel.
  No wakeup is lost, and the service gets each index once, in order.
* **KV service.** An operation is retried at several servers and may be in the
  log more than once; it takes effect once and the history is linearizable, as
  long as Raft hands things over in order.
* **MapReduce.** Workers crash, or outlive their timeout, in the middle of files
  that the next worker of the task uses too; the output is that of the sequential
  program, and the job ends.
* **Network and harness.** Servers are deleted and restarted while their handlers
  run. A positive reply means that the next instance knows of the request, links
  are those the test asked for, and every call returns.
* **Linearizability checker.** A search that undoes its steps on a linked list and
  prunes with a cache, one goroutine per key, stopped by a flag. Its verdict is
  right, what it shows is right, and it ends.

## Modules

| Module | What it is |
|---|---|
| `RaftServer` | One peer. `struct Raft` is a record; each helper that runs with `rf.mu` held is a function from record to record, each handler a function to the new record and the reply. Names are the names of the Go functions. |
| `Raft` | The cluster: goroutines, network, service calls, crashes; the next-state relation; the type invariant and the safety of elections. |
| `RaftLog` | What the logs promise: safety of replication and snapshots, convergence, and the refinement of `ReplicatedLog`. |
| `ReplicatedLog` | The abstract specification: one log that only grows and, at each server, a service that is handed a prefix of it. |
| `RaftApply` | The apply pipeline of one follower, step by step, with the leader as environment and with the KV server or a reader of the Raft tests as service. |
| `LinearizableStore` | The abstract specification of the KV service: a store on which each call takes effect at one moment between its start and its return. |
| `KVRaft` | Clerks, handlers, `guardApply` and snapshots of the KV service over a committed log; refines `LinearizableStore`. |
| `MapReduce` | Coordinator, workers and the directory they share, with inodes. |
| `LabRPC` | The network: `Call`, `processReq`, the goroutine of a handler. |
| `KVConfig` | The harness of the KV tests over `LabRPC`: start, shutdown, partition, and the persisters of the instances of a server. |
| `KvModel` | The sequential model of one key that histories are checked against. |
| `Porcupine` | The checker: entries, linked list, bitsets, `checkSingle`, `checkParallel`, and the definition of linearizability it is compared with. |
| `MCRaft`, `MCRaftApply`, `MCKVRaft`, `MCMapReduce`, `MCKVConfig`, `MCPorcupine` | Instances for TLC. |
| `RaftServerProofs` | Lemmas about the operations of one peer. |
| `RaftProofs` | The inductive invariant of `Raft` and the theorems. |
| `KVConfigProofs` | The inductive invariants of `KVConfig` and the theorems. |

`RaftLog` is separate from `Raft` so that the modules with proofs do not
contain the `INSTANCE` of the abstract specification.

### How state and steps of Raft correspond to the code

* `raft[s]` is the struct of peer `s`. Sequences start at 1 in TLA+, so
  `log[0]`, the dummy entry that carries the term of the snapshot, is
  `rf.log[1]`. `nextIndex` and `matchIndex` are nil until `becomeLeader`
  allocates them; the zero function stands for nil.
* `rf.persister` is what is on disk. `persist` copies the five saved values into
  it. A crash keeps only the persister; `Make` rebuilds the record from it.
* A snapshot is modelled by the sequence of the entries whose effect it
  contains. `FullLog(rf)` is that sequence followed by the log, so a log can be
  compared with another one however far each of them is compacted.
* Each critical section is one step. A goroutine that makes an RPC has two
  steps around it, the building of the arguments and the handling of the reply;
  the state may change in between. `asking` holds the goroutines of
  `collectOpinion` that have not built their arguments yet, `replicators` the
  replicator goroutines, which exist until the process dies.
* `supporter[s][gen]` is the local variable `supporter` of the `collectOpinion`
  that `s` started in term `gen`. It is shared by the goroutines of that
  election and by no other.
* labrpc executes a request at most once. `requests` and `replies` are sets
  without order; `Lose` drops either, and the caller then sees a failed call: a
  replicator tries again, a goroutine of `collectOpinion` ends. When a process
  is killed its requests may still be handled, but no reply reaches it
  (`gen = NoGen`).
* `ballots` and `chosen` are history: the votes cast, and the longest prefix
  that some peer has regarded as committed.
* Time is left out: a timeout may expire at any moment the code would look at
  it. `lastTouchedAt` and `touched` therefore do not appear.
* In `Raft`, `GuardKick` may run whenever `lastApplied < commitIndex`. That the
  code's wakeup channel gets this right is what `RaftApply` checks.
* In `RaftApply` the environment is a leader that replicates a fixed log
  `Chosen`. Its messages are old or new, so any stretch of the log may come with
  any commit index that leader can have had. The service applies commands one by
  one, replaces its state on a snapshot, and starts `go kv.rf.Snapshot(...)`
  when the persisted log is too long.
* The Raft tests put one of two readers in the place of that service
  (`raft/config.go`): `applier` compares each command with what the servers
  committed before, and `applierSnap` also insists on the next index and calls
  `Snapshot` itself every `SnapShotInterval` commands. Their books, `cfg.logs` and
  `cfg.lastApplied`, belong to the server and not to the instance. `killed` is what
  old instances still send after a restart, and their readers write to the same
  books. An error ends the test (`service.at = "failed"`).

Facts about the code that shaped the model: `InstallSnapshot` keeps everything
above the snapshot without comparing terms, and may take `commitIndex` back;
`helpInstall` handles a reply without looking at the state or the term again; a
candidate does not step down on `InstallSnapshot` of its own term; a leader
always sends its whole suffix, so the `min` of `tryUpdateCommit` never bites;
a cluster of one peer never elects a leader, since the counter is only looked at
when a reply arrives.

### How the other modules correspond to the code

**`KVRaft`.** A value is the sequence of the pieces that were put or appended, and
each call writes a piece of its own, so a write that is lost, done twice or out of
order shows. `handlers` are the running `Get` and `PutAppend`: each is at one of
the places where it can be overtaken (before `chanMap` is written, before
`Start`, in the `select`, returned). `chanMap` maps a call to the channel of one
handler; a channel is known by the RPC that made it. The deferred function
deletes the key whatever channel is there, as in the code. `guardApply` is one step per message: the token is sent after
`kv.mu` is released, but only the handler sees it. Raft is reduced to what
`ReplicatedLog` says of it, plus two facts of its interface. What `Start`
accepted may be chosen at any later time or never, also twice for two RPCs of one
call. And entries and snapshots reach the service by different goroutines:
`rf[s]` holds what `guardKick` has taken (`took`) and sent (`sent`), and the
snapshots that goroutines of `InstallSnapshot` have still to send (`installing`).
Entries that `guardKick` took before may come after a snapshot that covers them.
The constant `SnapshotFirst` is the assumption that the rest is in order: a
snapshot is handed over before `guardKick` takes the entries that follow it and
before another one is installed. Nothing in `install.go:96-103` ensures it. With
it, the run `kv` passes; without it, in the run `kv_order`, the service is not
linearizable. A server that is asked to `Start` may accept or refuse at will,
since a deposed leader accepts too.

**`MapReduce`.** `coord` is `struct Coordinator`; `late` says whose
`time.Since(assignedAt)` has passed the timeout. A worker takes one step for each
RPC, `os.Create`, write and rename. A name refers to an inode and an open file
to the inode it was opened as, because that is what makes a slow worker
dangerous: `os.Create` truncates the file another worker has open, and a rename
moves the file under it. JSON records and output lines are the units of writing.
`reducef` is applied to nothing: a line holds the values it would get. The
coordinator's `main` polls `Done` and exits (`coord.up`); after that a worker's
`call` has nothing to dial and ends the worker (`log.Fatal`).

**`LabRPC`.** `reqs[r]` follows one `Call` through `processReq`; the handler
runs on its own (`handler`). The settings `Reliable`, `LongReordering` and
`LongDelays` only rule out behaviours, so the model has one network that may drop
a request or a reply or delay a reply. A handler's effect is that the request is
in the `Persister` of the instance that runs it. Ends are named by who owns
them (and in which instance) and whom they lead to.

**`KVConfig`.** `gen[s]` counts the instances of server `s`, `disk[s][g]` is the
`Persister` of instance `g`, and `saved[s]` is `cfg.saved[s]`: the object that a
running instance writes to, or a copy that nobody writes to. `ShutdownServer` is
three steps and `StartServer` two, since the network goes on between them.
Operations of the harness come one after the other, and links between servers are
changed while all servers run (`AllUp`). Both are the order of the tests
(`kvraft/test_test.go:307-335`), not a check that `config.go` makes: `ConnectAll`
with a server down would enable ends that its next instance does not use.

**`Porcupine`.** A check is chosen in `Init`: a history, whether it comes as
operations or as events, with or without the partial linearizations
(`computeInfo`), with or without a timeout. The list has one node per entry and a
head; `lift`, `unlift` and the search are those of `checker.go`, one iteration
of the loop at a time. `sort.Sort` is not stable, so every order that agrees with
`Less` is an initial state. A bitset is a sequence of chunks with `ChunkBits` bits
instead of 64, and its `hash` has as many, so different sets with one hash meet in
the cache. The reference is `LegalPrefixes`: the sequences of operations
that agree with real time and with the outputs.

## Runs

`tlc -config MCx.cfg MCM`, where `MCM` is the module named at the start of the
configuration's name (`MCRaft`, `MCRaftApply`, `MCKVRaft`, ...).

| Run | Configuration | Checks | Result |
|---|---|---|---|
| `crash` | 3 peers, 2 elections, 1 entry, 1 crash | `VoteOnce`, `ElectionSafety`, `ElectionInv`, `LeaderCompleteness`, `ImplementsReplicatedLog` | hold |
| `divergent` | 3 peers whose logs diverge, 2 elections, up to 3 entries | `RejectionBacksUp`, `LogMatching`, `LeaderCompleteness`, `MatchIndexSound`, `ImplementsReplicatedLog` | hold |
| `snapshot` | logs that diverge or lag, 2 commands, snapshot after every entry, 1 crash | `TypeOK`, `NoIndexPanic`, `MatchIndexSound`, `ImplementsReplicatedLog` | hold |
| `liveness` | diverging logs, lossy network, 2 RPCs at a time, 1 leader | `ReplicationConverges` | holds |
| `apply` | entries and 2 snapshots of the leader in any order, 1 crash, snapshots of the service, 3 readers | `EntriesInOrder`, `NoFalseAlarm`, `SnapshotSound`, `NoLostWakeup`, `CommittedIsApplied` | hold |
| `kv` | 2 clerks, 2 servers, retries, duplicates, snapshots, 1 restart, `SnapshotFirst` assumed | `ServerIsPrefix`, `Linearizable`, `NotifiedWhenApplied` | hold |
| `mapreduce` | 3 workers, 2 crashes, 2 files, 2 reduce tasks | `MapOutputComplete`, `OutputIsSequential`, `JobFinishes` | hold |
| `network` | 3 servers, 1 clerk, 1 request, shutdowns, restarts, partitions | `PositiveReplyIsDurable`, `PartitionIsClean`, `CallReturns` | hold |
| `porcupine` | histories of up to 3 operations on 1 or 2 keys | `VerdictIsRight`, `ListIsIntact`, `VisualizationIsRight`, `CheckReturns` | hold |
| `two_leaders` | 5 peers, 3 elections in 2 terms | `OneLeaderPerTerm` | **violated** |
| `kv_order` | 1 clerk with 2 calls, 2 servers, 1 snapshot, `SnapshotFirst` not assumed | `Linearizable` | **violated** |
| `mapreduce_slow` | 2 workers, a task may be handed out again while its worker lives | `ReducerReadsWholeFiles` | **violated** |

What the passing runs show beyond the core of Raft:

* `apply`: no wakeup is lost, and entries alone are never out of order. `applier`
  never raises a false alarm: an old instance that goes on sends what is in the
  logs, or what comes next in them, and a restart keeps the logs. This does not
  extend to `applierSnap`, and `NoFalseAlarm` leaves it out after a restart:
  `guardKick` never looks at `killed()`, so the old reader can move
  `cfg.lastApplied` while the new one starts from 0, and the test reports "apply
  out of order" although Raft did nothing wrong. "to isolate previous instance of
  this server" (`raft/config.go:271`) is true of the persister and the ends only.
* `kv`: under the assumption `SnapshotFirst`, `Linearizable` is a refinement. A call takes effect where it is chosen for
  the first time; a `Get` returns a value the store has had between its start and
  its return, although it reads `kvMap` after the notification and without
  holding its place in the log. `ServerIsPrefix` says that `kvMap` and `lastSeq`
  always belong to the same prefix of the log; entries that come after a snapshot
  that covers them are filtered as duplicates, even though `lastApplied` goes back
  meanwhile. `NotifiedWhenApplied` says how far the stale `delete` of `chanMap`
  reaches: only the second RPC of a call *at the same server* can be left without a
  token, and then the timeout and a further retry are what saves it.
* `mapreduce`: as long as a worker that lives is never slower than the timeout,
  nothing that a crashed worker left behind gets in the way, the output is that of
  `mrsequential`, and one surviving worker is enough for the job to end. Workers
  that ask when the coordinator is gone end too.
* `network`: the second call of `isServerDead` and the order of `DeleteServer` and
  `Copy` in `ShutdownServer` are what `PositiveReplyIsDurable` depends on.
  `CallReturns` is stronger than the comment in `labrpc.go:37`: a hanging handler
  does not hold up a caller whose end is disabled or whose server was deleted.
* `porcupine`: the verdict agrees with the definition although keys are checked one
  by one and different sets of operations share a hash, and the recorded partial
  linearizations are legal and longest. A history without operations is the
  exception to `CheckReturns`: `KvModel` makes no partitions of it, nobody sends a
  verdict, and without a timeout `checkParallel` waits forever.

The three violations are disagreements between the code and what its tests or
documentation say:

* **Two leaders in one term** (`election.go:39`). `s1` times out in term 1 and
  again in term 2 before all goroutines of the first election have built their
  arguments. The late ones ask for votes in term 2 and add them to the counter of
  the first election, on top of votes of term 1. With five peers `s1` becomes
  leader of term 2 with its own vote and one more, and the other three can elect
  another leader of term 2. `checkOneLeader` (`raft/config.go:442`) fails on
  this. Three peers are safe: the mixed count still needs one real vote, and one
  real vote plus the candidate's own is a majority of three. That is theorem
  `OneWinner`.
* **A snapshot overtaken by an entry** (`install.go:96`). `InstallSnapshot`
  moves `lastApplied` and leaves the hand-over to a goroutine. `guardKick` may
  send the next entry first. In the counterexample of `kv_order` a clerk appends
  and is told OK by server 0, which snapshots; server 1 gets the snapshot, and
  while the goroutine waits, the clerk's `Get` is accepted by server 1, chosen,
  applied to the empty store and answered with `ErrNoKey`. The tests end with
  "history is not linearizable" (`kvraft/test_test.go:382`). If the entry is a
  write, the snapshot then replaces the state that contains it, and the entry is
  not sent again. `applierSnap` (`raft/config.go:228`) ends the Raft tests with
  "apply out of order" on the same order of messages; this is why `NoFalseAlarm`
  says nothing of it once the leader has sent a snapshot.
* **Two workers with one temporary file** (`mr/worker.go:145`). The names of the
  `.tmp` files do not tell the workers of a task apart. When the first one is only
  slow, the second truncates its file, or the first renames the file that the
  second has just created, and a reducer reads half a file, against
  `mr-README.md:68`. Reducers have the same trouble with `mr-out-y`, which is
  written in place: with `SlowWorkers = TRUE` `OutputIsSequential` fails too. The
  first TODO of `mr-README.md` describes the problem and a remedy.

A smaller disagreement that no run is kept for: a replicator ends only when the
process does (`replicate.go:39`), so a peer that leads, steps down and leads again
has two for each peer, while `README.md:54` says that there is one and that
messages to a peer are therefore in order.

### Bounds

The bounds are constants of the modules, guards of the actions, and nothing else
depends on them.

Raft (`MaxTerm`, `MaxElections`, `MaxIndex`, `MaxRestarts`, `MaxInFlight` for RPCs
under way at a time, `MaxRaftState` for entries that make the service snapshot; in
`RaftApply` `MaxInstalls`, the length of `Chosen`, and `SnapShotInterval`, 2 instead
of 10 so that a log of three entries has a snapshot in it):

* Two elections, in one term or in two, and a crash are what it takes to vote,
  forget and vote again, and to have votes of one term arrive in the next.
* Two elections are also what it takes to have a leader whose predecessor left
  entries, acknowledgements or late replies behind. More leaders in a row come
  in through the initial state: `Diverged` is a cluster that restarts after
  two leaders have failed to replicate, so two elections on top of it are four
  leaders, and the case of an old entry on a majority arises. In `divergent` one of
  the two has timed out once more before the restart (`TimedOutDisks`). It has the
  higher term and comes second if both lead; the two initial states are the two
  orders.
* With one RPC at a time requests are still lost and delayed across elections.
  `liveness` has two, because a bound of one would let the RPCs of one replicator
  keep those of another out of the network.
* The first peer of `Diverged` has two entries of term 1, the second, who
  may lead, one of term 1 and one of term 2, and the third only the first entry. So
  each branch of `stepBack` is taken: the log is too short, the conflicting term is
  in the leader's log, and it is not. `MaxIndex` is 3, which leaves room for an
  entry of each leader's own.
* Entries of one term differ only by their command. `snapshot` has two commands,
  so that an entry that is applied twice or skipped shows; the other runs have
  one, and what they tell apart is terms and lengths. `LaggingDisks` adds to
  `snapshot` a cluster with an old entry that a new leader commits together with
  its own, and a peer that needs both.
* Peers are symmetric in the runs that start from new disks. In `divergent` and
  `snapshot` symmetry would merge nothing, since the three peers start with
  different disks: one assignment of the disks stands for all. In `liveness`
  it would not be sound.

KV (`Plans`): a plan bounds the calls of each clerk, the RPCs of a call, where
snapshots may be taken, and the restarts. `Duplicates` has a late copy of a call
that meets the next call of its clerk and a call of another one; `Snapshots` a
server that falls behind, gets a snapshot and then a duplicate; `SameServer` a
third RPC, which with two servers is the second one at the first server; and
`Overtaken`, of `kv_order` only, a call before and one after a snapshot. Two
servers are enough, because Raft is not in the model and what one server does
depends on others only through the log and snapshots.

MapReduce (`MaxCrashes`): two of three workers may crash; two files and two reduce
tasks, with a key in both files, two keys in one bucket and an empty bucket.

Network (`MaxGen`, `MaxRestarts`, `ClerkTo`): one request, since requests do not
meet in the network; two instances of one server, three servers for partitions.
The proofs cover all other numbers.

Porcupine (`Checks`, `ChunkBits`): three operations are what it takes to lift,
unlift and find a state in the cache; `ChunkBits = 2` puts the third operation in
the second chunk. Intervals touch, overlap and have no length.

`CHECK_DEADLOCK FALSE` is set in the runs of `Raft`, `KVRaft`, `KVConfig` and
`Porcupine`: when elections, entries, calls or crashes are used up, or the check
has returned, the instance stops. The run of `MapReduce` checks for deadlock. That
of `RaftApply` does too, but this shows nothing: the leader can always send another
`AppendEntries`. Its statement about progress is `CommittedIsApplied`.

### Fairness

`FairSpec` of `Raft` says: `guardKick` and each replicator loop forever, so they
take their step if it stays possible (weak fairness); labrpc loses a message with
a probability below one and the replicators retry, so a handler or a return that
is possible again and again happens (strong fairness); a vote RPC ends at some
time, handled or lost (weak fairness), so that it does not occupy the bounded
network forever. Nothing is assumed about elections. `ReplicationConverges` is about a peer that leads forever from some
point on; that such a peer exists depends on timeouts and is not claimed.

`FairSpec` of `RaftApply` says that `guardKick`, the goroutines that wait for
`applyCh` and the service's loop run when they can. The leader owes nothing.

`FairSpec` of `MapReduce` says that every worker that lives takes its next step, that
time passes and that `main` of the coordinator polls; nothing is assumed about who crashes. `FairSpec` of `KVConfig`
says that the goroutines of the network run. Handlers may hang, so nothing is
assumed about them, and the harness owes nothing. `FairSpec` of `Porcupine` says
that `checkParallel` and its goroutines run. `KVRaft` has no liveness
property: whether a call ever returns depends on elections.

## Proofs

`RaftProofs` proves, for any finite set of peers, any commands, any initial
contents of the persisters that have the right type, and any bounds:

| Theorem | Statement |
|---|---|
| `TypeCorrect` | `Spec => []TypeOK` |
| `VotesAreUnique` | `Spec => []VoteOnce` |
| `ElectionInvariant` | `Spec => []ElectionInv` |
| `OneWinner` | `Cardinality(Server) <= 3 => (Spec => []ElectionSafety)` |

The assumptions are `ConstantsAssumption` (the set of peers is finite and `None`
is no peer, bounds are numbers) and `DisksAssumption` (a persister holds a
well-typed value whose snapshot goes as far as its index).

The argument. `VoteOnce` is not inductive: that a peer does not vote twice rests
on `votedFor` still being the vote it cast, and after a crash on the persister
holding it. `ElectionInv` adds that: (1) whenever the lock is free the persister
equals the struct; (2) every vote in `ballots` either belongs to an earlier term
of the voter or is the voter's `votedFor`; (3) who is not a follower has voted
for itself; (4) a granted vote that travels back was cast by the callee in the
term of the request, and the request was sent in the name of the sender; (5) who
has replicators of a term has, in that term, its own vote and that of another
peer. The invariant `Inv` that is proved inductive is `ElectionInv`, the types
and a few facts on goroutines and counters. (5) is weaker than "a majority", and
cannot be stronger: the counter may mix two terms. For three peers it is
enough, because two sets of two voters out of three meet, and then (2) gives one
candidate.

`RaftServerProofs` has one lemma per operation of the peer. `Good(old, new)` is
what they establish: the record stays well typed, nothing is left unpersisted,
no term or vote is taken back, and nobody becomes candidate or leader on the way.
`RaftProofs` has one lemma per action.

`KVConfigProofs` proves, for any sets of servers, clerks and requests and any
bounds (`NetworkAssumption`, `ConfigAssumption`: there is a server, clerks are no
servers, bounds are numbers):

| Theorem | Statement |
|---|---|
| `PositiveReplyDurability` | `Spec => []PositiveReplyIsDurable` |
| `PartitionsAreClean` | `Spec => []PartitionIsClean` |

The argument for the first. That an answered request is in the `Persister` the
next instance starts from is not inductive: one has to know which object the
handler wrote to, and that it is still the one `saved` stands for at the moment
of the reply. The invariant `IInv` adds: (1) types; (2) a server that the network
knows is an instance whose `Persister` `saved` refers to (`ServersShared`), so the
copy is made only after `DeleteServer`; (3) a request that is being handled
is bound to an instance that has been started, and one that is done is in the
`Persister` of this instance (`Bound`); (4) what was answered, or is about to
be after the second look at the server, is in what `saved` stands for
(`SavedBy`). The step that carries the proof is `Reply`: `isServerDead` is false,
so the instance of the request is the one the network knows, and by (2) its
`Persister` is `saved`.

The argument for the second. `PartitionIsClean` speaks of transitive links, which
`ShutdownServer` and `StartServer` preserve only because a server that is down has
no links at all, and because links change only while all servers run. `CInv` adds
this (`Down`) to the three facts of `PartitionIsClean` (`Linked`). `partition` is the hard case: the links
afterwards are those within the two sides, whatever they were before.

Only model-checked: everything in `RaftLog`, `RaftApply`, `KVRaft`, `MapReduce`
and `Porcupine`, and `CallReturns`. Liveness under fairness is out of the prover's
reach. So is induction over data, hence what the recursive or folded operators
return for every input; `Porcupine` uses recursive operators for its reference
definition.

## Not modelled

* labgob: reflection over Go values and a wrapper of encoding/gob. What is encoded
  is taken to be decoded again.
* The reflection of labrpc (`MakeService`, `Service.dispatch`) and its counters of
  calls and bytes.
* The drivers of the tests (`one`, `wait`, `nCommitted`, `begin`, `end`), which
  choose inputs and keep the books; `make_partition`, which chooses the arguments
  of `partition`. What `checkOneLeader` demands is stated as a property.
* The HTML of porcupine's visualization.
* The command lines under `main/` and the sample applications under `mrapps/`,
  except that `maybeCrash` is the crash of a worker.
* The shard controller and the sharded KV: their handlers are empty, and so there
  is nothing that their clerks and harnesses could be checked against.
* The leader's side of the wakeups in `RaftApply` (`Start` and `updateCommitIndex`
  kick whenever they raise `commitIndex`).
* Raft runs with two leaders *and* snapshots: beyond what TLC does in minutes, so
  a late `InstallSnapshot` reply that meets a second leadership is not covered.
