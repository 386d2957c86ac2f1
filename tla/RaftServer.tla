---------------------------- MODULE RaftServer ----------------------------
(***************************************************************************)
(* One Raft peer (src/src/raft): the struct Raft as a record, the helpers  *)
(* that run with rf.mu held as functions from record to record, and the    *)
(* RPC handlers and reply paths as functions that also return the reply.   *)
(* Go's rf.mu makes each of them one atomic step; Raft.tla says when the   *)
(* steps happen.  Timers, logging and the unused fields of types.go are    *)
(* left out.                                                               *)
(***************************************************************************)
EXTENDS Integers, Sequences, FiniteSets, FiniteSetsExt

CONSTANTS
    Server,     \* the indices of rf.peers
    Command,    \* what services pass to Start
    None        \* -1 in votedFor; the nil Command of log[0]

Follower == "Follower"
Candidate == "Candidate"
Leader == "Leader"
State == {Follower, Candidate, Leader}

Entry == [Term: Int, Command: Command \cup {None}]

\* A log always has its dummy entry.  The bytes of a snapshot are modelled by
\* the entries whose effect the snapshot contains.
LogType == {l \in Seq(Entry) : l # <<>>}
PersisterType ==
    [currentTerm: Nat, votedFor: Server \cup {None}, log: LogType, snapIndex: Nat,
     snapshot: Seq(Entry)]
RaftType ==
    [me: Server, state: State, currentTerm: Nat, votedFor: Server \cup {None}, log: LogType,
     snapIndex: Nat, snapshot: Seq(Entry), commitIndex: Nat, lastApplied: Nat,
     nextIndex: [Server -> Int], matchIndex: [Server -> Int], persister: PersisterType]

\* The arguments and the replies of the three RPCs.
VoteArgs == [Term: Nat, CandidateId: Server, LastLogIndex: Int, LastLogTerm: Int]
VoteReply == [Term: Nat, VoteGranted: BOOLEAN]
AppendArgs == [Term: Nat, LeaderId: Server, PrevLogIndex: Int, PrevLogTerm: Int,
               Entries: Seq(Entry), LeaderCommit: Nat]
AppendReply == [Term: Nat, Success: BOOLEAN, XTerm: Int, XIndex: Int, XLen: Int]
InstallArgs == [Term: Nat, LeaderId: Server, LastIncludedIndex: Nat, LastIncludedTerm: Int,
                Data: Seq(Entry)]
InstallReply == [Term: Nat]

\* "x > len(rf.peers)/2"
MajorityOf(n) == n > Cardinality(Server) \div 2

min(a, b) == IF a <= b THEN a ELSE b

-----------------------------------------------------------------------------
(* The log: log[0] is a dummy that holds the term of the last entry in the *)
(* snapshot, so the entry with global index i is log[i - snapIndex].  TLA+ *)
(* sequences start at 1, hence the "+ 1".                                  *)

logLength(rf) == Len(rf.log) + rf.snapIndex
lastLogIndex(rf) == logLength(rf) - 1
get(rf, i) == rf.log[i - rf.snapIndex + 1]
entriesFrom(rf, start) == SubSeq(rf.log, start - rf.snapIndex + 1, Len(rf.log))
getSnap(rf) == rf.log[1].Term

\* The indices for which get does not panic with an index out of range.
Index(rf) == rf.snapIndex .. lastLogIndex(rf)

-----------------------------------------------------------------------------
(* persister.go, Make.  The bytes handed to Persister.Save are modelled as *)
(* the record of the five values that are encoded and decoded.             *)

Persisted(rf) ==
    [currentTerm |-> rf.currentTerm, votedFor |-> rf.votedFor, log |-> rf.log,
     snapIndex |-> rf.snapIndex, snapshot |-> rf.snapshot]

persist(rf) == [rf EXCEPT !.persister = Persisted(rf)]

\* What readPersist leaves in a new Raft when the persister is empty.
EmptyPersister ==
    [currentTerm |-> 0, votedFor |-> None, log |-> <<[Term |-> -1, Command |-> None]>>,
     snapIndex |-> 0, snapshot |-> <<>>]

\* Mutant of readPersist: snapIndex is not restored.
readPersistNoSnapIndex(rf) ==
    LET ps == rf.persister IN
    [rf EXCEPT !.currentTerm = ps.currentTerm, !.votedFor = ps.votedFor, !.log = ps.log,
               !.snapshot = ps.snapshot]

readPersist(rf) ==
    LET ps == rf.persister IN
    [rf EXCEPT !.currentTerm = ps.currentTerm, !.votedFor = ps.votedFor, !.log = ps.log,
               !.snapIndex = ps.snapIndex, !.snapshot = ps.snapshot]

\* commitIndex and lastApplied start from 0 even when the persister holds a
\* snapshot.  nextIndex and matchIndex are nil until becomeLeader allocates
\* them: the zero function stands for nil.
Make(me, ps) ==
    readPersist([me |-> me, state |-> Follower,
                 currentTerm |-> 0, votedFor |-> None, log |-> <<[Term |-> -1, Command |-> None]>>,
                 snapIndex |-> 0, snapshot |-> <<>>,
                 commitIndex |-> 0, lastApplied |-> 0,
                 nextIndex |-> [i \in Server |-> 0], matchIndex |-> [i \in Server |-> 0],
                 persister |-> ps])

-----------------------------------------------------------------------------
(* help_election.go *)

toFollower(rf) == [rf EXCEPT !.state = Follower]

becomeCandidate(rf) ==
    persist([rf EXCEPT !.currentTerm = @ + 1, !.state = Candidate, !.votedFor = rf.me])

becomeLeader(rf) ==
    [rf EXCEPT
        !.state = Leader,
        !.nextIndex = [i \in Server |-> IF i = rf.me THEN -1 ELSE lastLogIndex(rf) + 1],
        !.matchIndex = [i \in Server |-> IF i = rf.me THEN -1 ELSE 0]]

newGen(rf, term) ==
    persist([rf EXCEPT !.currentTerm = term, !.state = Follower, !.votedFor = None])

\* The rule every handler and reply path starts with.
observeTerm(rf, term) == IF term > rf.currentTerm THEN newGen(rf, term) ELSE rf

\* Mutant of upToDate: the candidate's log is not looked at.
upToDateAlways(rf, args) == TRUE

upToDate(rf, args) ==
    LET myLastTerm == get(rf, lastLogIndex(rf)).Term IN
    \/ args.LastLogTerm > myLastTerm
    \/ args.LastLogTerm = myLastTerm /\ args.LastLogIndex >= lastLogIndex(rf)

\* Mutant of mayVoteFor: an earlier vote in the same term is not looked at.
mayVoteForTwo(rf, args) == upToDate(rf, args)

mayVoteFor(rf, args) == rf.votedFor \in {None, args.CandidateId} /\ upToDate(rf, args)

\* Mutant of tryVotingFor: persist is forgotten.
tryVotingForUnpersisted(rf, args) ==
    IF mayVoteFor(rf, args) THEN [rf EXCEPT !.votedFor = args.CandidateId] ELSE rf

tryVotingFor(rf, args) ==
    IF mayVoteFor(rf, args) THEN persist([rf EXCEPT !.votedFor = args.CandidateId]) ELSE rf

-----------------------------------------------------------------------------
(* election.go *)

\* The arguments are read when the goroutine of one peer gets the lock, not
\* when the election started.
voteArgs(rf) ==
    [Term |-> rf.currentTerm, CandidateId |-> rf.me,
     LastLogIndex |-> lastLogIndex(rf), LastLogTerm |-> get(rf, lastLogIndex(rf)).Term]

RequestVote(rf0, args) ==
    LET rf == observeTerm(rf0, args.Term)
        stale == args.Term < rf.currentTerm
    IN  [rf |-> IF stale THEN rf ELSE tryVotingFor(rf, args),
         reply |-> [Term |-> rf.currentTerm,
                    VoteGranted |-> ~stale /\ mayVoteFor(rf, args)]]

\* Mutant of countsVote: the term of the request is not compared.
countsVoteOfAnyTerm(rf, args, reply) == reply.VoteGranted /\ rf.state = Candidate

\* "reply.VoteGranted && rf.state == Candidate && rf.currentTerm == args.Term"
countsVote(rf, args, reply) ==
    reply.VoteGranted /\ rf.state = Candidate /\ rf.currentTerm = args.Term

-----------------------------------------------------------------------------
(* help_replicate.go, help_log.go *)

\* Mutant of batchAppend: persist is forgotten.
batchAppendUnpersisted(rf, entries) == [rf EXCEPT !.log = @ \o entries]

batchAppend(rf, entries) == persist([rf EXCEPT !.log = @ \o entries])

\* Offsets at which the local log, from myIdx on, and entries, from yourIdx
\* (0-based) on, hold entries of different terms.
conflicts(rf, myIdx, yourIdx, entries) ==
    {j \in 0 .. min(logLength(rf) - myIdx, Len(entries) - yourIdx) - 1 :
        get(rf, myIdx + j).Term # entries[yourIdx + j + 1].Term}

reconcileEntries(rf, myIdx, yourIdx, entries) ==
    LET diff == conflicts(rf, myIdx, yourIdx, entries)
        same == IF diff # {} THEN Min(diff)
                ELSE min(logLength(rf) - myIdx, Len(entries) - yourIdx)
        kept == IF diff # {} THEN SubSeq(rf.log, 1, myIdx + same - rf.snapIndex) ELSE rf.log
    IN  batchAppend([rf EXCEPT !.log = kept],
                    SubSeq(entries, yourIdx + same + 1, Len(entries)))

\* Replicas that hold index N as far as the leader knows, itself included.
holders(rf, N) == {i \in Server : i = rf.me \/ rf.matchIndex[i] >= N}

\* Mutant of committable: entries of earlier terms are counted too.
committableAnyTerm(rf) ==
    {N \in rf.snapIndex + 1 .. lastLogIndex(rf) :
        N > rf.commitIndex /\ MajorityOf(Cardinality(holders(rf, N)))}

committable(rf) ==
    {N \in rf.snapIndex + 1 .. lastLogIndex(rf) :
        /\ N > rf.commitIndex
        /\ MajorityOf(Cardinality(holders(rf, N)))
        /\ get(rf, N).Term = rf.currentTerm}

updateCommitIndex(rf) ==
    IF committable(rf) # {} THEN [rf EXCEPT !.commitIndex = Max(committable(rf))] ELSE rf

tryUpdateCommit(rf, leaderCommit) ==
    IF leaderCommit > rf.commitIndex
    THEN [rf EXCEPT !.commitIndex = min(leaderCommit, lastLogIndex(rf))] ELSE rf

indicesOfTerm(rf, term) ==
    {i \in rf.snapIndex + 1 .. lastLogIndex(rf) : get(rf, i).Term = term}

lastIndexOfTerm(rf, term) ==
    IF indicesOfTerm(rf, term) = {} THEN -1 ELSE Max(indicesOfTerm(rf, term))

\* Mutant of backedUp: one beyond the first entry of the conflicting term.
backedUpOneLess(rf, reply) ==
    IF reply.XTerm = -1 THEN min(reply.XLen, logLength(rf))
    ELSE IF lastIndexOfTerm(rf, reply.XTerm) # -1 THEN lastIndexOfTerm(rf, reply.XTerm) + 1
    ELSE reply.XIndex + 1

\* Mutant of backedUp: one beyond the entry after the leader's last of that term.
backedUpPastTerm(rf, reply) ==
    IF reply.XTerm = -1 THEN min(reply.XLen, logLength(rf))
    ELSE IF lastIndexOfTerm(rf, reply.XTerm) # -1 THEN lastIndexOfTerm(rf, reply.XTerm) + 2
    ELSE reply.XIndex

backedUp(rf, reply) ==
    IF reply.XTerm = -1 THEN min(reply.XLen, logLength(rf))
    ELSE IF lastIndexOfTerm(rf, reply.XTerm) # -1 THEN lastIndexOfTerm(rf, reply.XTerm) + 1
    ELSE reply.XIndex

\* Mutant of stepBack: nextIndex stays where it is.
stepBackNever(rf, server, reply) == rf

stepBack(rf, server, reply) == [rf EXCEPT !.nextIndex[server] = backedUp(rf, reply)]

-----------------------------------------------------------------------------
(* replicate.go *)

appendArgs(rf, i) ==
    LET prevLogIndex == rf.nextIndex[i] - 1 IN
    [Term |-> rf.currentTerm, LeaderId |-> rf.me,
     PrevLogIndex |-> prevLogIndex, PrevLogTerm |-> get(rf, prevLogIndex).Term,
     Entries |-> entriesFrom(rf, prevLogIndex + 1), LeaderCommit |-> rf.commitIndex]

\* Mutant of onAppendReply: the current log is used, not the arguments.
onAppendReplyNow(rf, i, args, reply) ==
    IF reply.Term > rf.currentTerm THEN newGen(rf, reply.Term)
    ELSE IF rf.currentTerm # args.Term \/ rf.state # Leader THEN rf
    ELSE IF ~reply.Success THEN stepBack(rf, i, reply)
    ELSE updateCommitIndex([rf EXCEPT !.matchIndex[i] = lastLogIndex(rf),
                                      !.nextIndex[i] = logLength(rf)])

\* singleAppend after the RPC returned.
onAppendReply(rf, i, args, reply) ==
    LET matched == args.PrevLogIndex + Len(args.Entries) IN
    IF reply.Term > rf.currentTerm THEN newGen(rf, reply.Term)
    ELSE IF rf.currentTerm # args.Term \/ rf.state # Leader THEN rf
    ELSE IF ~reply.Success THEN stepBack(rf, i, reply)
    ELSE updateCommitIndex([rf EXCEPT !.matchIndex[i] = matched,
                                      !.nextIndex[i] = matched + 1])

\* First index of the run of entries of one term that ends at index i.
startOfRun(rf, i) ==
    Min({x \in rf.snapIndex + 1 .. i : \A y \in x .. i : get(rf, y).Term = get(rf, i).Term})

\* The fields of a reply that the handler does not set have Go's zero values.
appendReply(rf, success, xTerm, xIndex, xLen) ==
    [Term |-> rf.currentTerm, Success |-> success,
     XTerm |-> xTerm, XIndex |-> xIndex, XLen |-> xLen]

accept(rf, args) ==
    [rf |-> tryUpdateCommit(rf, args.LeaderCommit), reply |-> appendReply(rf, TRUE, 0, 0, 0)]

\* Mutant of AppendEntries: PrevLogTerm is not compared.
AppendEntriesAnyTerm(rf0, args) ==
    LET rf == IF rf0.state = Candidate /\ args.Term = rf0.currentTerm THEN toFollower(rf0)
              ELSE observeTerm(rf0, args.Term)
        prev == args.PrevLogIndex
    IN  IF args.Term < rf.currentTerm
        THEN [rf |-> rf, reply |-> appendReply(rf, FALSE, 0, 0, 0)]
        ELSE IF prev >= logLength(rf)
        THEN [rf |-> rf, reply |-> appendReply(rf, FALSE, -1, -1, logLength(rf))]
        ELSE accept(reconcileEntries(rf, prev + 1, 0, args.Entries), args)

AppendEntries(rf0, args) ==
    LET rf == IF rf0.state = Candidate /\ args.Term = rf0.currentTerm THEN toFollower(rf0)
              ELSE observeTerm(rf0, args.Term)
        prev == args.PrevLogIndex
    IN  IF args.Term < rf.currentTerm
        THEN [rf |-> rf, reply |-> appendReply(rf, FALSE, 0, 0, 0)]
        ELSE IF prev <= rf.snapIndex
        THEN accept(IF rf.snapIndex - prev >= Len(args.Entries) THEN rf
                    ELSE reconcileEntries(rf, rf.snapIndex + 1, rf.snapIndex - prev, args.Entries),
                    args)
        ELSE IF prev >= logLength(rf)
        THEN [rf |-> rf, reply |-> appendReply(rf, FALSE, -1, -1, logLength(rf))]
        ELSE IF get(rf, prev).Term # args.PrevLogTerm
        THEN [rf |-> rf,
              reply |-> appendReply(rf, FALSE, get(rf, prev).Term, startOfRun(rf, prev), -1)]
        ELSE accept(reconcileEntries(rf, prev + 1, 0, args.Entries), args)

-----------------------------------------------------------------------------
(* install.go *)

installArgs(rf) ==
    [Term |-> rf.currentTerm, LeaderId |-> rf.me, LastIncludedIndex |-> rf.snapIndex,
     LastIncludedTerm |-> getSnap(rf), Data |-> rf.snapshot]

\* Mutant of onInstallReply: the current log is used, not the arguments.
onInstallReplyNow(rf, i, args, reply) ==
    IF reply.Term > rf.currentTerm THEN newGen(rf, reply.Term)
    ELSE [rf EXCEPT !.matchIndex[i] = lastLogIndex(rf), !.nextIndex[i] = logLength(rf)]

\* helpInstall after the RPC returned: neither the state nor the term the
\* request was sent in is looked at again.
onInstallReply(rf, i, args, reply) ==
    IF reply.Term > rf.currentTerm THEN newGen(rf, reply.Term)
    ELSE [rf EXCEPT !.matchIndex[i] = args.LastIncludedIndex,
                    !.nextIndex[i] = args.LastIncludedIndex + 1]

\* The dummy entry of a log whose snapshot ends with an entry of term t.
snapEntry(t) == [Term |-> t, Command |-> None]

\* Mutant of install: the suffix of the log is dropped.
installDropsLog(rf, args) ==
    LET last == args.LastIncludedIndex
        new == persist([rf EXCEPT !.log = <<snapEntry(args.LastIncludedTerm)>>,
                                  !.snapIndex = last, !.snapshot = args.Data])
    IN  IF rf.lastApplied < last
        THEN [new EXCEPT !.lastApplied = last, !.commitIndex = last] ELSE new

\* Mutant of install: the log is cut without a new dummy entry.
installNoDummy(rf, args) ==
    LET last == args.LastIncludedIndex
        kept == IF last < lastLogIndex(rf) THEN entriesFrom(rf, last + 1) ELSE <<>>
        new == persist([rf EXCEPT !.log = kept, !.snapIndex = last, !.snapshot = args.Data])
    IN  IF rf.lastApplied < last
        THEN [new EXCEPT !.lastApplied = last, !.commitIndex = last] ELSE new

\* The part of InstallSnapshot after its early returns.  Everything above
\* LastIncludedIndex is kept, whatever its term.
install(rf, args) ==
    LET last == args.LastIncludedIndex
        kept == IF last < lastLogIndex(rf) THEN entriesFrom(rf, last + 1) ELSE <<>>
        new == persist([rf EXCEPT !.log = <<snapEntry(args.LastIncludedTerm)>> \o kept,
                                  !.snapIndex = last, !.snapshot = args.Data])
    IN  IF rf.lastApplied < last
        THEN [new EXCEPT !.lastApplied = last, !.commitIndex = last] ELSE new

InstallSnapshot(rf0, args) ==
    LET rf == observeTerm(rf0, args.Term) IN
    [rf |-> IF args.Term < rf.currentTerm \/ args.LastIncludedIndex <= rf.snapIndex
            THEN rf ELSE install(rf, args),
     reply |-> [Term |-> rf.currentTerm]]

-----------------------------------------------------------------------------
(* log_commit.go, persister.go: the calls of the service, and guardKick    *)

Start(rf, command) == batchAppend(rf, <<[Term |-> rf.currentTerm, Command |-> command]>>)

\* Mutant of Snapshot: the log is cut one entry too early.
SnapshotOffByOne(rf, index, snapshot) ==
    IF index <= rf.snapIndex THEN rf
    ELSE persist([rf EXCEPT
            !.log = <<snapEntry(get(rf, index).Term)>> \o entriesFrom(rf, index),
            !.snapIndex = index, !.snapshot = snapshot])

Snapshot(rf, index, snapshot) ==
    IF index <= rf.snapIndex THEN rf
    ELSE persist([rf EXCEPT
            !.log = <<snapEntry(get(rf, index).Term)>> \o entriesFrom(rf, index + 1),
            !.snapIndex = index, !.snapshot = snapshot])

\* Mutant of takeBatch: lastApplied is not moved.
takeBatchAgain(rf) == rf

\* The critical section of guardKick: the entries above lastApplied are handed
\* over to be sent to applyCh.
takeBatch(rf) == IF rf.lastApplied < rf.commitIndex
                 THEN [rf EXCEPT !.lastApplied = rf.commitIndex] ELSE rf
=============================================================================
