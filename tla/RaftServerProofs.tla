-------------------------- MODULE RaftServerProofs --------------------------
(***************************************************************************)
(* What the operations of one peer do to the struct Raft: each of them     *)
(* keeps it well typed, leaves nothing unpersisted, and never takes back a *)
(* vote or a term.                                                         *)
(***************************************************************************)
EXTENDS RaftServer, TLAPS, SequenceTheorems, FiniteSetTheorems, WellFoundedInduction

\* A well-typed struct whose snapshots go as far as their indices say.
RaftOK(rf) ==
    /\ rf \in RaftType
    /\ Len(rf.snapshot) = rf.snapIndex
    /\ Len(rf.persister.snapshot) = rf.persister.snapIndex

\* What a crash would restore is what the peer has in memory.
Durable(rf) == rf.persister = Persisted(rf)

\* new may replace old without taking back a vote or a term, and without
\* becoming Candidate or Leader.
Follows(old, new) ==
    /\ new.me = old.me
    /\ \/ new.currentTerm > old.currentTerm
       \/ /\ new.currentTerm = old.currentTerm
          /\ old.votedFor \in {None, new.votedFor}
    /\ new.state # Follower => new.state = old.state /\ new.currentTerm = old.currentTerm

Good(old, new) == RaftOK(new) /\ Durable(new) /\ Follows(old, new)

-----------------------------------------------------------------------------
(* Least and greatest elements of sets of integers *)

\* Every non-empty set of natural numbers has a least element.
LEMMA LeastNat ==
    ASSUME NEW S \in SUBSET Nat, S # {}
    PROVE  \E x \in S : \A y \in S : x <= y
<1> DEFINE R == {p \in Nat \X Nat : p[1] < p[2]}
<1>1. OpToRel(<, Nat) = R
  BY Zenon DEF OpToRel
<1>2. IsWellFoundedOn(R, Nat)
  BY <1>1, NatLessThanWellFounded, Zenon
<1>3. \E x \in S : \A y \in S : ~(<<y, x>> \in R)
  <2> HIDE DEF R
  <2> QED BY <1>2, WFMin
<1>4. PICK x \in S : \A y \in S : ~(<<y, x>> \in R)
  BY <1>3
<1>5. \A y \in S : ~(y < x)
  BY <1>4
<1> QED
  BY <1>5

\* Min of a non-empty set of integers that is bounded below is one of its elements.
LEMMA MinInSet ==
    ASSUME NEW a \in Int, NEW S \in SUBSET Int, S # {}, \A x \in S : a <= x
    PROVE  Min(S) \in S /\ \A y \in S : Min(S) <= y
<1> DEFINE T == {n \in Nat : a + n \in S}
<1>1. T # {}
  <2>1. PICK x \in S : TRUE
    OBVIOUS
  <2>2. x - a \in T
    BY <2>1
  <2> QED BY <2>2
<1>2. PICK t \in T : \A n \in T : t <= n
  <2>1. T \in SUBSET Nat
    OBVIOUS
  <2> HIDE DEF T
  <2> QED BY <1>1, <2>1, LeastNat
<1>3. ASSUME NEW y \in S PROVE a + t <= y
  <2>1. y - a \in T
    OBVIOUS
  <2> QED BY <1>2, <2>1
<1>4. a + t \in S
  BY <1>2
<1> QED
  BY <1>3, <1>4 DEF Min

\* Max of a non-empty set of integers that is bounded above is one of its elements.
LEMMA MaxInSet ==
    ASSUME NEW b \in Int, NEW S \in SUBSET Int, S # {}, \A x \in S : x <= b
    PROVE  Max(S) \in S /\ \A y \in S : y <= Max(S)
<1> DEFINE T == {n \in Nat : b - n \in S}
<1>1. T # {}
  <2>1. PICK x \in S : TRUE
    OBVIOUS
  <2>2. b - x \in T
    BY <2>1
  <2> QED BY <2>2
<1>2. PICK t \in T : \A n \in T : t <= n
  <2>1. T \in SUBSET Nat
    OBVIOUS
  <2> HIDE DEF T
  <2> QED BY <1>1, <2>1, LeastNat
<1>3. ASSUME NEW y \in S PROVE b - t >= y
  <2>1. b - y \in T
    OBVIOUS
  <2> QED BY <1>2, <2>1
<1>4. b - t \in S
  BY <1>2
<1> QED
  BY <1>3, <1>4 DEF Max

-----------------------------------------------------------------------------
(* The parts of an update: elections, logs, indices *)

\* Follows is reflexive and, through a step that keeps the term, transitive.
LEMMA FollowsSelf == ASSUME NEW rf PROVE Follows(rf, rf)
BY DEF Follows

LEMMA FollowsTwice ==
    ASSUME NEW a, NEW b, NEW c, RaftOK(a), RaftOK(b), RaftOK(c), Follows(a, b), Follows(b, c)
    PROVE  Follows(a, c)
<1>1. a.currentTerm \in Nat /\ b.currentTerm \in Nat /\ c.currentTerm \in Nat
  BY DEF RaftOK, RaftType
<1> QED BY <1>1 DEF Follows

\* persist changes nothing in memory and brings the persister up to date.
LEMMA PersistOK ==
    ASSUME NEW rf, RaftOK(rf)
    PROVE  LET new == persist(rf) IN
           /\ RaftOK(new) /\ Durable(new)
           /\ new.me = rf.me /\ new.state = rf.state /\ new.currentTerm = rf.currentTerm
           /\ new.votedFor = rf.votedFor /\ new.log = rf.log /\ new.snapIndex = rf.snapIndex
           /\ new.snapshot = rf.snapshot /\ new.commitIndex = rf.commitIndex
           /\ new.lastApplied = rf.lastApplied /\ new.nextIndex = rf.nextIndex
           /\ new.matchIndex = rf.matchIndex
BY DEF persist, Persisted, RaftOK, RaftType, PersisterType, Durable

\* newGen: a later term, no vote, Follower, persisted.
LEMMA NewGenGood ==
    ASSUME NEW rf, RaftOK(rf), NEW term \in Nat, term > rf.currentTerm
    PROVE  Good(rf, newGen(rf, term))
<1> DEFINE mid == [rf EXCEPT !.currentTerm = term, !.state = Follower, !.votedFor = None]
<1>1. Follower \in State
  BY DEF State
<1>2. RaftOK(mid)
  BY <1>1 DEF RaftOK, RaftType
<1>3. /\ mid.me = rf.me /\ mid.state = Follower /\ mid.currentTerm = term
  BY DEF RaftOK, RaftType
<1> HIDE DEF mid
<1>4. newGen(rf, term) = persist(mid)
  BY DEF newGen, mid
<1>5. RaftOK(persist(mid)) /\ Durable(persist(mid))
  BY <1>2, PersistOK
<1>6. Follows(rf, persist(mid))
  BY <1>2, <1>3, PersistOK DEF Follows
<1> QED BY <1>4, <1>5, <1>6 DEF Good

LEMMA ObserveTermGood ==
    ASSUME NEW rf, RaftOK(rf), Durable(rf), NEW term \in Nat
    PROVE  Good(rf, observeTerm(rf, term)) /\ term <= observeTerm(rf, term).currentTerm
<1>1. CASE term > rf.currentTerm
  <2>1. Good(rf, newGen(rf, term))
    BY <1>1, NewGenGood
  <2>2. newGen(rf, term).currentTerm = term
    BY DEF newGen, persist, RaftOK, RaftType
  <2> QED BY <1>1, <2>1, <2>2 DEF observeTerm
<1>2. CASE ~(term > rf.currentTerm)
  BY <1>2, FollowsSelf DEF observeTerm, Good, RaftOK, RaftType
<1> QED BY <1>1, <1>2

LEMMA ToFollowerGood ==
    ASSUME NEW rf, RaftOK(rf), Durable(rf)
    PROVE  Good(rf, toFollower(rf)) /\ toFollower(rf).currentTerm = rf.currentTerm
BY DEF Good, toFollower, Persisted, RaftOK, RaftType, Durable, Follows,
       Follower, Candidate, Leader, State

\* becomeCandidate: the next term, a vote for itself, persisted.
LEMMA BecomeCandidateGood ==
    ASSUME NEW rf, RaftOK(rf)
    PROVE  LET new == becomeCandidate(rf) IN
           /\ RaftOK(new) /\ Durable(new) /\ new.me = rf.me
           /\ new.currentTerm = rf.currentTerm + 1 /\ new.votedFor = rf.me
           /\ new.state = Candidate
<1> DEFINE mid == [rf EXCEPT !.currentTerm = rf.currentTerm + 1, !.state = Candidate,
                             !.votedFor = rf.me]
<1>1. Candidate \in State
  BY DEF State
<1>2. RaftOK(mid)
  <2>1. rf.currentTerm + 1 \in Nat /\ rf.me \in Server
    BY DEF RaftOK, RaftType
  <2> QED BY <1>1, <2>1 DEF RaftOK, RaftType
<1>3. /\ mid.me = rf.me /\ mid.state = Candidate /\ mid.votedFor = rf.me
      /\ mid.currentTerm = rf.currentTerm + 1
  BY DEF RaftOK, RaftType
<1>4. becomeCandidate(rf) = persist(mid)
  BY DEF becomeCandidate, mid
<1> HIDE DEF mid
<1> QED BY <1>2, <1>3, <1>4, PersistOK

LEMMA BecomeLeaderGood ==
    ASSUME NEW rf, RaftOK(rf), Durable(rf)
    PROVE  LET new == becomeLeader(rf) IN
           /\ RaftOK(new) /\ Durable(new) /\ new.me = rf.me
           /\ new.currentTerm = rf.currentTerm /\ new.votedFor = rf.votedFor
           /\ new.state = Leader
<1>1. lastLogIndex(rf) \in Int
  BY LenProperties DEF lastLogIndex, logLength, RaftOK, RaftType, LogType
<1> DEFINE nexts == [i \in Server |-> IF i = rf.me THEN -1 ELSE lastLogIndex(rf) + 1]
           matches == [i \in Server |-> IF i = rf.me THEN -1 ELSE 0]
<1>2. Leader \in State
  BY DEF State
<1>3. nexts \in [Server -> Int] /\ matches \in [Server -> Int]
  BY <1>1
<1>4. becomeLeader(rf) = [rf EXCEPT !.state = Leader, !.nextIndex = nexts, !.matchIndex = matches]
  BY DEF becomeLeader
<1> HIDE DEF nexts, matches
<1> QED
  BY <1>2, <1>3, <1>4 DEF Persisted, RaftOK, RaftType, Durable

\* tryVotingFor: the vote is recorded and persisted, and replaces no other vote.
LEMMA TryVotingForGood ==
    ASSUME NEW rf, RaftOK(rf), Durable(rf), NEW args, args.CandidateId \in Server
    PROVE  LET new == tryVotingFor(rf, args) IN
           /\ Good(rf, new) /\ new.currentTerm = rf.currentTerm
           /\ mayVoteFor(rf, args) => new.votedFor = args.CandidateId
<1>1. CASE mayVoteFor(rf, args)
  BY <1>1 DEF Good, tryVotingFor, mayVoteFor, persist, Persisted, RaftOK, RaftType,
       PersisterType, Durable, Follows
<1>2. CASE ~mayVoteFor(rf, args)
  BY <1>2, FollowsSelf DEF Good, tryVotingFor
<1> QED BY <1>1, <1>2

\* A new log: the other fields of the struct are not touched.
LEMMA NewLogGood ==
    ASSUME NEW rf, RaftOK(rf), NEW log \in LogType
    PROVE  LET new == persist([rf EXCEPT !.log = log]) IN
           Good(rf, new) /\ new.currentTerm = rf.currentTerm
BY DEF Good, persist, Persisted, RaftOK, RaftType, PersisterType, Durable, Follows

\* A new snapshot with the log that goes with it.
LEMMA NewSnapshotGood ==
    ASSUME NEW rf, RaftOK(rf), NEW log \in LogType, NEW index \in Nat,
           NEW data \in Seq(Entry), Len(data) = index
    PROVE  LET new == persist([rf EXCEPT !.log = log, !.snapIndex = index,
                                         !.snapshot = data])
           IN Good(rf, new) /\ new.currentTerm = rf.currentTerm
BY DEF Good, persist, Persisted, RaftOK, RaftType, PersisterType, Durable, Follows

\* What a leader knows of its peers is not persisted.
LEMMA SetPeerGood ==
    ASSUME NEW rf, RaftOK(rf), Durable(rf), NEW i \in Server, NEW m \in Int, NEW n \in Int
    PROVE  /\ Good(rf, [rf EXCEPT !.nextIndex[i] = n])
           /\ Good(rf, [rf EXCEPT !.matchIndex[i] = m, !.nextIndex[i] = n])
<1> DEFINE nexts == [rf.nextIndex EXCEPT ![i] = n]
           matches == [rf.matchIndex EXCEPT ![i] = m]
<1>1. nexts \in [Server -> Int] /\ matches \in [Server -> Int]
  BY DEF RaftOK, RaftType
<1>2. /\ [rf EXCEPT !.nextIndex[i] = n] = [rf EXCEPT !.nextIndex = nexts]
      /\ [rf EXCEPT !.matchIndex[i] = m, !.nextIndex[i] = n]
            = [rf EXCEPT !.matchIndex = matches, !.nextIndex = nexts]
  BY DEF RaftOK, RaftType
<1> HIDE DEF nexts, matches
<1>3. Good(rf, [rf EXCEPT !.nextIndex = nexts])
  BY <1>1 DEF Good, Persisted, RaftOK, RaftType, Durable, Follows
<1>4. Good(rf, [rf EXCEPT !.matchIndex = matches, !.nextIndex = nexts])
  BY <1>1 DEF Good, Persisted, RaftOK, RaftType, Durable, Follows
<1> QED BY <1>2, <1>3, <1>4

LEMMA GoodTwice ==
    ASSUME NEW a, NEW b, NEW c, RaftOK(a), Good(a, b), Good(b, c)
    PROVE  Good(a, c)
BY FollowsTwice DEF Good

-----------------------------------------------------------------------------
(* Logs *)

LEMMA minProperties ==
    ASSUME NEW a \in Int, NEW b \in Int
    PROVE  min(a, b) \in {a, b} /\ min(a, b) <= a /\ min(a, b) <= b
BY DEF min

\* The indices of a log, and what get returns for them.
LEMMA LogIndices ==
    ASSUME NEW rf, RaftOK(rf)
    PROVE  /\ rf.log \in Seq(Entry) /\ rf.log # <<>> /\ Len(rf.log) \in Nat /\ Len(rf.log) >= 1
           /\ rf.snapIndex \in Nat /\ lastLogIndex(rf) \in Nat /\ logLength(rf) \in Nat
           /\ lastLogIndex(rf) = logLength(rf) - 1 /\ lastLogIndex(rf) >= rf.snapIndex
           /\ \A i \in Index(rf) : get(rf, i) \in Entry
<1>1. /\ rf.log \in Seq(Entry) /\ rf.log # <<>> /\ rf.snapIndex \in Nat
  BY DEF RaftOK, RaftType, LogType
<1>2. Len(rf.log) \in Nat /\ Len(rf.log) >= 1 /\ \A j \in 1 .. Len(rf.log) : rf.log[j] \in Entry
  BY <1>1, EmptySeq, LenProperties
<1>3. \A i \in Index(rf) : i - rf.snapIndex + 1 \in 1 .. Len(rf.log)
  BY <1>1, <1>2 DEF Index, lastLogIndex, logLength
<1> QED BY <1>1, <1>2, <1>3 DEF get, lastLogIndex, logLength

LEMMA TermOfEntry == ASSUME NEW e \in Entry PROVE e.Term \in Int
BY DEF Entry

\* entriesFrom returns a proper suffix of the log.
LEMMA EntriesFrom ==
    ASSUME NEW rf, RaftOK(rf), NEW start \in Int, start >= rf.snapIndex
    PROVE  entriesFrom(rf, start) \in Seq(Entry)
<1>1. /\ rf.snapIndex \in Nat /\ Len(rf.log) \in Nat
      /\ \A j \in 1 .. Len(rf.log) : rf.log[j] \in Entry
  BY LogIndices, LenProperties
<1>2. \A j \in start - rf.snapIndex + 1 .. Len(rf.log) : rf.log[j] \in Entry
  BY <1>1
<1> QED BY <1>1, <1>2, SubSeqProperties DEF entriesFrom

LEMMA NonEmptyLog ==
    ASSUME NEW l \in Seq(Entry), Len(l) >= 1
    PROVE  l \in LogType
BY EmptySeq, LenProperties DEF LogType

\* A log that begins with a dummy entry.
LEMMA DummyThenEntries ==
    ASSUME NEW term \in Int, NEW rest \in Seq(Entry)
    PROVE  <<snapEntry(term)>> \o rest \in LogType
<1>1. snapEntry(term) \in Entry
  BY DEF snapEntry, Entry
<1>2. <<snapEntry(term)>> \in Seq(Entry) /\ Len(<<snapEntry(term)>>) = 1
  BY <1>1
<1>3. /\ <<snapEntry(term)>> \o rest \in Seq(Entry)
      /\ Len(<<snapEntry(term)>> \o rest) = 1 + Len(rest)
  BY <1>2, ConcatProperties
<1> QED BY <1>3, EmptySeq, LenProperties DEF LogType

LEMMA LogThenEntries ==
    ASSUME NEW log \in LogType, NEW rest \in Seq(Entry)
    PROVE  log \o rest \in LogType
<1>1. log \in Seq(Entry) /\ log # <<>> /\ Len(log) >= 1
  BY EmptySeq, LenProperties DEF LogType
<1>2. log \o rest \in Seq(Entry) /\ Len(log \o rest) = Len(log) + Len(rest)
  BY <1>1, ConcatProperties
<1> QED BY <1>1, <1>2, EmptySeq, LenProperties DEF LogType

LEMMA BatchAppendGood ==
    ASSUME NEW rf, RaftOK(rf), NEW entries \in Seq(Entry)
    PROVE  LET new == batchAppend(rf, entries) IN
           Good(rf, new) /\ new.currentTerm = rf.currentTerm
<1>1. rf.log \o entries \in LogType
  BY LogThenEntries DEF RaftOK, RaftType
<1> QED BY <1>1, NewLogGood DEF batchAppend

\* reconcileEntries, called with an index that get accepts or that is next.
LEMMA ReconcileGood ==
    ASSUME NEW rf, RaftOK(rf), NEW entries \in Seq(Entry),
           NEW myIdx \in Int, myIdx > rf.snapIndex, myIdx <= logLength(rf),
           NEW yourIdx \in Nat, yourIdx <= Len(entries)
    PROVE  LET new == reconcileEntries(rf, myIdx, yourIdx, entries) IN
           Good(rf, new) /\ new.currentTerm = rf.currentTerm
<1> DEFINE diff == conflicts(rf, myIdx, yourIdx, entries)
           common == min(logLength(rf) - myIdx, Len(entries) - yourIdx)
           same == IF diff # {} THEN Min(diff) ELSE common
           kept == IF diff # {} THEN SubSeq(rf.log, 1, myIdx + same - rf.snapIndex) ELSE rf.log
           rest == SubSeq(entries, yourIdx + same + 1, Len(entries))
<1>1. /\ Len(entries) \in Nat /\ logLength(rf) \in Nat /\ rf.snapIndex \in Nat
      /\ Len(rf.log) \in Nat /\ logLength(rf) = Len(rf.log) + rf.snapIndex
      /\ \A j \in 1 .. Len(rf.log) : rf.log[j] \in Entry
      /\ \A j \in 1 .. Len(entries) : entries[j] \in Entry
  BY LogIndices, LenProperties DEF logLength
<1>2. /\ common \in Nat /\ common <= logLength(rf) - myIdx /\ common <= Len(entries) - yourIdx
  <2>1. logLength(rf) - myIdx \in Nat /\ Len(entries) - yourIdx \in Nat
    BY <1>1
  <2> QED BY <2>1 DEF min
<1>3. diff \subseteq 0 .. common - 1
  BY Zenon DEF conflicts
<1> HIDE DEF diff, common
<1>4. same \in Nat /\ same <= common /\ (diff # {} => same <= common - 1)
  <2>1. CASE diff = {}
    BY <1>2, <2>1
  <2>2. CASE diff # {}
    <3>1. diff \in SUBSET Int /\ \A x \in diff : 0 <= x
      BY <1>2, <1>3
    <3>2. Min(diff) \in diff
      BY <2>2, <3>1, MinInSet
    <3>3. same \in 0 .. common - 1
      BY <1>3, <2>2, <3>2
    <3> QED BY <1>2, <3>3
  <2> QED BY <2>1, <2>2
<1> HIDE DEF same
<1>5. kept \in LogType
  <2>1. CASE diff = {}
    BY <2>1 DEF RaftOK, RaftType
  <2>2. CASE diff # {}
    <3>1. /\ myIdx + same - rf.snapIndex \in Int /\ 1 <= myIdx + same - rf.snapIndex
          /\ myIdx + same - rf.snapIndex <= Len(rf.log)
      <4>1. myIdx + same <= logLength(rf) - 1
        <5> HIDE DEF kept, rest
        <5> QED BY <1>1, <1>2, <1>4, <2>2
      <4> QED BY <1>1, <1>4, <4>1
    <3>2. \A j \in 1 .. myIdx + same - rf.snapIndex : rf.log[j] \in Entry
      BY <1>1, <3>1
    <3>3. /\ SubSeq(rf.log, 1, myIdx + same - rf.snapIndex) \in Seq(Entry)
          /\ Len(SubSeq(rf.log, 1, myIdx + same - rf.snapIndex)) >= 1
      BY <3>1, <3>2, SubSeqProperties
    <3> QED BY <2>2, <3>3, NonEmptyLog
  <2> QED BY <2>1, <2>2
<1>6. rest \in Seq(Entry)
  <2>1. yourIdx + same + 1 \in Int /\ yourIdx + same + 1 >= 1
    BY <1>4
  <2>2. \A j \in yourIdx + same + 1 .. Len(entries) : entries[j] \in Entry
    BY <1>1, <2>1
  <2> QED BY <1>1, <2>1, <2>2, SubSeqProperties
<1>7. kept \o rest \in LogType
  <2> HIDE DEF kept, rest
  <2> QED BY <1>5, <1>6, LogThenEntries
<1>8. reconcileEntries(rf, myIdx, yourIdx, entries) = batchAppend([rf EXCEPT !.log = kept], rest)
  BY DEF reconcileEntries, diff, common, same
<1> HIDE DEF kept, rest
<1>9. batchAppend([rf EXCEPT !.log = kept], rest) = persist([rf EXCEPT !.log = kept \o rest])
  BY DEF batchAppend, RaftOK, RaftType
<1> QED BY <1>7, <1>8, <1>9, NewLogGood

-----------------------------------------------------------------------------
(* RequestVote *)

LEMMA VoteArgsType ==
    ASSUME NEW rf, RaftOK(rf)
    PROVE  voteArgs(rf) \in VoteArgs /\ voteArgs(rf).CandidateId = rf.me
<1>1. lastLogIndex(rf) \in Index(rf) /\ lastLogIndex(rf) \in Int
  BY LogIndices DEF Index
<1>2. get(rf, lastLogIndex(rf)).Term \in Int
  BY <1>1, LogIndices, TermOfEntry
<1> QED BY <1>1, <1>2 DEF voteArgs, VoteArgs, RaftOK, RaftType

\* A granted vote is the vote of the voter in the term of the request.
LEMMA RequestVoteGood ==
    ASSUME NEW rf, RaftOK(rf), Durable(rf), NEW args \in VoteArgs
    PROVE  LET out == RequestVote(rf, args) IN
           /\ Good(rf, out.rf) /\ out.reply \in VoteReply
           /\ out.reply.VoteGranted =>
                out.rf.currentTerm = args.Term /\ out.rf.votedFor = args.CandidateId
<1> DEFINE mid == observeTerm(rf, args.Term)
           stale == args.Term < mid.currentTerm
           out == RequestVote(rf, args)
<1>1. args.Term \in Nat /\ args.CandidateId \in Server
  BY DEF VoteArgs
<1>2. Good(rf, mid) /\ args.Term <= mid.currentTerm
  BY <1>1, ObserveTermGood
<1>3. /\ out.rf = IF stale THEN mid ELSE tryVotingFor(mid, args)
      /\ out.reply = [Term |-> mid.currentTerm, VoteGranted |-> ~stale /\ mayVoteFor(mid, args)]
  BY DEF RequestVote
<1> HIDE DEF mid, out
<1>4. mid.currentTerm \in Nat
  BY <1>2 DEF Good, RaftOK, RaftType
<1>5. /\ Good(mid, tryVotingFor(mid, args))
      /\ tryVotingFor(mid, args).currentTerm = mid.currentTerm
      /\ mayVoteFor(mid, args) => tryVotingFor(mid, args).votedFor = args.CandidateId
  BY <1>1, <1>2, TryVotingForGood DEF Good
<1>6. Good(rf, tryVotingFor(mid, args))
  BY <1>2, <1>5, GoodTwice
<1>7. out.reply \in VoteReply
  BY <1>3, <1>4 DEF VoteReply
<1>8. out.reply.VoteGranted => ~stale /\ mayVoteFor(mid, args)
  <2> DEFINE granted == ~stale /\ mayVoteFor(mid, args)
  <2>1. out.reply = [Term |-> mid.currentTerm, VoteGranted |-> granted]
    BY <1>3
  <2> HIDE DEF granted
  <2>2. out.reply.VoteGranted = granted
    BY <2>1
  <2> QED BY <2>2, Zenon DEF granted
<1> QED BY <1>1, <1>2, <1>3, <1>4, <1>5, <1>6, <1>7, <1>8 DEF out

-----------------------------------------------------------------------------
(* AppendEntries *)

LEMMA TryUpdateCommitGood ==
    ASSUME NEW rf, RaftOK(rf), Durable(rf), NEW leaderCommit \in Nat
    PROVE  Good(rf, tryUpdateCommit(rf, leaderCommit))
<1>1. min(leaderCommit, lastLogIndex(rf)) \in Nat
  BY LogIndices DEF min
<1> HIDE DEF min
<1>2. CASE leaderCommit > rf.commitIndex
  BY <1>1, <1>2 DEF tryUpdateCommit, Good, Persisted, RaftOK, RaftType, Durable, Follows
<1>3. CASE ~(leaderCommit > rf.commitIndex)
  BY <1>3, FollowsSelf DEF tryUpdateCommit, Good
<1> QED BY <1>2, <1>3

\* The three ways to reject.
LEMMA RejectGood ==
    ASSUME NEW rf, NEW mid, Good(rf, mid), NEW xTerm \in Int, NEW xIndex \in Int, NEW xLen \in Int
    PROVE  LET out == [rf |-> mid, reply |-> appendReply(mid, FALSE, xTerm, xIndex, xLen)] IN
           Good(rf, out.rf) /\ out.reply \in AppendReply
<1>1. mid.currentTerm \in Nat
  BY DEF Good, RaftOK, RaftType
<1>2. appendReply(mid, FALSE, xTerm, xIndex, xLen) \in AppendReply
  BY <1>1 DEF appendReply, AppendReply
<1> QED BY <1>2

LEMMA AcceptGood ==
    ASSUME NEW rf, NEW mid, RaftOK(rf), Good(rf, mid), NEW args \in AppendArgs
    PROVE  Good(rf, accept(mid, args).rf) /\ accept(mid, args).reply \in AppendReply
<1>1. Good(mid, tryUpdateCommit(mid, args.LeaderCommit))
  BY TryUpdateCommitGood DEF Good, AppendArgs
<1>2. Good(rf, tryUpdateCommit(mid, args.LeaderCommit))
  BY <1>1, GoodTwice
<1>3. appendReply(mid, TRUE, 0, 0, 0) \in AppendReply
  <2>1. mid.currentTerm \in Nat
    BY DEF Good, RaftOK, RaftType
  <2> QED BY <2>1 DEF appendReply, AppendReply
<1> QED BY <1>2, <1>3 DEF accept

LEMMA StartOfRun ==
    ASSUME NEW rf, RaftOK(rf), NEW i \in Int, i > rf.snapIndex
    PROVE  startOfRun(rf, i) \in Int
<1> DEFINE S == {x \in rf.snapIndex + 1 .. i :
                    \A y \in x .. i : get(rf, y).Term = get(rf, i).Term}
<1>1. rf.snapIndex \in Nat
  BY LogIndices
<1>2. i \in S
  BY <1>1
<1>3. S \in SUBSET Int /\ S # {} /\ \A x \in S : rf.snapIndex + 1 <= x
  BY <1>1, <1>2
<1>4. startOfRun(rf, i) = Min(S)
  BY DEF startOfRun
<1> HIDE DEF S
<1>5. rf.snapIndex + 1 \in Int
  BY <1>1
<1>6. Min(S) \in S
  BY <1>3, <1>5, MinInSet
<1> QED BY <1>3, <1>4, <1>6

LEMMA AppendEntriesGood ==
    ASSUME NEW rf, RaftOK(rf), Durable(rf), NEW args \in AppendArgs
    PROVE  LET out == AppendEntries(rf, args) IN
           Good(rf, out.rf) /\ out.reply \in AppendReply
<1> DEFINE mid == IF rf.state = Candidate /\ args.Term = rf.currentTerm THEN toFollower(rf)
                  ELSE observeTerm(rf, args.Term)
           prev == args.PrevLogIndex
           out == AppendEntries(rf, args)
<1>1. /\ args.Term \in Nat /\ prev \in Int /\ args.Entries \in Seq(Entry)
      /\ Len(args.Entries) \in Nat
  BY LenProperties DEF AppendArgs
<1>2. Good(rf, mid)
  BY <1>1, ObserveTermGood, ToFollowerGood
<1>3. out = IF args.Term < mid.currentTerm
        THEN [rf |-> mid, reply |-> appendReply(mid, FALSE, 0, 0, 0)]
        ELSE IF prev <= mid.snapIndex
        THEN accept(IF mid.snapIndex - prev >= Len(args.Entries) THEN mid
                    ELSE reconcileEntries(mid, mid.snapIndex + 1, mid.snapIndex - prev, args.Entries),
                    args)
        ELSE IF prev >= logLength(mid)
        THEN [rf |-> mid, reply |-> appendReply(mid, FALSE, -1, -1, logLength(mid))]
        ELSE IF get(mid, prev).Term # args.PrevLogTerm
        THEN [rf |-> mid,
              reply |-> appendReply(mid, FALSE, get(mid, prev).Term, startOfRun(mid, prev), -1)]
        ELSE accept(reconcileEntries(mid, prev + 1, 0, args.Entries), args)
  BY DEF AppendEntries
<1> HIDE DEF mid, out
<1>4. /\ RaftOK(mid) /\ mid.snapIndex \in Nat /\ logLength(mid) \in Nat
      /\ lastLogIndex(mid) = logLength(mid) - 1 /\ lastLogIndex(mid) >= mid.snapIndex
  BY <1>2, LogIndices DEF Good
<1>5. CASE args.Term < mid.currentTerm
  <2>1. out = [rf |-> mid, reply |-> appendReply(mid, FALSE, 0, 0, 0)]
    BY <1>3, <1>5
  <2>2. 0 \in Int
    OBVIOUS
  <2> QED BY <1>2, <2>1, <2>2, RejectGood, Zenon DEF out
<1>6. CASE ~(args.Term < mid.currentTerm) /\ prev <= mid.snapIndex
  <2>1. CASE mid.snapIndex - prev >= Len(args.Entries)
    BY <1>2, <1>3, <1>6, <2>1, AcceptGood DEF out
  <2>2. CASE ~(mid.snapIndex - prev >= Len(args.Entries))
    <3> DEFINE new == reconcileEntries(mid, mid.snapIndex + 1, mid.snapIndex - prev, args.Entries)
    <3>1. mid.snapIndex - prev \in Nat /\ mid.snapIndex - prev <= Len(args.Entries)
      BY <1>1, <1>4, <1>6, <2>2
    <3>2. mid.snapIndex + 1 \in Int /\ mid.snapIndex + 1 > mid.snapIndex
          /\ mid.snapIndex + 1 <= logLength(mid)
      BY <1>4
    <3>3. Good(mid, new)
      BY <1>1, <1>4, <3>1, <3>2, ReconcileGood
    <3>4. Good(rf, new)
      BY <1>2, <3>3, GoodTwice
    <3> HIDE DEF new
    <3>5. out = accept(new, args)
      BY <1>3, <1>6, <2>2 DEF new
    <3> QED BY <3>4, <3>5, AcceptGood DEF out
  <2> QED BY <2>1, <2>2
<1>7. CASE ~(args.Term < mid.currentTerm) /\ ~(prev <= mid.snapIndex) /\ prev >= logLength(mid)
  <2>1. out = [rf |-> mid, reply |-> appendReply(mid, FALSE, -1, -1, logLength(mid))]
    BY <1>3, <1>7
  <2>2. -1 \in Int /\ logLength(mid) \in Int
    BY <1>4
  <2> QED BY <1>2, <2>1, <2>2, RejectGood DEF out
<1>8. CASE /\ ~(args.Term < mid.currentTerm) /\ ~(prev <= mid.snapIndex)
           /\ ~(prev >= logLength(mid)) /\ get(mid, prev).Term # args.PrevLogTerm
  <2>1. prev \in Index(mid) /\ prev > mid.snapIndex
    BY <1>1, <1>4, <1>8 DEF Index
  <2>2. get(mid, prev).Term \in Int /\ startOfRun(mid, prev) \in Int
    BY <1>1, <1>4, <2>1, LogIndices, TermOfEntry, StartOfRun
  <2>3. out = [rf |-> mid, reply |-> appendReply(mid, FALSE, get(mid, prev).Term,
                                                 startOfRun(mid, prev), -1)]
    BY <1>3, <1>8
  <2>4. -1 \in Int
    OBVIOUS
  <2> QED BY <1>2, <2>2, <2>3, <2>4, RejectGood DEF out
<1>9. CASE /\ ~(args.Term < mid.currentTerm) /\ ~(prev <= mid.snapIndex)
           /\ ~(prev >= logLength(mid)) /\ get(mid, prev).Term = args.PrevLogTerm
  <2> DEFINE new == reconcileEntries(mid, prev + 1, 0, args.Entries)
  <2>1. prev + 1 \in Int /\ prev + 1 > mid.snapIndex /\ prev + 1 <= logLength(mid)
    BY <1>1, <1>4, <1>9
  <2>2. Good(mid, new)
    BY <1>1, <1>4, <2>1, ReconcileGood
  <2>3. Good(rf, new)
    BY <1>2, <2>2, GoodTwice
  <2> HIDE DEF new
  <2>4. out = accept(new, args)
    BY <1>3, <1>9 DEF new
  <2> QED BY <2>3, <2>4, AcceptGood DEF out
<1> QED BY <1>5, <1>6, <1>7, <1>8, <1>9

LEMMA AppendArgsType ==
    ASSUME NEW rf, RaftOK(rf), NEW i \in Server,
           rf.nextIndex[i] - 1 >= rf.snapIndex, rf.nextIndex[i] <= logLength(rf)
    PROVE  appendArgs(rf, i) \in AppendArgs
<1> DEFINE prev == rf.nextIndex[i] - 1
<1>1. prev \in Int /\ rf.nextIndex[i] \in Int
  BY DEF RaftOK, RaftType
<1>2. prev \in Index(rf) /\ prev + 1 >= rf.snapIndex
  BY <1>1, LogIndices DEF Index
<1> HIDE DEF prev
<1>3. get(rf, prev).Term \in Int /\ entriesFrom(rf, prev + 1) \in Seq(Entry)
  BY <1>1, <1>2, LogIndices, TermOfEntry, EntriesFrom
<1>4. appendArgs(rf, i) =
        [Term |-> rf.currentTerm, LeaderId |-> rf.me,
         PrevLogIndex |-> prev, PrevLogTerm |-> get(rf, prev).Term,
         Entries |-> entriesFrom(rf, prev + 1), LeaderCommit |-> rf.commitIndex]
  BY DEF appendArgs, prev
<1> QED BY <1>1, <1>3, <1>4 DEF AppendArgs, RaftOK, RaftType

LEMMA UpdateCommitIndexGood ==
    ASSUME NEW rf, RaftOK(rf), Durable(rf)
    PROVE  Good(rf, updateCommitIndex(rf))
<1>1. CASE committable(rf) = {}
  BY <1>1, FollowsSelf DEF updateCommitIndex, Good
<1>2. CASE committable(rf) # {}
  <2>1. /\ committable(rf) \in SUBSET Int /\ lastLogIndex(rf) \in Int
        /\ \A x \in committable(rf) : 0 <= x /\ x <= lastLogIndex(rf)
    BY LogIndices DEF committable
  <2>2. Max(committable(rf)) \in committable(rf)
    BY <1>2, <2>1, MaxInSet
  <2>3. Max(committable(rf)) \in Nat
    BY <2>1, <2>2
  <2> QED
    BY <1>2, <2>3 DEF updateCommitIndex, Good, Persisted, RaftOK, RaftType, Durable, Follows
<1> QED BY <1>1, <1>2

LEMMA BackedUpType ==
    ASSUME NEW rf, RaftOK(rf), NEW reply \in AppendReply
    PROVE  backedUp(rf, reply) \in Int
<1>1. reply.XTerm \in Int /\ reply.XIndex \in Int /\ reply.XLen \in Int
  BY DEF AppendReply
<1>2. lastIndexOfTerm(rf, reply.XTerm) \in Int
  <2> DEFINE S == indicesOfTerm(rf, reply.XTerm)
  <2>1. CASE S = {}
    BY <2>1 DEF lastIndexOfTerm
  <2>2. CASE S # {}
    <3>1. S \in SUBSET Int /\ lastLogIndex(rf) \in Int /\ \A x \in S : x <= lastLogIndex(rf)
      BY LogIndices DEF indicesOfTerm
    <3> HIDE DEF S
    <3>2. Max(S) \in S
      BY <2>2, <3>1, MaxInSet
    <3> QED BY <2>2, <3>1, <3>2 DEF lastIndexOfTerm, S
  <2> QED BY <2>1, <2>2
<1>3. min(reply.XLen, logLength(rf)) \in Int
  BY <1>1, LogIndices DEF min
<1> QED BY <1>1, <1>2, <1>3 DEF backedUp

LEMMA OnAppendReplyGood ==
    ASSUME NEW rf, RaftOK(rf), Durable(rf), NEW i \in Server,
           NEW args \in AppendArgs, NEW reply \in AppendReply
    PROVE  Good(rf, onAppendReply(rf, i, args, reply))
<1> DEFINE matched == args.PrevLogIndex + Len(args.Entries)
           mid == [rf EXCEPT !.matchIndex[i] = matched, !.nextIndex[i] = matched + 1]
<1>1. reply.Term \in Nat /\ matched \in Int
  BY LenProperties DEF AppendArgs, AppendReply
<1> HIDE DEF matched
<1>2. CASE reply.Term > rf.currentTerm
  BY <1>1, <1>2, NewGenGood DEF onAppendReply
<1>3. CASE ~(reply.Term > rf.currentTerm) /\ (rf.currentTerm # args.Term \/ rf.state # Leader)
  BY <1>3, FollowsSelf DEF onAppendReply, Good
<1>4. CASE /\ ~(reply.Term > rf.currentTerm) /\ ~(rf.currentTerm # args.Term \/ rf.state # Leader)
           /\ ~reply.Success
  <2>1. backedUp(rf, reply) \in Int
    BY BackedUpType
  <2>2. onAppendReply(rf, i, args, reply) = stepBack(rf, i, reply)
    BY <1>4 DEF onAppendReply
  <2>3. Good(rf, stepBack(rf, i, reply))
    BY <2>1, SetPeerGood DEF stepBack
  <2> QED BY <2>2, <2>3
<1>5. CASE /\ ~(reply.Term > rf.currentTerm) /\ ~(rf.currentTerm # args.Term \/ rf.state # Leader)
           /\ reply.Success
  <2>1. Good(rf, mid)
    <3>1. matched + 1 \in Int
      BY <1>1
    <3> QED BY <1>1, <3>1, SetPeerGood, Zenon
  <2>2. onAppendReply(rf, i, args, reply) = updateCommitIndex(mid)
    BY <1>5 DEF onAppendReply, matched
  <2> HIDE DEF mid
  <2>3. Good(mid, updateCommitIndex(mid))
    BY <2>1, UpdateCommitIndexGood DEF Good
  <2> QED BY <2>1, <2>2, <2>3, GoodTwice
<1> QED BY <1>2, <1>3, <1>4, <1>5

-----------------------------------------------------------------------------
(* InstallSnapshot, the service and Make *)

LEMMA InstallArgsType ==
    ASSUME NEW rf, RaftOK(rf)
    PROVE  installArgs(rf) \in InstallArgs
               /\ Len(installArgs(rf).Data) = installArgs(rf).LastIncludedIndex
<1>1. getSnap(rf) \in Int
  BY LogIndices, LenProperties, TermOfEntry DEF getSnap
<1> QED BY <1>1 DEF installArgs, InstallArgs, RaftOK, RaftType

LEMMA OnInstallReplyGood ==
    ASSUME NEW rf, RaftOK(rf), Durable(rf), NEW i \in Server,
           NEW args \in InstallArgs, NEW reply \in InstallReply
    PROVE  Good(rf, onInstallReply(rf, i, args, reply))
<1>1. reply.Term \in Nat /\ args.LastIncludedIndex \in Nat
  BY DEF InstallArgs, InstallReply
<1>2. CASE reply.Term > rf.currentTerm
  BY <1>1, <1>2, NewGenGood DEF onInstallReply
<1>3. CASE ~(reply.Term > rf.currentTerm)
  <2>1. args.LastIncludedIndex \in Int /\ args.LastIncludedIndex + 1 \in Int
    BY <1>1
  <2> QED BY <1>3, <2>1, SetPeerGood, Zenon DEF onInstallReply
<1> QED BY <1>2, <1>3

LEMMA InstallSnapshotGood ==
    ASSUME NEW rf, RaftOK(rf), Durable(rf), NEW args \in InstallArgs,
           Len(args.Data) = args.LastIncludedIndex
    PROVE  LET out == InstallSnapshot(rf, args) IN
           Good(rf, out.rf) /\ out.reply \in InstallReply
<1> DEFINE mid == observeTerm(rf, args.Term)
           last == args.LastIncludedIndex
           kept == IF last < lastLogIndex(mid) THEN entriesFrom(mid, last + 1) ELSE <<>>
           new == persist([mid EXCEPT !.log = <<snapEntry(args.LastIncludedTerm)>> \o kept,
                                      !.snapIndex = last, !.snapshot = args.Data])
           out == InstallSnapshot(rf, args)
<1>1. /\ args.Term \in Nat /\ last \in Nat /\ args.LastIncludedTerm \in Int
      /\ args.Data \in Seq(Entry)
  BY DEF InstallArgs
<1>2. Good(rf, mid)
  BY <1>1, ObserveTermGood
<1>3. /\ out.reply = [Term |-> mid.currentTerm]
      /\ out.rf = IF args.Term < mid.currentTerm \/ last <= mid.snapIndex
                  THEN mid ELSE install(mid, args)
  BY DEF InstallSnapshot
<1>4. install(mid, args) =
        IF mid.lastApplied < last
        THEN [new EXCEPT !.lastApplied = last, !.commitIndex = last] ELSE new
  BY DEF install
<1> HIDE DEF mid, last, out
<1>5. out.reply \in InstallReply
  BY <1>2, <1>3 DEF InstallReply, Good, RaftOK, RaftType
<1>6. ASSUME ~(last <= mid.snapIndex)
      PROVE  Good(rf, install(mid, args))
  <2>1. kept \in Seq(Entry)
    <3>1. mid.snapIndex \in Nat /\ RaftOK(mid)
      BY <1>2 DEF Good, RaftOK, RaftType
    <3>2. last + 1 \in Int /\ last + 1 >= mid.snapIndex
      BY <1>1, <1>6, <3>1
    <3>3. entriesFrom(mid, last + 1) \in Seq(Entry)
      BY <3>1, <3>2, EntriesFrom
    <3>4. <<>> \in Seq(Entry)
      BY EmptySeq
    <3> QED BY <3>3, <3>4
  <2> HIDE DEF kept
  <2>2. <<snapEntry(args.LastIncludedTerm)>> \o kept \in LogType
    BY <1>1, <2>1, DummyThenEntries
  <2>3. Good(mid, new)
    BY <1>1, <1>2, <2>2, NewSnapshotGood DEF last, Good
  <2>4. Good(rf, new)
    BY <1>2, <2>3, GoodTwice
  <2> HIDE DEF new
  <2>5. Good(rf, [new EXCEPT !.lastApplied = last, !.commitIndex = last])
    BY <1>1, <2>4 DEF Good, Persisted, RaftOK, RaftType, Durable, Follows
  <2> QED BY <1>4, <2>4, <2>5
<1>7. Good(rf, out.rf)
  BY <1>2, <1>3, <1>6
<1> QED BY <1>5, <1>7 DEF out

LEMMA StartGood ==
    ASSUME NEW rf, RaftOK(rf), NEW command \in Command
    PROVE  Good(rf, Start(rf, command))
<1>1. <<[Term |-> rf.currentTerm, Command |-> command]>> \in Seq(Entry)
  BY DEF Entry, RaftOK, RaftType
<1> QED BY <1>1, BatchAppendGood DEF Start

LEMMA SnapshotGood ==
    ASSUME NEW rf, RaftOK(rf), Durable(rf), NEW index \in Index(rf),
           NEW data \in Seq(Entry), Len(data) = index
    PROVE  Good(rf, Snapshot(rf, index, data))
<1>1. index \in Nat /\ index >= rf.snapIndex /\ index + 1 \in Int /\ index + 1 >= rf.snapIndex
  BY LogIndices DEF Index
<1>2. get(rf, index).Term \in Int
  BY LogIndices, TermOfEntry
<1>3. <<snapEntry(get(rf, index).Term)>> \o entriesFrom(rf, index + 1) \in LogType
  BY <1>1, <1>2, EntriesFrom, DummyThenEntries
<1>4. CASE index <= rf.snapIndex
  BY <1>4, FollowsSelf DEF Snapshot, Good
<1>5. CASE ~(index <= rf.snapIndex)
  BY <1>1, <1>3, <1>5, NewSnapshotGood DEF Snapshot
<1> QED BY <1>4, <1>5

LEMMA TakeBatchGood ==
    ASSUME NEW rf, RaftOK(rf), Durable(rf)
    PROVE  Good(rf, takeBatch(rf))
BY DEF takeBatch, Good, Persisted, RaftOK, RaftType, Durable, Follows

\* A restart finds in the persister everything it needs.
LEMMA MakeGood ==
    ASSUME NEW me \in Server, NEW ps \in PersisterType, Len(ps.snapshot) = ps.snapIndex
    PROVE  LET new == Make(me, ps) IN
           /\ RaftOK(new) /\ Durable(new) /\ new.me = me /\ new.state = Follower
           /\ new.currentTerm = ps.currentTerm /\ new.votedFor = ps.votedFor
<1>1. Follower \in State
  BY DEF State
<1> DEFINE r == [me |-> me, state |-> Follower,
                 currentTerm |-> 0, votedFor |-> None, log |-> <<[Term |-> -1, Command |-> None]>>,
                 snapIndex |-> 0, snapshot |-> <<>>,
                 commitIndex |-> 0, lastApplied |-> 0,
                 nextIndex |-> [i \in Server |-> 0], matchIndex |-> [i \in Server |-> 0],
                 persister |-> ps]
<1>2. r.me = me /\ r.state = Follower /\ r.persister = ps
  OBVIOUS
<1>3. r \in RaftType
  <2>1. <<[Term |-> -1, Command |-> None]>> \in LogType
    BY DEF LogType, Entry
  <2> QED BY <1>1, <2>1 DEF RaftType
<1> HIDE DEF r
<1> DEFINE new == Make(me, ps)
<1>4. new = readPersist(r)
  BY DEF Make, r
<1>5. /\ new.me = me /\ new.state = Follower /\ new.persister = ps
      /\ new.currentTerm = ps.currentTerm /\ new.votedFor = ps.votedFor /\ new.log = ps.log
      /\ new.snapIndex = ps.snapIndex /\ new.snapshot = ps.snapshot
  BY <1>2, <1>3, <1>4 DEF readPersist, RaftType
<1>6. new \in RaftType
  BY <1>3, <1>2, <1>4 DEF readPersist, RaftType, PersisterType
<1> HIDE DEF new
<1>7. Durable(new)
  BY <1>5 DEF Durable, Persisted, PersisterType
<1>8. RaftOK(new)
  BY <1>5, <1>6 DEF RaftOK
<1> QED BY <1>5, <1>7, <1>8 DEF new
=============================================================================
