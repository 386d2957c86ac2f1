------------------------------- MODULE RaftLog -------------------------------
(***************************************************************************)
(* What the logs of a Raft cluster promise to the services on top of them, *)
(* and that the cluster implements ReplicatedLog.                          *)
(***************************************************************************)
EXTENDS Raft, SequencesExt

\* If two logs agree on the term at an index, reconcileEntries has made them agree
\* there and at the index before, and so at all indices up to it.
LogMatching ==
    \A s \in Server : \A t \in Server \ {s} :
        LET p == FullLog(raft[s])
            q == FullLog(raft[t])
        IN  \A i \in 1 .. min(Len(p), Len(q)) :
                p[i].Term = q[i].Term => p[i] = q[i] /\ (i > 1 => p[i - 1] = q[i - 1])

\* tryVotingFor's upToDate and the currentTerm test of updateCommitIndex: a
\* leader that nobody has outrun holds everything that was ever committed.
LeaderCompleteness ==
    \A s \in Server :
        raft[s].state = Leader /\ (\A t \in Server : raft[t].currentTerm <= raft[s].currentTerm)
            => IsPrefix(chosen, FullLog(raft[s]))

\* "matchIndex[i] >= N: this peer has replicated up to N" (updateCommitIndex),
\* for the indices N that updateCommitIndex looks at and as long as the
\* follower is still in the leader's term.
MatchIndexSound ==
    \A s \in Server : raft[s].state = Leader =>
        \A i \in Server \ {s} :
            LET rf == raft[s]
                N == rf.matchIndex[i]
            IN  raft[i].currentTerm = rf.currentTerm /\ N > rf.snapIndex
                => /\ N <= lastLogIndex(rf)
                   /\ IsPrefix(SubSeq(FullLog(rf), 1, N), FullLog(raft[i].persister))

\* No index that the code looks up in rf.log is out of range: nextIndex - 1 in
\* singleAppend, lastApplied + 1 .. commitIndex in guardKick, and the applied
\* index the service passes to Snapshot.
NoIndexPanic ==
    \A s \in Server :
        LET rf == raft[s] IN
        /\ rf.commitIndex <= lastLogIndex(rf) /\ rf.lastApplied <= lastLogIndex(rf)
        /\ rf.state = Leader =>
                \A i \in Server \ {s} : rf.nextIndex[i] \in 1 .. logLength(rf)

\* A rejected AppendEntries makes singleAppend retry at once, so it must move
\* nextIndex below the rejected PrevLogIndex + 1, or the loop never ends.
RejectionBacksUp ==
    \A m \in replies :
        LET rf == raft[m.src] IN
        /\ Is(m, "AppendEntries") /\ ~m.reply.Success /\ m.reply.Term <= rf.currentTerm
        /\ rf.state = Leader /\ rf.currentTerm = m.args.Term
        => backedUp(rf, m.reply) \in 1 .. m.args.PrevLogIndex

\* What the service of a peer has been handed, as entries or in a snapshot, as
\* far as the log still holds it.
Applied(rf) ==
    LET last == IF rf.lastApplied > rf.snapIndex THEN rf.lastApplied ELSE rf.snapIndex
    IN  IF last = 0 THEN <<>> ELSE SubSeq(FullLog(rf), 1, min(lastLogIndex(rf), last))

\* Raft implements the replicated log: what guardKick and InstallSnapshot take
\* for the services are prefixes of one log that only grows, and only a crash
\* takes a service back.  In which order applyCh delivers it is the subject of
\* RaftApply.
Abstract == INSTANCE ReplicatedLog WITH applied <- [s \in Server |-> Applied(raft[s])]
ImplementsReplicatedLog == Abstract!Spec

-----------------------------------------------------------------------------
(* Liveness *)

\* singleAppend, stepBack and reconcileEntries: once a peer leads forever, all
\* logs become and stay equal to its log, and if that log ends with an entry
\* of its own term, every peer hands all of it to its service.
Converged(s) ==
    \A i \in Server :
        /\ FullLog(raft[i]) = FullLog(raft[s])
        /\ Last(raft[s].log).Term = raft[s].currentTerm
              => raft[i].lastApplied = lastLogIndex(raft[s])
ReplicationConverges ==
    \A s \in Server : <>[](raft[s].state = Leader) => <>[]Converged(s)
==============================================================================
