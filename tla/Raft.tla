-------------------------------- MODULE Raft --------------------------------
(***************************************************************************)
(* A cluster of Raft peers: the goroutines of each peer (ticker, the       *)
(* per-peer goroutines of collectOpinion, the replicators), the labrpc     *)
(* network between them, the service that calls Start and Snapshot, and    *)
(* crashes followed by a restart from the persister.                       *)
(*                                                                         *)
(* A goroutine that makes RPCs is a record [src, gen, dst]: it belongs to  *)
(* peer src, was started when src had term gen, and calls dst.  src starts *)
(* at most one election and wins at most one per term, so this names it.   *)
(***************************************************************************)
EXTENDS RaftServer

CONSTANTS
    Disks,          \* possible contents of all persisters when the cluster starts
    MaxTerm,        \* bound on terms
    MaxElections,   \* bound on the number of elections started
    MaxIndex,       \* bound on log indices
    MaxRestarts,    \* bound on the number of crashes
    MaxInFlight,    \* bound on the number of RPCs that are under way at a time
    MaxRaftState    \* log entries that make the service snapshot; -1: never

ASSUME ConstantsAssumption ==
    /\ IsFiniteSet(Server) /\ None \notin Server
    /\ MaxTerm \in Nat /\ MaxElections \in Nat /\ MaxIndex \in Nat /\ MaxRestarts \in Nat
    /\ MaxInFlight \in Nat /\ MaxRaftState \in Int

\* A cluster starts from what persisters can hold.
ASSUME DisksAssumption ==
    \A disks \in Disks :
        /\ disks \in [Server -> PersisterType]
        /\ \A s \in Server : Len(disks[s].snapshot) = disks[s].snapIndex

VARIABLES
    raft,           \* raft[s]: the struct Raft of peer s
    supporter,      \* supporter[s][gen]: the variable of collectOpinion of round gen
    asking,         \* collectOpinion goroutines that have not built their arguments
    replicators,    \* replicator goroutines
    requests,       \* RPCs on their way to the callee
    replies,        \* RPCs on their way back to the caller
    elections,      \* number of elections started so far
    restarts,       \* number of crashes so far
    ballots,        \* history: votes cast, <<voter, term, candidate>>
    chosen          \* history: the longest log prefix some server has committed

vars == <<raft, supporter, asking, replicators, requests, replies, elections, restarts,
          ballots, chosen>>
goroutines == <<supporter, asking, replicators>>
network == <<requests, replies>>
bounds == <<elections, restarts>>

Gen == 1 .. MaxTerm
NoGen == 0              \* the caller of an RPC whose process has been killed

Caller(s, gen, i) == [src |-> s, gen |-> gen, dst |-> i]
CallersOf(s, gen) == {Caller(s, gen, i) : i \in Server \ {s}}

\* The log of a peer from index 1 on; a snapshot is modelled by the entries
\* whose effect it contains.
FullLog(rf) == rf.snapshot \o Tail(rf.log)

\* One peer changes its state; what it commits is recorded in chosen.
Update(s, rf) ==
    /\ raft' = [raft EXCEPT ![s] = rf]
    /\ chosen' = IF rf.commitIndex > Len(chosen)
                 THEN SubSeq(FullLog(rf), 1, rf.commitIndex) ELSE chosen

-----------------------------------------------------------------------------
(* labrpc: a call is handled at most once, and the caller either gets the  *)
(* reply or learns that the call failed.                                   *)

Send(c, meth, args) ==
    /\ Cardinality(requests) + Cardinality(replies) < MaxInFlight
    /\ requests' = requests \cup
            {[meth |-> meth, src |-> c.src, gen |-> c.gen, dst |-> c.dst, args |-> args]}
    /\ UNCHANGED replies

\* The callee handled m; the reply travels unless the caller was killed.
Reply(m, reply) ==
    /\ requests' = requests \ {m}
    /\ replies' = IF m.gen = NoGen THEN replies
                  ELSE replies \cup {[meth |-> m.meth, src |-> m.src, gen |-> m.gen,
                                      dst |-> m.dst, args |-> m.args, reply |-> reply]}

Receive(m) == replies' = replies \ {m} /\ UNCHANGED requests

Is(m, meth) == m.meth = meth
Outstanding(c) ==
    \E m \in requests \cup replies :
        /\ ~Is(m, "RequestVote")
        /\ Caller(m.src, m.gen, m.dst) = c

-----------------------------------------------------------------------------
(* Elections *)

\* ticker: the election timeout may expire whenever the peer is not Leader.
Ticker(s) ==
    LET gen == raft[s].currentTerm + 1 IN
    /\ elections < MaxElections /\ gen <= MaxTerm
    /\ raft[s].state # Leader
    /\ Update(s, becomeCandidate(raft[s]))
    /\ supporter' = [supporter EXCEPT ![s][gen] = 1]
    /\ asking' = asking \cup CallersOf(s, gen)
    /\ ballots' = ballots \cup {<<s, gen, s>>}
    /\ elections' = elections + 1
    /\ UNCHANGED <<replicators, network, restarts>>

\* A goroutine of collectOpinion gets the lock and builds its arguments from
\* the state the peer has by then.
AskVote(c) ==
    /\ asking' = asking \ {c}
    /\ Send(c, "RequestVote", voteArgs(raft[c.src]))
    /\ UNCHANGED <<raft, chosen, supporter, replicators, ballots, bounds>>

HandleRequestVote(m) ==
    LET out == RequestVote(raft[m.dst], m.args) IN
    /\ Is(m, "RequestVote")
    /\ Update(m.dst, out.rf)
    /\ Reply(m, out.reply)
    /\ ballots' = IF out.reply.VoteGranted
                  THEN ballots \cup {<<m.dst, m.args.Term, m.args.CandidateId>>} ELSE ballots
    /\ UNCHANGED <<goroutines, bounds>>

\* The reply path of collectOpinion.
CountVote(m) ==
    LET s == m.src
        rf == observeTerm(raft[s], m.reply.Term)
        votes == supporter[s][m.gen] + 1
    IN
    /\ Is(m, "RequestVote")
    /\ Receive(m)
    /\ \/ /\ ~countsVote(rf, m.args, m.reply)
          /\ Update(s, rf)
          /\ UNCHANGED <<supporter, replicators>>
       \/ /\ countsVote(rf, m.args, m.reply)
          /\ supporter' = [supporter EXCEPT ![s][m.gen] = votes]
          /\ \/ /\ MajorityOf(votes)
                /\ Update(s, becomeLeader(rf))
                /\ replicators' = replicators \cup CallersOf(s, rf.currentTerm)
             \/ /\ ~MajorityOf(votes)
                /\ Update(s, rf)
                /\ UNCHANGED replicators
    /\ UNCHANGED <<asking, ballots, bounds>>

-----------------------------------------------------------------------------
(* Replication *)

\* singleAppend up to the RPC.  get(prevLogIndex) would panic beyond the log.
SingleAppend(c) ==
    LET rf == raft[c.src] IN
    /\ rf.state = Leader
    /\ ~Outstanding(c)
    /\ rf.nextIndex[c.dst] <= logLength(rf)
    /\ \/ /\ rf.nextIndex[c.dst] - 1 < rf.snapIndex
          /\ Send(c, "InstallSnapshot", installArgs(rf))
       \/ /\ rf.nextIndex[c.dst] - 1 >= rf.snapIndex
          /\ Send(c, "AppendEntries", appendArgs(rf, c.dst))
    /\ UNCHANGED <<raft, chosen, goroutines, ballots, bounds>>

HandleAppendEntries(m) ==
    LET out == AppendEntries(raft[m.dst], m.args) IN
    /\ Is(m, "AppendEntries")
    /\ Update(m.dst, out.rf)
    /\ Reply(m, out.reply)
    /\ UNCHANGED <<goroutines, ballots, bounds>>

HandleInstallSnapshot(m) ==
    LET out == InstallSnapshot(raft[m.dst], m.args) IN
    /\ Is(m, "InstallSnapshot")
    /\ Update(m.dst, out.rf)
    /\ Reply(m, out.reply)
    /\ UNCHANGED <<goroutines, ballots, bounds>>

AppendReturns(m) ==
    /\ Is(m, "AppendEntries")
    /\ Receive(m)
    /\ Update(m.src, onAppendReply(raft[m.src], m.dst, m.args, m.reply))
    /\ UNCHANGED <<goroutines, ballots, bounds>>

InstallReturns(m) ==
    /\ Is(m, "InstallSnapshot")
    /\ Receive(m)
    /\ Update(m.src, onInstallReply(raft[m.src], m.dst, m.args, m.reply))
    /\ UNCHANGED <<goroutines, ballots, bounds>>

\* The network loses the request or the reply: a replicator sleeps and is back
\* at the start of its loop, a collectOpinion goroutine ends.
Lose(m) ==
    /\ requests' = requests \ {m}
    /\ replies' = replies \ {m}
    /\ UNCHANGED <<raft, chosen, goroutines, ballots, bounds>>

-----------------------------------------------------------------------------
(* The service, and crashes *)

ClientStart(s, command) ==
    /\ raft[s].state = Leader
    /\ lastLogIndex(raft[s]) < MaxIndex
    /\ Update(s, Start(raft[s], command))
    /\ UNCHANGED <<goroutines, network, ballots, bounds>>

\* guardKick.  That a wakeup is never missed is the subject of RaftApply.
GuardKick(s) ==
    /\ raft[s].lastApplied < raft[s].commitIndex
    /\ Update(s, takeBatch(raft[s]))
    /\ UNCHANGED <<goroutines, network, ballots, bounds>>

\* The service, having applied index, finds the persisted log too long.
ServiceSnapshot(s, index) ==
    /\ MaxRaftState >= 0 /\ Len(raft[s].persister.log) - 1 > MaxRaftState
    /\ index \in Index(raft[s]) /\ index > raft[s].snapIndex /\ index <= raft[s].lastApplied
    /\ Update(s, Snapshot(raft[s], index, SubSeq(FullLog(raft[s]), 1, index)))
    /\ UNCHANGED <<goroutines, network, ballots, bounds>>

\* Kill, then Make with a copy of the persister: the goroutines of the old
\* process are gone, its requests may still reach their callees.
Restart(s) ==
    /\ restarts < MaxRestarts
    /\ restarts' = restarts + 1
    /\ Update(s, Make(s, raft[s].persister))
    /\ supporter' = [supporter EXCEPT ![s] = [gen \in Gen |-> 0]]
    /\ asking' = {c \in asking : c.src # s}
    /\ replicators' = {c \in replicators : c.src # s}
    /\ requests' = {IF m.src = s THEN [m EXCEPT !.gen = NoGen] ELSE m : m \in requests}
    /\ replies' = {m \in replies : m.src # s}
    /\ UNCHANGED <<elections, ballots>>

-----------------------------------------------------------------------------
Init ==
    /\ \E disks \in Disks :
        /\ raft = [s \in Server |-> Make(s, disks[s])]
        /\ ballots = {<<s, disks[s].currentTerm, disks[s].votedFor>> :
                          s \in {t \in Server : disks[t].votedFor # None}}
        /\ \E s \in Server :
            /\ \A t \in Server : disks[t].snapIndex <= disks[s].snapIndex
            /\ chosen = disks[s].snapshot
    /\ supporter = [s \in Server |-> [gen \in Gen |-> 0]]
    /\ asking = {} /\ replicators = {}
    /\ requests = {} /\ replies = {}
    /\ elections = 0 /\ restarts = 0

Next ==
    \/ \E s \in Server : Ticker(s) \/ GuardKick(s) \/ Restart(s)
    \/ \E s \in Server, command \in Command : ClientStart(s, command)
    \/ \E s \in Server, index \in 1 .. MaxIndex : ServiceSnapshot(s, index)
    \/ \E c \in asking : AskVote(c)
    \/ \E c \in replicators : SingleAppend(c)
    \/ \E m \in requests :
        HandleRequestVote(m) \/ HandleAppendEntries(m) \/ HandleInstallSnapshot(m)
    \/ \E m \in replies : CountVote(m) \/ AppendReturns(m) \/ InstallReturns(m)
    \/ \E m \in requests \cup replies : Lose(m)

Spec == Init /\ [][Next]_vars

\* replicator loops forever and so does guardKick.  labrpc loses each message
\* with a probability below 1, so an RPC that is retried forever is handled
\* and answered eventually: strong fairness of the handler and of the return.
\* A vote RPC, which is not retried, ends in one way or another.
Fairness ==
    /\ \A i \in Server :
        /\ WF_vars(GuardKick(i))
        /\ WF_vars(\E c \in replicators : c.dst = i /\ SingleAppend(c))
        /\ SF_vars(\E m \in requests :
                       m.dst = i /\ (HandleAppendEntries(m) \/ HandleInstallSnapshot(m)))
        /\ SF_vars(\E m \in replies : m.dst = i /\ (AppendReturns(m) \/ InstallReturns(m)))
    /\ WF_vars(\/ \E m \in requests : HandleRequestVote(m)
               \/ \E m \in replies : CountVote(m)
               \/ \E m \in requests \cup replies : Is(m, "RequestVote") /\ Lose(m))

FairSpec == Spec /\ Fairness

-----------------------------------------------------------------------------
(* Types *)

CallerType(Gens) == {c \in [src: Server, gen: Gens, dst: Server] : c.src # c.dst}

RequestOf(meth, Gens, Args) ==
    [meth: {meth}, src: Server, gen: Gens, dst: Server, args: Args]
ReplyOf(meth, Gens, Args, Result) ==
    [meth: {meth}, src: Server, gen: Gens, dst: Server, args: Args, reply: Result]

RequestType ==
    RequestOf("RequestVote", Gen \cup {NoGen}, VoteArgs)
        \cup RequestOf("AppendEntries", Nat, AppendArgs)
        \cup RequestOf("InstallSnapshot", Nat, InstallArgs)
ReplyType ==
    ReplyOf("RequestVote", Gen, VoteArgs, VoteReply)
        \cup ReplyOf("AppendEntries", Nat, AppendArgs, AppendReply)
        \cup ReplyOf("InstallSnapshot", Nat, InstallArgs, InstallReply)

\* Every variable holds a value of its Go type, a log always has its dummy
\* entry, and a snapshot goes exactly as far as the index stored with it.
TypeOK ==
    /\ raft \in [Server -> RaftType]
    /\ \A s \in Server :
        /\ raft[s].me = s
        /\ Len(raft[s].snapshot) = raft[s].snapIndex
        /\ Len(raft[s].persister.snapshot) = raft[s].persister.snapIndex
    /\ supporter \in [Server -> [Gen -> Nat]]
    /\ asking \subseteq CallerType(Gen) /\ replicators \subseteq CallerType(Nat)
    /\ requests \subseteq RequestType /\ replies \subseteq ReplyType
    /\ \A m \in requests :
        Is(m, "InstallSnapshot") => Len(m.args.Data) = m.args.LastIncludedIndex
    /\ elections \in Nat /\ restarts \in Nat
    /\ ballots \subseteq Server \X Nat \X Server

-----------------------------------------------------------------------------
(* Safety *)

\* checkOneLeader (config.go): no two peers are Leader in the same term.
OneLeaderPerTerm ==
    \A s, t \in Server :
        raft[s].state = Leader /\ raft[t].state = Leader
            /\ raft[s].currentTerm = raft[t].currentTerm => s = t

\* A term is won by at most one peer, even if the first winner has lost its
\* leadership since: becomeLeader leaves a replicator of that term behind.
ElectionSafety == \A c, d \in replicators : c.gen = d.gen => c.src = d.src

\* tryVotingFor and persist: a peer votes for one candidate per term, across
\* crashes.
VoteOnce ==
    \A b, c \in ballots : b[1] = c[1] /\ b[2] = c[2] => b[3] = c[3]

\* Why VoteOnce and ElectionSafety hold, as an inductive invariant: nothing is
\* left unpersisted when rf.mu is released; a vote is kept until the term ends;
\* who is not a Follower has voted for itself; a granted vote was cast by the
\* callee in the term of the request; and who became leader of a term had, in
\* that term, its own vote and that of another peer.
ElectionInv ==
    /\ \A s \in Server :
        /\ raft[s].persister = Persisted(raft[s])
        /\ raft[s].state # Follower => <<s, raft[s].currentTerm, s>> \in ballots
    /\ \A b \in ballots :
        \/ b[2] < raft[b[1]].currentTerm
        \/ b[2] = raft[b[1]].currentTerm /\ raft[b[1]].votedFor = b[3]
    /\ \A m \in requests \cup replies : m.src # m.dst
    /\ \A m \in requests : Is(m, "RequestVote") => m.args.CandidateId = m.src
    /\ \A m \in replies :
        Is(m, "RequestVote") /\ m.reply.VoteGranted => <<m.dst, m.args.Term, m.src>> \in ballots
    /\ \A c \in replicators :
        /\ <<c.src, c.gen, c.src>> \in ballots
        /\ \E v \in Server \ {c.src} : <<v, c.gen, c.src>> \in ballots
=============================================================================
