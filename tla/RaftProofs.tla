----------------------------- MODULE RaftProofs -----------------------------
(***************************************************************************)
(* Elections of a Raft cluster of any size, with any disks and any bounds: *)
(* types, votes, and, for up to three peers, one winner per term.          *)
(***************************************************************************)
EXTENDS Raft, RaftServerProofs

\* The conjuncts of TypeOK and ElectionInv, grouped by the variables that the
\* actions change together.
Peers ==
    /\ raft \in [Server -> RaftType]
    /\ \A s \in Server : RaftOK(raft[s]) /\ Durable(raft[s]) /\ raft[s].me = s

Kept(b) ==
    \/ b[2] < raft[b[1]].currentTerm
    \/ b[2] = raft[b[1]].currentTerm /\ raft[b[1]].votedFor = b[3]

Votes ==
    /\ ballots \subseteq Server \X Nat \X Server
    /\ VoteOnce
    /\ \A b \in ballots : Kept(b)
    /\ \A s \in Server : raft[s].state # Follower => <<s, raft[s].currentTerm, s>> \in ballots

RequestOK(m) ==
    /\ m \in RequestType /\ m.src # m.dst
    /\ Is(m, "InstallSnapshot") => Len(m.args.Data) = m.args.LastIncludedIndex
    /\ Is(m, "RequestVote") => m.args.CandidateId = m.src

Requests == \A m \in requests : RequestOK(m)

ReplyOK(m, cast) ==
    /\ m \in ReplyType /\ m.src # m.dst
    /\ Is(m, "RequestVote") /\ m.reply.VoteGranted => <<m.dst, m.args.Term, m.src>> \in cast

Replies == \A m \in replies : ReplyOK(m, ballots)

Elected(c, cast) ==
    /\ <<c.src, c.gen, c.src>> \in cast
    /\ \E v \in Server \ {c.src} : <<v, c.gen, c.src>> \in cast

Goroutines ==
    /\ supporter \in [Server -> [Gen -> Nat]]
    /\ asking \subseteq CallerType(Gen)
    /\ replicators \subseteq CallerType(Nat)
    /\ \A c \in replicators : Elected(c, ballots)

Counters == elections \in Nat /\ restarts \in Nat

Inv == Peers /\ Votes /\ Requests /\ Replies /\ Goroutines /\ Counters

\* Inv is TypeOK, ElectionInv and VoteOnce, rearranged.
LEMMA InvMeaning == Inv <=> TypeOK /\ ElectionInv /\ VoteOnce
BY DEF Inv, Peers, Votes, Kept, Requests, RequestOK, Replies, ReplyOK, Goroutines, Elected,
       Counters, TypeOK, ElectionInv, RaftOK, Durable

-----------------------------------------------------------------------------
(* One peer changes its state *)

\* The struct may change in any way that keeps its invariants, moves to a later
\* term or keeps a vote that was cast; a vote may be recorded if it is the one
\* in the struct.
LEMMA PeerStep ==
    ASSUME Peers, Votes, NEW s \in Server, NEW rf, NEW new,
           RaftOK(rf), Durable(rf), rf.me = s,
           \/ rf.currentTerm > raft[s].currentTerm
           \/ rf.currentTerm = raft[s].currentTerm /\ raft[s].votedFor \in {None, rf.votedFor},
           new \subseteq {<<s, rf.currentTerm, rf.votedFor>>},
           new # {} => rf.votedFor \in Server,
           raft' = [raft EXCEPT ![s] = rf], ballots' = ballots \cup new,
           rf.state # Follower => <<s, rf.currentTerm, s>> \in ballots'
    PROVE  Peers' /\ Votes'
<1>1. rf \in RaftType /\ rf.currentTerm \in Nat
  BY DEF RaftOK, RaftType
<1>2. /\ raft' \in [Server -> RaftType] /\ raft'[s] = rf
      /\ \A t \in Server \ {s} : raft'[t] = raft[t]
      /\ raft \in [Server -> RaftType] /\ raft[s].currentTerm \in Nat
  BY <1>1 DEF Peers, RaftOK, RaftType
<1>3. Peers'
  BY <1>2 DEF Peers
<1>4. (ballots \subseteq Server \X Nat \X Server)'
  BY <1>1 DEF Votes
<1>5. ASSUME NEW b \in ballots
      PROVE  /\ b[1] \in Server /\ b[2] \in Nat /\ b[3] \in Server
             /\ b[1] = s => \/ b[2] < rf.currentTerm
                            \/ b[2] = rf.currentTerm /\ rf.votedFor = b[3]
  <2>1. b[1] \in Server /\ b[2] \in Nat /\ b[3] \in Server
    BY <1>5 DEF Votes
  <2>2. ASSUME b[1] = s
        PROVE  \/ b[2] < rf.currentTerm
               \/ b[2] = rf.currentTerm /\ rf.votedFor = b[3]
    <3>1. \/ b[2] < raft[s].currentTerm
          \/ b[2] = raft[s].currentTerm /\ raft[s].votedFor = b[3]
      BY <1>5, <2>2 DEF Votes, Kept
    <3>2. b[3] # None
      BY <2>1, ConstantsAssumption
    <3> QED BY <1>1, <1>2, <2>1, <3>1, <3>2
  <2> QED BY <2>1, <2>2
<1>6. (\A b \in ballots : Kept(b))'
  <2> SUFFICES ASSUME NEW b \in ballots'
               PROVE  Kept(b)'
    OBVIOUS
  <2>1. CASE b \in ballots /\ b[1] = s
    BY <1>2, <1>5, <2>1 DEF Kept
  <2>2. CASE b \in ballots /\ b[1] # s
    BY <1>2, <1>5, <2>2 DEF Kept, Votes
  <2>3. CASE b \in new
    <3>1. b[1] = s /\ b[2] = rf.currentTerm /\ b[3] = rf.votedFor
      BY <2>3
    <3> QED BY <1>2, <3>1 DEF Kept
  <2> QED BY <2>1, <2>2, <2>3
<1>7. VoteOnce'
  <2> SUFFICES ASSUME NEW b \in ballots', NEW c \in ballots', b[1] = c[1], b[2] = c[2]
               PROVE  b[3] = c[3]
    BY DEF VoteOnce
  <2>1. CASE b \in ballots /\ c \in ballots
    BY <2>1 DEF Votes, VoteOnce
  <2>2. ASSUME NEW x \in new
        PROVE  x[1] = s /\ x[2] = rf.currentTerm /\ x[3] = rf.votedFor
    BY <2>2
  <2>3. CASE b \in new /\ c \in new
    BY <2>2, <2>3
  <2>4. CASE b \in new /\ c \in ballots
    BY <1>1, <1>5, <2>2, <2>4
  <2>5. CASE b \in ballots /\ c \in new
    BY <1>1, <1>5, <2>2, <2>5
  <2> QED BY <2>1, <2>3, <2>4, <2>5
<1>8. (\A t \in Server : raft[t].state # Follower =>
            <<t, raft[t].currentTerm, t>> \in ballots)'
  BY <1>2 DEF Votes
<1> QED BY <1>3, <1>4, <1>6, <1>7, <1>8 DEF Votes

\* The common case: the peer stays what it is and no vote is recorded.
LEMMA GoodStep ==
    ASSUME Peers, Votes, NEW s \in Server, NEW rf, Good(raft[s], rf),
           raft' = [raft EXCEPT ![s] = rf], ballots' = ballots
    PROVE  Peers' /\ Votes'
<1>1. /\ RaftOK(rf) /\ Durable(rf) /\ rf.me = s
      /\ \/ rf.currentTerm > raft[s].currentTerm
         \/ rf.currentTerm = raft[s].currentTerm /\ raft[s].votedFor \in {None, rf.votedFor}
  BY DEF Good, Follows, Peers
<1>2. rf.state # Follower => <<s, rf.currentTerm, s>> \in ballots'
  BY DEF Good, Follows, Votes
<1>3. {} \subseteq {<<s, rf.currentTerm, rf.votedFor>>} /\ ballots' = ballots \cup {}
  OBVIOUS
<1> QED BY <1>1, <1>2, <1>3, PeerStep

-----------------------------------------------------------------------------
(* Messages and goroutines *)

LEMMA RequestFields ==
    ASSUME NEW m \in RequestType
    PROVE  /\ m.src \in Server /\ m.dst \in Server /\ m.gen \in Nat
           /\ Is(m, "RequestVote") => m.gen \in Gen \cup {NoGen} /\ m.args \in VoteArgs
           /\ Is(m, "AppendEntries") => m.args \in AppendArgs
           /\ Is(m, "InstallSnapshot") => m.args \in InstallArgs
<1>1. CASE m \in RequestOf("RequestVote", Gen \cup {NoGen}, VoteArgs)
  BY <1>1, ConstantsAssumption DEF RequestOf, Is, Gen, NoGen
<1>2. CASE m \in RequestOf("AppendEntries", Nat, AppendArgs)
  BY <1>2 DEF RequestOf, Is
<1>3. CASE m \in RequestOf("InstallSnapshot", Nat, InstallArgs)
  BY <1>3 DEF RequestOf, Is
<1> QED BY <1>1, <1>2, <1>3 DEF RequestType

LEMMA ReplyFields ==
    ASSUME NEW m \in ReplyType
    PROVE  /\ m.src \in Server /\ m.dst \in Server
           /\ Is(m, "RequestVote") => m.gen \in Gen /\ m.args \in VoteArgs /\ m.reply \in VoteReply
           /\ Is(m, "AppendEntries") => m.args \in AppendArgs /\ m.reply \in AppendReply
           /\ Is(m, "InstallSnapshot") => m.args \in InstallArgs /\ m.reply \in InstallReply
<1>1. CASE m \in ReplyOf("RequestVote", Gen, VoteArgs, VoteReply)
  BY <1>1 DEF ReplyOf, Is
<1>2. CASE m \in ReplyOf("AppendEntries", Nat, AppendArgs, AppendReply)
  BY <1>2 DEF ReplyOf, Is
<1>3. CASE m \in ReplyOf("InstallSnapshot", Nat, InstallArgs, InstallReply)
  BY <1>3 DEF ReplyOf, Is
<1> QED BY <1>1, <1>2, <1>3 DEF ReplyType

\* Lost or received messages take nothing away from those that remain.
LEMMA FewerMessages ==
    ASSUME Requests, Replies, requests' \subseteq requests, replies' \subseteq replies,
           ballots \subseteq ballots'
    PROVE  Requests' /\ Replies'
<1>1. Requests'
  BY DEF Requests, RequestOK, Is
<1>2. ASSUME NEW m \in replies PROVE ReplyOK(m, ballots')
  BY <1>2 DEF Replies, ReplyOK
<1> QED BY <1>1, <1>2 DEF Replies

LEMMA SameGoroutines ==
    ASSUME Goroutines, UNCHANGED goroutines, ballots \subseteq ballots'
    PROVE  Goroutines'
<1>1. UNCHANGED supporter /\ UNCHANGED asking /\ UNCHANGED replicators
  BY DEF goroutines
<1>2. ASSUME NEW c \in replicators PROVE Elected(c, ballots')
  BY <1>2 DEF Goroutines, Elected
<1> QED BY <1>1, <1>2 DEF Goroutines

LEMMA SendOK ==
    ASSUME Requests, Replies, ballots' = ballots, NEW c, NEW meth, NEW args, Send(c, meth, args),
           RequestOK([meth |-> meth, src |-> c.src, gen |-> c.gen, dst |-> c.dst, args |-> args])
    PROVE  Requests' /\ Replies'
<1>1. Requests'
  BY DEF Send, Requests
<1>2. Replies'
  BY DEF Send, Replies
<1> QED BY <1>1, <1>2

\* The fields of a reply are those of its request.
LEMMA ReplySent ==
    ASSUME Requests, Replies, NEW m \in requests, NEW reply, Reply(m, reply),
           ballots \subseteq ballots',
           /\ Is(m, "RequestVote") => reply \in VoteReply
           /\ Is(m, "AppendEntries") => reply \in AppendReply
           /\ Is(m, "InstallSnapshot") => reply \in InstallReply,
           Is(m, "RequestVote") /\ reply.VoteGranted => <<m.dst, m.args.Term, m.src>> \in ballots'
    PROVE  Requests' /\ Replies'
<1> DEFINE r == [meth |-> m.meth, src |-> m.src, gen |-> m.gen,
                 dst |-> m.dst, args |-> m.args, reply |-> reply]
<1>1. Requests'
  BY DEF Reply, Requests
<1>2. m \in RequestType /\ m.src # m.dst
  BY DEF Requests, RequestOK
<1>3. m.gen # NoGen => r \in ReplyType
  <2> SUFFICES ASSUME m.gen # NoGen PROVE r \in ReplyType
    OBVIOUS
  <2>1. CASE m \in RequestOf("RequestVote", Gen \cup {NoGen}, VoteArgs)
    <3>1. /\ m.meth = "RequestVote" /\ m.src \in Server /\ m.gen \in Gen /\ m.dst \in Server
          /\ m.args \in VoteArgs /\ reply \in VoteReply
      BY <2>1 DEF RequestOf, Is
    <3> QED BY <3>1 DEF ReplyType, ReplyOf
  <2>2. CASE m \in RequestOf("AppendEntries", Nat, AppendArgs)
    <3>1. /\ m.meth = "AppendEntries" /\ m.src \in Server /\ m.gen \in Nat /\ m.dst \in Server
          /\ m.args \in AppendArgs /\ reply \in AppendReply
      BY <2>2 DEF RequestOf, Is
    <3> QED BY <3>1 DEF ReplyType, ReplyOf
  <2>3. CASE m \in RequestOf("InstallSnapshot", Nat, InstallArgs)
    <3>1. /\ m.meth = "InstallSnapshot" /\ m.src \in Server /\ m.gen \in Nat /\ m.dst \in Server
          /\ m.args \in InstallArgs /\ reply \in InstallReply
      BY <2>3 DEF RequestOf, Is
    <3> QED BY <3>1 DEF ReplyType, ReplyOf
  <2> QED BY <1>2, <2>1, <2>2, <2>3 DEF RequestType
<1>4. m.gen # NoGen => ReplyOK(r, ballots')
  BY <1>2, <1>3 DEF ReplyOK, Is
<1>5. ASSUME NEW n \in replies PROVE ReplyOK(n, ballots')
  BY <1>5 DEF Replies, ReplyOK
<1>6. \A n \in replies' : n \in replies \/ (m.gen # NoGen /\ n = r)
  BY DEF Reply
<1> HIDE DEF r
<1>7. Replies'
  BY <1>4, <1>5, <1>6 DEF Replies
<1> QED BY <1>1, <1>7

-----------------------------------------------------------------------------
(* The actions *)

LEMMA InitInv == Init => Inv
<1> SUFFICES ASSUME Init PROVE Inv
  OBVIOUS
<1>1. PICK disks \in Disks :
        /\ raft = [s \in Server |-> Make(s, disks[s])]
        /\ ballots = {<<s, disks[s].currentTerm, disks[s].votedFor>> :
                          s \in {t \in Server : disks[t].votedFor # None}}
  BY DEF Init
<1>2. \A s \in Server : disks[s] \in PersisterType /\ Len(disks[s].snapshot) = disks[s].snapIndex
  BY DisksAssumption
<1>3. ASSUME NEW s \in Server
      PROVE  /\ RaftOK(raft[s]) /\ Durable(raft[s]) /\ raft[s].me = s /\ raft[s].state = Follower
             /\ raft[s].currentTerm = disks[s].currentTerm
             /\ raft[s].votedFor = disks[s].votedFor
  <2>1. raft[s] = Make(s, disks[s])
    BY <1>1
  <2> QED BY <1>2, <2>1, MakeGood
<1>4. Peers
  <2>1. \A s \in Server : Make(s, disks[s]) \in RaftType
    BY <1>2, MakeGood DEF RaftOK
  <2> QED BY <1>1, <1>3, <2>1 DEF Peers
<1>5. \A b \in ballots : /\ b[1] \in Server /\ b \in Server \X Nat \X Server
                         /\ b[2] = disks[b[1]].currentTerm /\ b[3] = disks[b[1]].votedFor
  <2>1. \A s \in Server : disks[s].currentTerm \in Nat /\ disks[s].votedFor \in Server \cup {None}
    BY <1>2 DEF PersisterType
  <2> QED BY <1>1, <2>1
<1>6. Votes
  BY <1>3, <1>5 DEF Votes, VoteOnce, Kept
<1>7. Requests /\ Replies /\ Goroutines /\ Counters
  BY DEF Init, Requests, Replies, Goroutines, Counters
<1> QED BY <1>4, <1>6, <1>7 DEF Inv

\* An election: the next term, with a vote for itself.
LEMMA TickerInv ==
    ASSUME Inv, NEW s \in Server, Ticker(s)
    PROVE  Inv'
<1> DEFINE rf == becomeCandidate(raft[s])
           gen == raft[s].currentTerm + 1
<1>1. RaftOK(raft[s]) /\ raft[s].me = s /\ raft[s].currentTerm \in Nat
  BY DEF Inv, Peers, RaftOK, RaftType
<1>2. /\ RaftOK(rf) /\ Durable(rf) /\ rf.me = s /\ rf.currentTerm = gen /\ rf.votedFor = s
  BY <1>1, BecomeCandidateGood
<1>3. /\ raft' = [raft EXCEPT ![s] = rf] /\ ballots' = ballots \cup {<<s, gen, s>>}
      /\ gen <= MaxTerm /\ supporter' = [supporter EXCEPT ![s][gen] = 1]
      /\ asking' = asking \cup CallersOf(s, gen) /\ elections' = elections + 1
      /\ UNCHANGED <<replicators, requests, replies, restarts>>
  BY DEF Ticker, Update, network
<1> HIDE DEF rf, gen
<1>4. gen > raft[s].currentTerm /\ gen \in Gen
  BY <1>1, <1>3, ConstantsAssumption DEF gen, Gen
<1>5. Peers' /\ Votes'
  <2>1. /\ {<<s, gen, s>>} \subseteq {<<s, rf.currentTerm, rf.votedFor>>}
        /\ <<s, rf.currentTerm, s>> \in ballots'
    BY <1>2, <1>3
  <2> QED BY <1>2, <1>3, <1>4, <2>1, PeerStep DEF Inv
<1>6. Requests' /\ Replies'
  BY <1>3, FewerMessages DEF Inv
<1>7. Goroutines'
  <2>1. CallersOf(s, gen) \subseteq CallerType(Gen)
    BY <1>4 DEF CallersOf, Caller, CallerType
  <2>2. supporter' \in [Server -> [Gen -> Nat]]
    BY <1>3 DEF Inv, Goroutines
  <2>3. ASSUME NEW c \in replicators PROVE Elected(c, ballots')
    BY <1>3, <2>3 DEF Inv, Goroutines, Elected
  <2> QED BY <1>3, <2>1, <2>2, <2>3 DEF Inv, Goroutines
<1>8. Counters'
  BY <1>3 DEF Inv, Counters
<1> QED BY <1>5, <1>6, <1>7, <1>8 DEF Inv

LEMMA AskVoteInv ==
    ASSUME Inv, NEW c \in asking, AskVote(c)
    PROVE  Inv'
<1> DEFINE args == voteArgs(raft[c.src])
<1>1. c.src \in Server /\ c.dst \in Server /\ c.gen \in Gen /\ c.src # c.dst
  BY DEF Inv, Goroutines, CallerType
<1>2. args \in VoteArgs /\ args.CandidateId = c.src
  BY <1>1, VoteArgsType DEF Inv, Peers
<1>3. /\ Send(c, "RequestVote", args) /\ asking' = asking \ {c}
      /\ UNCHANGED <<raft, supporter, replicators, ballots, elections, restarts>>
  BY DEF AskVote, bounds
<1> HIDE DEF args
<1>4. RequestOK([meth |-> "RequestVote", src |-> c.src, gen |-> c.gen, dst |-> c.dst,
                 args |-> args])
  BY <1>1, <1>2 DEF RequestOK, RequestType, RequestOf, Is
<1>5. Requests' /\ Replies'
  BY <1>3, <1>4, SendOK DEF Inv
<1>6. Peers' /\ Votes'
  BY <1>3 DEF Inv, Peers, Votes, VoteOnce, Kept
<1>7. Goroutines' /\ Counters'
  BY <1>3 DEF Inv, Goroutines, Counters
<1> QED BY <1>5, <1>6, <1>7 DEF Inv

\* A vote is granted: it is the vote in the struct, and cast for the caller.
LEMMA HandleRequestVoteInv ==
    ASSUME Inv, NEW m \in requests, HandleRequestVote(m)
    PROVE  Inv'
<1> DEFINE s == m.dst
           out == RequestVote(raft[s], m.args)
           new == IF out.reply.VoteGranted THEN {<<s, m.args.Term, m.args.CandidateId>>} ELSE {}
<1>1. /\ m \in RequestType /\ Is(m, "RequestVote") /\ m.args.CandidateId = m.src
  BY DEF Inv, Requests, RequestOK, HandleRequestVote
<1>2. s \in Server /\ m.args \in VoteArgs /\ m.src \in Server
  BY <1>1, RequestFields
<1>3. RaftOK(raft[s]) /\ Durable(raft[s]) /\ raft[s].me = s
  BY <1>2 DEF Inv, Peers
<1>4. /\ Good(raft[s], out.rf) /\ out.reply \in VoteReply
      /\ out.reply.VoteGranted =>
            out.rf.currentTerm = m.args.Term /\ out.rf.votedFor = m.src
  BY <1>1, <1>2, <1>3, RequestVoteGood
<1>5. /\ raft' = [raft EXCEPT ![s] = out.rf] /\ Reply(m, out.reply)
      /\ ballots' = ballots \cup new
      /\ UNCHANGED goroutines /\ UNCHANGED <<elections, restarts>>
  BY DEF HandleRequestVote, Update, bounds
<1> HIDE DEF out
<1>6. /\ new \subseteq {<<s, out.rf.currentTerm, out.rf.votedFor>>}
      /\ new # {} => out.rf.votedFor \in Server
      /\ out.reply.VoteGranted => <<s, m.args.Term, m.src>> \in ballots'
  BY <1>1, <1>2, <1>4, <1>5
<1> HIDE DEF new, s
<1>7. /\ RaftOK(out.rf) /\ Durable(out.rf) /\ out.rf.me = s
      /\ \/ out.rf.currentTerm > raft[s].currentTerm
         \/ /\ out.rf.currentTerm = raft[s].currentTerm
            /\ raft[s].votedFor \in {None, out.rf.votedFor}
  BY <1>3, <1>4 DEF Good, Follows
<1>8. out.rf.state # Follower => <<s, out.rf.currentTerm, s>> \in ballots'
  BY <1>2, <1>4, <1>5 DEF Good, Follows, Inv, Votes
<1>9. Peers' /\ Votes'
  BY <1>2, <1>5, <1>6, <1>7, <1>8, PeerStep DEF Inv
<1>10. Requests' /\ Replies'
  BY <1>1, <1>4, <1>5, <1>6, ReplySent DEF Inv, Is, s
<1>11. Goroutines' /\ Counters'
  BY <1>5, SameGoroutines DEF Inv, Counters
<1> QED BY <1>9, <1>10, <1>11 DEF Inv

\* A peer that becomes leader has its own vote, because it is still Candidate,
\* and the vote of the peer whose reply it has just counted.
LEMMA CountVoteInv ==
    ASSUME Inv, NEW m \in replies, CountVote(m)
    PROVE  Inv'
<1> DEFINE s == m.src
           rf == observeTerm(raft[s], m.reply.Term)
           votes == supporter[s][m.gen] + 1
           new == CallersOf(s, rf.currentTerm)
<1>1. /\ m \in ReplyType /\ Is(m, "RequestVote") /\ s # m.dst
      /\ m.reply.VoteGranted => <<m.dst, m.args.Term, s>> \in ballots
  BY DEF Inv, Replies, ReplyOK, CountVote
<1>2. /\ s \in Server /\ m.dst \in Server /\ m.gen \in Gen /\ m.reply \in VoteReply
      /\ m.reply.Term \in Nat
  BY <1>1, ReplyFields DEF VoteReply
<1>3. RaftOK(raft[s]) /\ Durable(raft[s]) /\ raft[s].me = s
  BY <1>2 DEF Inv, Peers
<1>4. Good(raft[s], rf)
  BY <1>2, <1>3, ObserveTermGood
<1>5. /\ replies' = replies \ {m}
      /\ UNCHANGED <<requests, asking, ballots, elections, restarts>>
  BY DEF CountVote, Receive, bounds
<1>6. \/ /\ raft' = [raft EXCEPT ![s] = rf]
         /\ supporter' \in {supporter, [supporter EXCEPT ![s][m.gen] = votes]}
         /\ UNCHANGED replicators
      \/ /\ countsVote(rf, m.args, m.reply)
         /\ raft' = [raft EXCEPT ![s] = becomeLeader(rf)]
         /\ supporter' = [supporter EXCEPT ![s][m.gen] = votes]
         /\ replicators' = replicators \cup new
  BY DEF CountVote, Update
<1> HIDE DEF rf
<1>7. votes \in Nat
  BY <1>2 DEF Inv, Goroutines
<1> HIDE DEF votes
<1>8. supporter' \in [Server -> [Gen -> Nat]]
  BY <1>2, <1>6, <1>7 DEF Inv, Goroutines
<1>9. Requests' /\ Replies'
  BY <1>5, FewerMessages DEF Inv
<1>10. Counters'
  BY <1>5 DEF Inv, Counters
<1>11. CASE raft' = [raft EXCEPT ![s] = rf] /\ UNCHANGED replicators
  <2>1. Peers' /\ Votes'
    BY <1>2, <1>4, <1>5, <1>11, GoodStep DEF Inv
  <2>2. Goroutines'
    BY <1>5, <1>8, <1>11 DEF Inv, Goroutines
  <2> QED BY <1>9, <1>10, <2>1, <2>2 DEF Inv
<1>12. CASE /\ countsVote(rf, m.args, m.reply)
            /\ raft' = [raft EXCEPT ![s] = becomeLeader(rf)]
            /\ replicators' = replicators \cup new
  <2> DEFINE ld == becomeLeader(rf)
  <2>1. /\ m.reply.VoteGranted /\ rf.state = Candidate /\ rf.currentTerm = m.args.Term
    BY <1>12 DEF countsVote
  <2>2. RaftOK(rf) /\ Durable(rf) /\ rf.me = s /\ rf.currentTerm \in Nat
    BY <1>3, <1>4 DEF Good, Follows, RaftOK, RaftType
  <2>3. /\ RaftOK(ld) /\ Durable(ld) /\ ld.me = s
        /\ ld.currentTerm = rf.currentTerm /\ ld.votedFor = rf.votedFor
    BY <2>2, BecomeLeaderGood
  <2>4. raft[s].state # Follower /\ rf.currentTerm = raft[s].currentTerm
    BY <1>4, <2>1 DEF Good, Follows, Follower, Candidate
  <2>5. <<s, rf.currentTerm, s>> \in ballots /\ <<m.dst, rf.currentTerm, s>> \in ballots
    BY <1>1, <1>2, <2>1, <2>4 DEF Inv, Votes
  <2>6. raft[s].votedFor \in {None, ld.votedFor}
    BY <1>4, <2>2, <2>3, <2>4 DEF Good, Follows
  <2> HIDE DEF ld
  <2>7. Peers' /\ Votes'
    <3>1. /\ {} \subseteq {<<s, ld.currentTerm, ld.votedFor>>} /\ ballots' = ballots \cup {}
          /\ <<s, ld.currentTerm, s>> \in ballots' /\ raft' = [raft EXCEPT ![s] = ld]
      BY <1>5, <1>12, <2>3, <2>5 DEF ld
    <3> QED BY <1>2, <2>3, <2>4, <2>6, <3>1, PeerStep DEF Inv
  <2>8. new \subseteq CallerType(Nat) /\ \A c \in new : c.src = s /\ c.gen = rf.currentTerm
    BY <1>2, <2>2 DEF CallersOf, Caller, CallerType
  <2>9. \A c \in new : Elected(c, ballots)
    BY <1>1, <1>2, <2>5, <2>8 DEF Elected
  <2> HIDE DEF new
  <2>10. Goroutines'
    BY <1>5, <1>8, <1>12, <2>8, <2>9 DEF Inv, Goroutines
  <2> QED BY <1>9, <1>10, <2>7, <2>10 DEF Inv
<1> QED BY <1>6, <1>11, <1>12

-----------------------------------------------------------------------------
(* Replication and the service *)

LEMMA SingleAppendInv ==
    ASSUME Inv, NEW c \in replicators, SingleAppend(c)
    PROVE  Inv'
<1> DEFINE rf == raft[c.src]
<1>1. c.src \in Server /\ c.dst \in Server /\ c.gen \in Nat /\ c.src # c.dst
  BY DEF Inv, Goroutines, CallerType
<1>2. RaftOK(rf)
  BY <1>1 DEF Inv, Peers
<1>3. /\ rf.nextIndex[c.dst] <= logLength(rf)
      /\ \/ Send(c, "InstallSnapshot", installArgs(rf))
         \/ /\ rf.nextIndex[c.dst] - 1 >= rf.snapIndex
            /\ Send(c, "AppendEntries", appendArgs(rf, c.dst))
      /\ UNCHANGED <<raft, ballots, elections, restarts>> /\ UNCHANGED goroutines
  BY DEF SingleAppend, bounds
<1>4. Peers' /\ Votes' /\ Goroutines' /\ Counters'
  <2>1. Peers' /\ Votes' /\ Counters'
    BY <1>3 DEF Inv, Peers, Votes, VoteOnce, Kept, Counters
  <2> QED BY <1>3, <2>1, SameGoroutines DEF Inv
<1> HIDE DEF rf
<1>5. CASE Send(c, "InstallSnapshot", installArgs(rf))
  <2>1. /\ installArgs(rf) \in InstallArgs
        /\ Len(installArgs(rf).Data) = installArgs(rf).LastIncludedIndex
    BY <1>2, InstallArgsType
  <2> DEFINE args == installArgs(rf)
  <2> HIDE DEF args
  <2>2. RequestOK([meth |-> "InstallSnapshot", src |-> c.src, gen |-> c.gen, dst |-> c.dst,
                   args |-> args])
    BY <1>1, <2>1 DEF RequestOK, RequestType, RequestOf, Is, args
  <2>3. Requests' /\ Replies'
    BY <1>3, <1>5, <2>2, SendOK DEF Inv, args
  <2> QED BY <1>4, <2>3 DEF Inv
<1>6. CASE rf.nextIndex[c.dst] - 1 >= rf.snapIndex /\ Send(c, "AppendEntries", appendArgs(rf, c.dst))
  <2> DEFINE args == appendArgs(rf, c.dst)
  <2>1. args \in AppendArgs
    BY <1>1, <1>2, <1>3, <1>6, AppendArgsType
  <2> HIDE DEF args
  <2>2. RequestOK([meth |-> "AppendEntries", src |-> c.src, gen |-> c.gen, dst |-> c.dst,
                   args |-> args])
    BY <1>1, <2>1 DEF RequestOK, RequestType, RequestOf, Is
  <2>3. Requests' /\ Replies'
    BY <1>3, <1>6, <2>2, SendOK DEF Inv, args
  <2> QED BY <1>4, <2>3 DEF Inv
<1> QED BY <1>3, <1>5, <1>6

\* A handler or a reply path that leaves the ballots and the goroutines alone.
LEMMA HandlerInv ==
    ASSUME Inv, NEW s \in Server, NEW rf, Good(raft[s], rf), raft' = [raft EXCEPT ![s] = rf],
           Requests', Replies', UNCHANGED goroutines, UNCHANGED <<ballots, elections, restarts>>
    PROVE  Inv'
<1>1. Peers' /\ Votes'
  BY GoodStep DEF Inv
<1>2. Goroutines' /\ Counters'
  BY SameGoroutines DEF Inv, Counters
<1> QED BY <1>1, <1>2 DEF Inv

LEMMA HandleAppendEntriesInv ==
    ASSUME Inv, NEW m \in requests, HandleAppendEntries(m)
    PROVE  Inv'
<1> DEFINE out == AppendEntries(raft[m.dst], m.args)
<1>1. m \in RequestType /\ Is(m, "AppendEntries")
  BY DEF Inv, Requests, RequestOK, HandleAppendEntries
<1>2. m.dst \in Server /\ m.args \in AppendArgs
  BY <1>1, RequestFields
<1>3. Good(raft[m.dst], out.rf) /\ out.reply \in AppendReply
  BY <1>2, AppendEntriesGood DEF Inv, Peers
<1>4. /\ raft' = [raft EXCEPT ![m.dst] = out.rf] /\ Reply(m, out.reply)
      /\ UNCHANGED goroutines /\ UNCHANGED <<ballots, elections, restarts>>
  BY DEF HandleAppendEntries, Update, bounds
<1> HIDE DEF out
<1>5. Requests' /\ Replies'
  BY <1>1, <1>3, <1>4, ReplySent DEF Inv, Is
<1> QED BY <1>2, <1>3, <1>4, <1>5, HandlerInv

LEMMA HandleInstallSnapshotInv ==
    ASSUME Inv, NEW m \in requests, HandleInstallSnapshot(m)
    PROVE  Inv'
<1> DEFINE out == InstallSnapshot(raft[m.dst], m.args)
<1>1. /\ m \in RequestType /\ Is(m, "InstallSnapshot")
      /\ Len(m.args.Data) = m.args.LastIncludedIndex
  BY DEF Inv, Requests, RequestOK, HandleInstallSnapshot
<1>2. m.dst \in Server /\ m.args \in InstallArgs
  BY <1>1, RequestFields
<1>3. Good(raft[m.dst], out.rf) /\ out.reply \in InstallReply
  BY <1>1, <1>2, InstallSnapshotGood DEF Inv, Peers
<1>4. /\ raft' = [raft EXCEPT ![m.dst] = out.rf] /\ Reply(m, out.reply)
      /\ UNCHANGED goroutines /\ UNCHANGED <<ballots, elections, restarts>>
  BY DEF HandleInstallSnapshot, Update, bounds
<1> HIDE DEF out
<1>5. Requests' /\ Replies'
  BY <1>1, <1>3, <1>4, ReplySent DEF Inv, Is
<1> QED BY <1>2, <1>3, <1>4, <1>5, HandlerInv

LEMMA ReturnsInv ==
    ASSUME Inv, NEW m \in replies, AppendReturns(m) \/ InstallReturns(m)
    PROVE  Inv'
<1>1. m \in ReplyType
  BY DEF Inv, Replies, ReplyOK
<1>2. /\ m.src \in Server /\ m.dst \in Server
      /\ Is(m, "AppendEntries") => m.args \in AppendArgs /\ m.reply \in AppendReply
      /\ Is(m, "InstallSnapshot") => m.args \in InstallArgs /\ m.reply \in InstallReply
  BY <1>1, ReplyFields
<1>3. RaftOK(raft[m.src]) /\ Durable(raft[m.src])
  BY <1>2 DEF Inv, Peers
<1>4. /\ replies' = replies \ {m} /\ UNCHANGED requests
      /\ UNCHANGED goroutines /\ UNCHANGED <<ballots, elections, restarts>>
  BY DEF AppendReturns, InstallReturns, Receive, bounds
<1>5. Requests' /\ Replies'
  BY <1>4, FewerMessages DEF Inv
<1>6. CASE AppendReturns(m)
  <2> DEFINE rf == onAppendReply(raft[m.src], m.dst, m.args, m.reply)
  <2>1. Good(raft[m.src], rf)
    BY <1>2, <1>3, <1>6, OnAppendReplyGood DEF AppendReturns
  <2>2. raft' = [raft EXCEPT ![m.src] = rf]
    BY <1>6 DEF AppendReturns, Update
  <2> HIDE DEF rf
  <2> QED BY <1>2, <1>4, <1>5, <2>1, <2>2, HandlerInv
<1>7. CASE InstallReturns(m)
  <2> DEFINE rf == onInstallReply(raft[m.src], m.dst, m.args, m.reply)
  <2>1. Good(raft[m.src], rf)
    BY <1>2, <1>3, <1>7, OnInstallReplyGood DEF InstallReturns
  <2>2. raft' = [raft EXCEPT ![m.src] = rf]
    BY <1>7 DEF InstallReturns, Update
  <2> HIDE DEF rf
  <2> QED BY <1>2, <1>4, <1>5, <2>1, <2>2, HandlerInv
<1> QED BY <1>6, <1>7

LEMMA LoseInv ==
    ASSUME Inv, NEW m, Lose(m)
    PROVE  Inv'
<1>1. /\ requests' \subseteq requests /\ replies' \subseteq replies
      /\ UNCHANGED <<raft, ballots, elections, restarts>> /\ UNCHANGED goroutines
  BY DEF Lose, bounds
<1>2. Requests' /\ Replies' /\ Goroutines'
  BY <1>1, FewerMessages, SameGoroutines DEF Inv
<1> QED BY <1>1, <1>2 DEF Inv, Peers, Votes, VoteOnce, Kept, Counters

\* What a snapshot up to an index of the log contains.
LEMMA SnapshotData ==
    ASSUME NEW rf, RaftOK(rf), NEW index \in Index(rf)
    PROVE  /\ SubSeq(FullLog(rf), 1, index) \in Seq(Entry)
           /\ Len(SubSeq(FullLog(rf), 1, index)) = index
<1>1. /\ rf.snapshot \in Seq(Entry) /\ Len(rf.snapshot) = rf.snapIndex
      /\ rf.log \in Seq(Entry) /\ rf.log # <<>> /\ rf.snapIndex \in Nat
      /\ Len(rf.log) \in Nat /\ index \in Nat /\ index <= lastLogIndex(rf)
  <2>1. rf.snapshot \in Seq(Entry) /\ Len(rf.snapshot) = rf.snapIndex
    BY DEF RaftOK, RaftType
  <2>2. /\ rf.log \in Seq(Entry) /\ rf.log # <<>> /\ rf.snapIndex \in Nat
        /\ Len(rf.log) \in Nat /\ lastLogIndex(rf) \in Nat
    BY LogIndices
  <2> QED BY <2>1, <2>2 DEF Index
<1>2. Tail(rf.log) \in Seq(Entry) /\ Len(Tail(rf.log)) = Len(rf.log) - 1
  BY <1>1, HeadTailProperties
<1>3. FullLog(rf) \in Seq(Entry) /\ Len(FullLog(rf)) = Len(rf.snapshot) + Len(Tail(rf.log))
  BY <1>1, <1>2, ConcatProperties DEF FullLog
<1>4. index <= Len(FullLog(rf))
  BY <1>1, <1>2, <1>3 DEF lastLogIndex, logLength
<1>5. \A i \in 1 .. index : FullLog(rf)[i] \in Entry
  BY <1>1, <1>3, <1>4, LenProperties
<1> QED BY <1>1, <1>5, SubSeqProperties

LEMMA ServiceInv ==
    ASSUME Inv, NEW s \in Server,
           \/ GuardKick(s)
           \/ \E command \in Command : ClientStart(s, command)
           \/ \E index \in 1 .. MaxIndex : ServiceSnapshot(s, index)
    PROVE  Inv'
<1>1. RaftOK(raft[s]) /\ Durable(raft[s])
  BY DEF Inv, Peers
<1>2. PICK rf : Good(raft[s], rf) /\ raft' = [raft EXCEPT ![s] = rf]
  <2>1. CASE GuardKick(s)
    BY <1>1, <2>1, TakeBatchGood DEF GuardKick, Update
  <2>2. ASSUME NEW command \in Command, ClientStart(s, command)
        PROVE  \E rf : Good(raft[s], rf) /\ raft' = [raft EXCEPT ![s] = rf]
    BY <1>1, <2>2, StartGood DEF ClientStart, Update
  <2>3. ASSUME NEW index \in 1 .. MaxIndex, ServiceSnapshot(s, index)
        PROVE  \E rf : Good(raft[s], rf) /\ raft' = [raft EXCEPT ![s] = rf]
    <3> DEFINE data == SubSeq(FullLog(raft[s]), 1, index)
    <3>1. index \in Index(raft[s]) /\ raft' = [raft EXCEPT ![s] = Snapshot(raft[s], index, data)]
      BY <2>3 DEF ServiceSnapshot, Update
    <3>2. data \in Seq(Entry) /\ Len(data) = index
      BY <1>1, <3>1, SnapshotData
    <3> HIDE DEF data
    <3> QED BY <1>1, <3>1, <3>2, SnapshotGood
  <2> QED BY <2>1, <2>2, <2>3
<1>3. /\ UNCHANGED goroutines /\ UNCHANGED <<requests, replies>>
      /\ UNCHANGED <<ballots, elections, restarts>>
  BY DEF GuardKick, ClientStart, ServiceSnapshot, network, bounds
<1>4. Requests' /\ Replies'
  BY <1>3, FewerMessages DEF Inv
<1> QED BY <1>2, <1>3, <1>4, HandlerInv

-----------------------------------------------------------------------------
(* Crashes *)

\* A request whose caller is killed stays the request it was.
LEMMA OrphanOK ==
    ASSUME NEW m, RequestOK(m)
    PROVE  RequestOK([m EXCEPT !.gen = NoGen])
<1> DEFINE n == [m EXCEPT !.gen = NoGen]
<1>1. NoGen \in Nat /\ NoGen \in Gen \cup {NoGen}
  BY DEF NoGen
<1>2. m \in RequestType
  BY DEF RequestOK
<1>3. /\ n \in RequestType /\ n.meth = m.meth /\ n.src = m.src /\ n.dst = m.dst
      /\ n.args = m.args
  <2>1. CASE m \in RequestOf("RequestVote", Gen \cup {NoGen}, VoteArgs)
    BY <1>1, <2>1 DEF RequestOf, RequestType
  <2>2. CASE m \in RequestOf("AppendEntries", Nat, AppendArgs)
    BY <1>1, <2>2 DEF RequestOf, RequestType
  <2>3. CASE m \in RequestOf("InstallSnapshot", Nat, InstallArgs)
    BY <1>1, <2>3 DEF RequestOf, RequestType
  <2> QED BY <1>2, <2>1, <2>2, <2>3 DEF RequestType
<1> HIDE DEF n
<1>4. RequestOK(n)
  BY <1>3 DEF RequestOK, Is
<1> QED BY <1>4 DEF n

\* Everything a vote depends on is in the persister.
LEMMA RestartInv ==
    ASSUME Inv, NEW s \in Server, Restart(s)
    PROVE  Inv'
<1> DEFINE ps == raft[s].persister
           rf == Make(s, ps)
<1>1. RaftOK(raft[s]) /\ Durable(raft[s])
  BY DEF Inv, Peers
<1>2. /\ ps \in PersisterType /\ Len(ps.snapshot) = ps.snapIndex
      /\ ps.currentTerm = raft[s].currentTerm /\ ps.votedFor = raft[s].votedFor
  BY <1>1 DEF RaftOK, RaftType, Durable, Persisted
<1>3. /\ RaftOK(rf) /\ Durable(rf) /\ rf.me = s /\ rf.state = Follower
      /\ rf.currentTerm = raft[s].currentTerm /\ rf.votedFor = raft[s].votedFor
  BY <1>2, MakeGood
<1>4. /\ raft' = [raft EXCEPT ![s] = rf] /\ UNCHANGED <<ballots, elections>>
      /\ restarts' = restarts + 1 /\ supporter' = [supporter EXCEPT ![s] = [gen \in Gen |-> 0]]
      /\ asking' \subseteq asking /\ replicators' \subseteq replicators
      /\ replies' \subseteq replies
      /\ requests' = {IF m.src = s THEN [m EXCEPT !.gen = NoGen] ELSE m : m \in requests}
  BY DEF Restart, Update
<1> HIDE DEF rf
<1>5. Peers' /\ Votes'
  <2>1. {} \subseteq {<<s, rf.currentTerm, rf.votedFor>>} /\ ballots' = ballots \cup {}
    BY <1>4
  <2> QED BY <1>3, <1>4, <2>1, PeerStep DEF Inv
<1>6. Requests'
  <2>1. \A m \in requests : RequestOK(m) /\ RequestOK([m EXCEPT !.gen = NoGen])
    BY OrphanOK DEF Inv, Requests
  <2> SUFFICES ASSUME NEW n \in requests' PROVE RequestOK(n)
    BY DEF Requests, RequestOK
  <2>2. PICK m \in requests : n = IF m.src = s THEN [m EXCEPT !.gen = NoGen] ELSE m
    BY <1>4
  <2> QED BY <2>1, <2>2
<1>7. Replies'
  BY <1>4 DEF Inv, Replies
<1>8. Goroutines'
  BY <1>4 DEF Inv, Goroutines
<1>9. Counters'
  BY <1>4 DEF Inv, Counters
<1> QED BY <1>5, <1>6, <1>7, <1>8, <1>9 DEF Inv

-----------------------------------------------------------------------------
(* The theorems *)

\* Every step of the cluster preserves the inductive invariant.
LEMMA NextInv == Inv /\ [Next]_vars => Inv'
<1> SUFFICES ASSUME Inv, [Next]_vars PROVE Inv'
  OBVIOUS
<1>1. ASSUME NEW s \in Server, Ticker(s) PROVE Inv'
  BY <1>1, TickerInv
<1>2. ASSUME NEW s \in Server, Restart(s) PROVE Inv'
  BY <1>2, RestartInv
<1>3. ASSUME NEW s \in Server,
             \/ GuardKick(s)
             \/ \E command \in Command : ClientStart(s, command)
             \/ \E index \in 1 .. MaxIndex : ServiceSnapshot(s, index)
      PROVE  Inv'
  BY <1>3, ServiceInv
<1>4. ASSUME NEW c \in asking, AskVote(c) PROVE Inv'
  BY <1>4, AskVoteInv
<1>5. ASSUME NEW c \in replicators, SingleAppend(c) PROVE Inv'
  BY <1>5, SingleAppendInv
<1>6. ASSUME NEW m \in requests,
             HandleRequestVote(m) \/ HandleAppendEntries(m) \/ HandleInstallSnapshot(m)
      PROVE  Inv'
  BY <1>6, HandleRequestVoteInv, HandleAppendEntriesInv, HandleInstallSnapshotInv
<1>7. ASSUME NEW m \in replies, CountVote(m) \/ AppendReturns(m) \/ InstallReturns(m)
      PROVE  Inv'
  BY <1>7, CountVoteInv, ReturnsInv
<1>8. ASSUME NEW m \in requests \cup replies, Lose(m) PROVE Inv'
  BY <1>8, LoseInv
<1>9. CASE UNCHANGED vars
  BY <1>9 DEF vars, Inv, Peers, Votes, VoteOnce, Kept, Requests, Replies, Goroutines, Counters
<1> QED BY <1>1, <1>2, <1>3, <1>4, <1>5, <1>6, <1>7, <1>8, <1>9 DEF Next

LEMMA InvAlways == Spec => []Inv
BY InitInv, NextInv, PTL DEF Spec

\* Types: every handler, reply path and crash leaves every peer with values of
\* their Go types, a log with its dummy entry, and snapshots as long as the
\* indices stored with them; messages carry what their receivers read.
THEOREM TypeCorrect == Spec => []TypeOK
<1>1. Inv => TypeOK
  BY InvMeaning
<1> QED BY <1>1, InvAlways, PTL

\* tryVotingFor and persist: no peer votes twice in a term, whatever is lost,
\* delayed or restarted, in a cluster of any size.
THEOREM VotesAreUnique == Spec => []VoteOnce
<1>1. Inv => VoteOnce
  BY InvMeaning
<1> QED BY <1>1, InvAlways, PTL

\* The inductive invariant behind it, persistence included: what a crash would
\* restore is always what the peer has in memory.
THEOREM ElectionInvariant == Spec => []ElectionInv
<1>1. Inv => ElectionInv
  BY InvMeaning
<1> QED BY <1>1, InvAlways, PTL

\* Two winners of a term need four peers: each has its own vote and one of
\* another peer, and no peer votes twice.
LEMMA TwoWinners ==
    ASSUME Inv, NEW c \in replicators, NEW d \in replicators, c.gen = d.gen, c.src # d.src
    PROVE  \E v, w \in Server :
               /\ c.src \in Server /\ d.src \in Server
               /\ v \notin {c.src, d.src} /\ w \notin {c.src, d.src} /\ v # w
<1>1. c.src \in Server /\ d.src \in Server
  BY DEF Inv, Goroutines, CallerType
<1>2. /\ <<c.src, c.gen, c.src>> \in ballots /\ <<d.src, c.gen, d.src>> \in ballots
  BY DEF Inv, Goroutines, Elected
<1>3. PICK v \in Server \ {c.src} : <<v, c.gen, c.src>> \in ballots
  BY DEF Inv, Goroutines, Elected
<1>4. PICK w \in Server \ {d.src} : <<w, c.gen, d.src>> \in ballots
  BY DEF Inv, Goroutines, Elected
<1>5. ASSUME NEW x, NEW y, NEW z, <<x, c.gen, y>> \in ballots, <<x, c.gen, z>> \in ballots
      PROVE  y = z
  BY <1>5 DEF Inv, Votes, VoteOnce
<1>6. v # d.src /\ w # c.src /\ v # w
  BY <1>2, <1>3, <1>4, <1>5
<1> QED BY <1>1, <1>3, <1>4, <1>6

LEMMA FourServers ==
    ASSUME NEW a \in Server, NEW b \in Server, NEW v \in Server, NEW w \in Server,
           a # b, v \notin {a, b}, w \notin {a, b}, v # w
    PROVE  Cardinality(Server) > 3
<1>1. IsFiniteSet(Server)
  BY ConstantsAssumption
<1>2. /\ IsFiniteSet({}) /\ Cardinality({}) = 0
  BY FS_EmptySet
<1>3. IsFiniteSet({a}) /\ Cardinality({a}) = 1
  BY FS_Singleton
<1>4. IsFiniteSet({a} \cup {b}) /\ Cardinality({a} \cup {b}) = 2
  BY <1>3, FS_AddElement
<1>5. IsFiniteSet(({a} \cup {b}) \cup {v}) /\ Cardinality(({a} \cup {b}) \cup {v}) = 3
  BY <1>4, FS_AddElement
<1>6. /\ IsFiniteSet((({a} \cup {b}) \cup {v}) \cup {w})
      /\ Cardinality((({a} \cup {b}) \cup {v}) \cup {w}) = 4
  BY <1>5, FS_AddElement
<1>7. (({a} \cup {b}) \cup {v}) \cup {w} \subseteq Server
  OBVIOUS
<1>8. Cardinality((({a} \cup {b}) \cup {v}) \cup {w}) <= Cardinality(Server)
  BY <1>1, <1>7, FS_Subset
<1>9. Cardinality(Server) \in Nat
  BY <1>1, FS_CardinalityType
<1> QED BY <1>6, <1>8, <1>9

\* At most one winner per term in clusters of up to three peers.  The bound is
\* needed: collectOpinion's counter may mix the votes of two terms, and with
\* five peers two of them can win the same term (run two_leaders).
THEOREM OneWinner == Cardinality(Server) <= 3 => (Spec => []ElectionSafety)
<1> SUFFICES ASSUME Cardinality(Server) <= 3 PROVE Spec => []ElectionSafety
  OBVIOUS
<1>1. Inv => ElectionSafety
  <2> SUFFICES ASSUME Inv, NEW c \in replicators, NEW d \in replicators, c.gen = d.gen,
                      c.src # d.src
               PROVE  FALSE
    BY DEF ElectionSafety
  <2>1. PICK v \in Server, w \in Server :
            /\ c.src \in Server /\ d.src \in Server
            /\ v \notin {c.src, d.src} /\ w \notin {c.src, d.src} /\ v # w
    BY TwoWinners
  <2>2. Cardinality(Server) > 3
    BY <2>1, FourServers
  <2>3. Cardinality(Server) \in Nat
    BY ConstantsAssumption, FS_CardinalityType
  <2> QED BY <2>2, <2>3
<1> QED BY <1>1, InvAlways, PTL
=============================================================================
