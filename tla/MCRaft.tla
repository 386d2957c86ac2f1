------------------------------- MODULE MCRaft -------------------------------
(* Instances of Raft for TLC. *)
EXTENDS RaftLog, TLC

\* A cluster that starts for the first time.
NewDisks == {[s \in Server |-> EmptyPersister]}

AnyCommand == CHOOSE c \in Command : TRUE

\* A persister without snapshot whose log holds entries of the given terms.
Disk(term, vote, terms) ==
    [currentTerm |-> term, votedFor |-> vote, snapIndex |-> 0, snapshot |-> <<>>,
     log |-> <<[Term |-> -1, Command |-> None]>> \o
             [i \in DOMAIN terms |-> [Term |-> terms[i], Command |-> AnyCommand]]]

\* The whole cluster restarts after two leaders failed to replicate: a led
\* term 1 and logged two entries, of which the first reached everybody, then b
\* led term 2 with the vote of the third peer and logged one; a has heard of
\* term 2 and voted for nobody in it.  Between these logs each branch of
\* stepBack is taken: a follower's log is too short, ends with a term that the
\* leader has not, or with a term that the leader has earlier in its log.
Diverged(a, b) ==
    [s \in Server |-> CASE s = a -> Disk(2, None, <<1, 1>>)
                        [] s = b -> Disk(2, b, <<1, 2>>)
                        [] OTHER -> Disk(2, b, <<1>>)]

\* The peers that are a and b; one choice stands for all.
Pair == CHOOSE p \in Server \X Server : p[1] # p[2]

DivergedDisks == {Diverged(Pair[1], Pair[2])}

\* Before the restart a or b had timed out once more, unheard by the others.  It
\* comes second if both are to lead, so the two cases are the two orders.
TimedOutDisks ==
    {[disks EXCEPT ![s].currentTerm = 3, ![s].votedFor = s] :
        disks \in DivergedDisks, s \in {Pair[1], Pair[2]}}

\* a led term 1, all voted for it, and its entry got to one peer and not to b
\* when the whole cluster restarts.
LaggingDisks == {[s \in Server |-> Disk(1, Pair[1], IF s = Pair[2] THEN <<>> ELSE <<1>>)]}

DivergedOrLaggingDisks == DivergedDisks \cup LaggingDisks

\* maxraftstate = -1: the service takes no snapshots.
NoSnapshots == -1

Symmetry == Permutations(Server)
=============================================================================
