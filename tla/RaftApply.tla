----------------------------- MODULE RaftApply -----------------------------
(***************************************************************************)
(* How a follower hands committed entries to its service: the handlers     *)
(* raise commitIndex and kick wakeCh, guardKick wakes up, takes a batch    *)
(* under rf.mu and sends it to applyCh after releasing the lock,           *)
(* InstallSnapshot sends its snapshot from a goroutine of its own, and the *)
(* service calls Snapshot from yet another one.  The peer is the record of *)
(* RaftServer; the leader is the environment: it replicates Chosen, and    *)
(* its messages may be late, so any part of Chosen may arrive at any time. *)
(*                                                                         *)
(* The service is the key/value server, or one of the two readers of the   *)
(* Raft tests, which compare what they get with what they got before.  The *)
(* tests cannot really kill a server: after a restart, what the old        *)
(* instance still has to send goes to its reader, which has the same books *)
(* as the new one.                                                         *)
(***************************************************************************)
EXTENDS RaftServer

CONSTANTS
    Self,           \* the peer
    Chosen,         \* the log that the leader replicates, from index 1 on
    LeaderTerm,     \* its term
    MaxInstalls,    \* bound on the number of snapshots the leader sends
    MaxRestarts,    \* bound on the number of crashes
    MaxRaftState,   \* log entries that make the service snapshot; -1: never
    Readers,        \* who may read applyCh: "kvraft", "applier", "applierSnap"
    SnapShotInterval

ASSUME ApplyAssumption ==
    /\ Self \in Server
    /\ Chosen \in Seq(Entry)
    /\ LeaderTerm \in Nat /\ \A i \in DOMAIN Chosen : Chosen[i].Term <= LeaderTerm
    /\ MaxInstalls \in Nat /\ MaxRestarts \in Nat /\ MaxRaftState \in Int
    /\ Readers \subseteq {"kvraft", "applier", "applierSnap"} /\ SnapShotInterval \in Nat \ {0}

VARIABLES
    rf,             \* the struct Raft
    wakeCh,         \* whether the channel of capacity 1 holds a token
    guard,          \* guardKick: where it is and what it still has to send
    installing,     \* goroutines of InstallSnapshot that wait for applyCh
    reader,         \* who reads applyCh
    service,        \* the loop that reads applyCh, and the state it maintains
    snapshotting,   \* "go kv.rf.Snapshot(...)" calls that wait for rf.mu
    killed,         \* what killed instances still have to send to their readers
    installs,       \* number of snapshots sent so far
    restarts        \* number of crashes so far

vars == <<rf, wakeCh, guard, installing, reader, service, snapshotting, killed, installs, restarts>>

\* What only a restart or a message from the leader changes.
counters == <<reader, killed, installs, restarts>>

Prefix(i) == SubSeq(Chosen, 1, i)

\* guardKick waits for wakeCh, or has been woken and is about to take a batch,
\* or is sending the batch.
Waiting == [at |-> "waiting", batch |-> <<>>]
Woken == [at |-> "woken", batch |-> <<>>]
Sending(batch) == IF batch = <<>> THEN Waiting ELSE [at |-> "sending", batch |-> batch]

\* The service waits for applyCh, or has applied a command and is about to take a
\* snapshot, if it is time to, or has reported an error and ended the test.  Its
\* state is the sequence of entries it has applied: cfg.logs[i] of the tests.
Receiving(last, state) == [at |-> "receiving", index |-> 0, lastApplied |-> last, state |-> state]
Checking(last, state) == [at |-> "checking", index |-> last, lastApplied |-> last, state |-> state]
Failed == [at |-> "failed", index |-> 0, lastApplied |-> 0, state |-> <<>>]

\* The entry is sent whole.
ApplyMsg(index, entry) == [CommandIndex |-> index, Command |-> entry]

timeToSnapshot(index) == (index + 1) % SnapShotInterval = 0

-----------------------------------------------------------------------------
(* The leader's messages *)

\* Any stretch of the log, with any commitIndex the leader can have had when it
\* sent it.
LeaderArgs(prev, last, commit) ==
    [Term |-> LeaderTerm, LeaderId |-> Self,
     PrevLogIndex |-> prev, PrevLogTerm |-> IF prev = 0 THEN -1 ELSE Chosen[prev].Term,
     Entries |-> SubSeq(Chosen, prev + 1, last), LeaderCommit |-> commit]

\* Mutant of kicks: the kick of tryUpdateCommit is missing.
kicksWhenAppended(old, new, args) ==
    /\ args.PrevLogIndex < logLength(old)
    /\ old.snapIndex - args.PrevLogIndex < Len(args.Entries)

\* AppendEntries calls bEffortKick in batchAppend, whenever it reconciles, and
\* in tryUpdateCommit, when it has raised commitIndex above lastApplied.
kicks(old, new, args) ==
    \/ /\ args.PrevLogIndex < logLength(old)
       /\ old.snapIndex - args.PrevLogIndex < Len(args.Entries)
    \/ new.commitIndex > old.commitIndex /\ new.commitIndex > new.lastApplied

\* A token that finds the channel full is dropped.
bEffortKick(kick) == wakeCh' = (wakeCh \/ kick)

AppendArrives(args) ==
    /\ args.LeaderCommit <= args.PrevLogIndex + Len(args.Entries)
    /\ rf' = AppendEntries(rf, args).rf
    /\ bEffortKick(kicks(rf, rf', args))
    /\ UNCHANGED <<guard, installing, service, snapshotting, counters>>

\* The snapshot is sent to applyCh by a goroutine of its own.  The leader's service
\* is like this one: with applier there are no snapshots.
InstallArrives(last) ==
    LET args == [Term |-> LeaderTerm, LeaderId |-> Self, LastIncludedIndex |-> last,
                 LastIncludedTerm |-> Chosen[last].Term, Data |-> Prefix(last)]
    IN
    /\ installs < MaxInstalls /\ reader # "applier"
    /\ reader = "applierSnap" => timeToSnapshot(last)
    /\ installs' = installs + 1
    /\ rf' = InstallSnapshot(rf, args).rf
    /\ installing' = IF last > rf.snapIndex /\ last > rf.lastApplied
                     THEN installing \cup {last} ELSE installing
    /\ UNCHANGED <<wakeCh, guard, reader, service, snapshotting, killed, restarts>>

-----------------------------------------------------------------------------
(* guardKick *)

GuardWakes ==
    /\ guard = Waiting /\ wakeCh
    /\ wakeCh' = FALSE
    /\ guard' = Woken
    /\ UNCHANGED <<rf, installing, service, snapshotting, counters>>

\* The entries to send: what the snapshot covers is skipped.
batchOf(r) ==
    LET first == Max({r.lastApplied, r.snapIndex}) + 1 IN
    [j \in 1 .. r.commitIndex + 1 - first |->
        ApplyMsg(first + j - 1, get(r, first + j - 1))]

GuardTakesBatch ==
    /\ guard = Woken
    /\ guard' = Sending(IF rf.lastApplied < rf.commitIndex THEN batchOf(rf) ELSE <<>>)
    /\ rf' = takeBatch(rf)
    /\ UNCHANGED <<wakeCh, installing, service, snapshotting, counters>>

-----------------------------------------------------------------------------
(* What the service does with a message *)

\* checkLogs: a server has committed something else, or the entry before is missing.
checkLogs(logs, m) ==
    \/ m.Command # Chosen[m.CommandIndex]
    \/ m.CommandIndex \in DOMAIN logs /\ logs[m.CommandIndex] # m.Command
    \/ m.CommandIndex > 1 /\ m.CommandIndex - 1 \notin DOMAIN logs

record(logs, m) ==
    [i \in DOMAIN logs \cup {m.CommandIndex} |-> IF i = m.CommandIndex THEN m.Command ELSE logs[i]]

\* An error ends the test (log.Fatalf).  applier does not touch lastApplied.
applier(srv, m) ==
    IF checkLogs(srv.state, m) THEN Failed ELSE [srv EXCEPT !.state = record(@, m)]

applierSnap(srv, m) ==
    IF m.CommandIndex # srv.lastApplied + 1 \/ checkLogs(srv.state, m) THEN Failed
    ELSE [srv EXCEPT !.state = record(@, m), !.lastApplied = m.CommandIndex]

\* guardApply of the key/value server, and ingestSnap of the tests.
ingestSnap(srv, last, snapshot) == [srv EXCEPT !.lastApplied = last, !.state = snapshot]

serve(m) ==
    CASE reader = "kvraft"      -> Checking(m.CommandIndex, Append(service.state, m.Command))
      [] reader = "applier"     -> applier(service, m)
      [] reader = "applierSnap" -> LET srv == applierSnap(service, m) IN
                                   IF srv = Failed THEN srv ELSE Checking(srv.lastApplied, srv.state)

-----------------------------------------------------------------------------
(* applyCh is unbuffered: a send happens when the service receives *)

\* Mutant of Apply: a token that came in while guardKick was sending is thrown
\* away.
ApplyThenDrain ==
    /\ guard.at = "sending" /\ service.at = "receiving"
    /\ guard' = Sending(Tail(guard.batch))
    /\ wakeCh' = (wakeCh /\ Tail(guard.batch) # <<>>)
    /\ service' = serve(Head(guard.batch))
    /\ UNCHANGED <<rf, installing, snapshotting, counters>>

\* guardKick sends, the service applies the command.
Apply ==
    /\ guard.at = "sending" /\ service.at = "receiving"
    /\ guard' = Sending(Tail(guard.batch))
    /\ service' = serve(Head(guard.batch))
    /\ UNCHANGED <<rf, wakeCh, installing, snapshotting, counters>>

\* A goroutine of InstallSnapshot sends, the service replaces its state.
ApplySnapshot(last) ==
    /\ service.at = "receiving"
    /\ installing' = installing \ {last}
    /\ service' = ingestSnap(service, last, Prefix(last))
    /\ UNCHANGED <<rf, wakeCh, guard, snapshotting, counters>>

-----------------------------------------------------------------------------
(* Snapshots taken by the service, and crashes *)

\* Mutant of ServiceChecks: the index is the one Raft has reached.
ServiceChecksRaft ==
    /\ service.at = "checking" /\ reader = "kvraft"
    /\ service' = Receiving(service.lastApplied, service.state)
    /\ snapshotting' =
            IF MaxRaftState >= 0 /\ Len(rf.persister.log) - 1 > MaxRaftState
            THEN snapshotting \cup {[index |-> rf.lastApplied, data |-> service.state]}
            ELSE snapshotting
    /\ UNCHANGED <<rf, wakeCh, guard, installing, counters>>

\* After a command, the key/value server looks at the size of the persisted log.
ServiceChecks ==
    /\ service.at = "checking" /\ reader = "kvraft"
    /\ service' = Receiving(service.lastApplied, service.state)
    /\ snapshotting' =
            IF MaxRaftState >= 0 /\ Len(rf.persister.log) - 1 > MaxRaftState
            THEN snapshotting \cup {[index |-> service.lastApplied, data |-> service.state]}
            ELSE snapshotting
    /\ UNCHANGED <<rf, wakeCh, guard, installing, counters>>

SnapshotCalled(c) ==
    /\ snapshotting' = snapshotting \ {c}
    /\ rf' = Snapshot(rf, c.index, c.data)
    /\ UNCHANGED <<wakeCh, guard, installing, service, counters>>

\* applierSnap calls Snapshot itself, at every SnapShotInterval-th command, while
\* guardKick and InstallSnapshot may be waiting to send.
ReaderSnapshots ==
    LET xlog == [j \in 1 .. service.index |->
                    IF j \in DOMAIN service.state THEN service.state[j] ELSE None]
    IN
    /\ service.at = "checking" /\ reader = "applierSnap"
    /\ rf' = IF timeToSnapshot(service.index) THEN Snapshot(rf, service.index, xlog) ELSE rf
    /\ service' = [service EXCEPT !.at = "receiving", !.index = 0]
    /\ UNCHANGED <<wakeCh, guard, installing, snapshotting, counters>>

\* What the instance still sends when it is killed: guardKick looks at no flag.
unsent == guard.batch \o (IF (wakeCh \/ guard = Woken) /\ rf.lastApplied < rf.commitIndex
                          THEN batchOf(rf) ELSE <<>>)

\* Mutant of start1: the books are cleared.
start1Clears(ps) == Receiving(ps.snapIndex, ps.snapshot)

\* The books of the tests: lastApplied starts again, the logs stay, unless there is
\* a snapshot to start from.
start1(ps) ==
    IF ps.snapshot = <<>> THEN Receiving(0, service.state)
    ELSE ingestSnap(Receiving(0, <<>>), ps.snapIndex, ps.snapshot)

\* Kill, then Make and a new service, which loads the snapshot.
Restart ==
    /\ restarts < MaxRestarts /\ service.at # "failed"
    /\ restarts' = restarts + 1
    /\ rf' = Make(Self, rf.persister)
    /\ wakeCh' = FALSE /\ guard' = Waiting
    /\ installing' = {} /\ snapshotting' = {}
    /\ service' = IF reader = "kvraft" THEN Receiving(rf.persister.snapIndex, rf.persister.snapshot)
                  ELSE start1(rf.persister)
    /\ killed' = IF reader = "kvraft" THEN killed
                 ELSE killed \cup {[instance |-> restarts, batch |-> unsent, installing |-> installing]}
    /\ UNCHANGED <<reader, installs>>

\* The old guardKick sends, and the old reader writes to the common books.
OldApplies(o) ==
    LET m == Head(o.batch) IN
    /\ o.batch # <<>> /\ service.at # "failed"
    /\ service' = IF reader = "applier" THEN applier(service, m) ELSE applierSnap(service, m)
    /\ killed' = (killed \ {o}) \cup {[o EXCEPT !.batch = Tail(@)]}
    /\ UNCHANGED <<rf, wakeCh, guard, installing, reader, snapshotting, installs, restarts>>

OldAppliesSnapshot(o, last) ==
    /\ service.at # "failed"
    /\ service' = ingestSnap(service, last, Prefix(last))
    /\ killed' = (killed \ {o}) \cup {[o EXCEPT !.installing = @ \ {last}]}
    /\ UNCHANGED <<rf, wakeCh, guard, installing, reader, snapshotting, installs, restarts>>

-----------------------------------------------------------------------------
Init ==
    /\ rf = Make(Self, EmptyPersister)
    /\ wakeCh = FALSE /\ guard = Waiting
    /\ installing = {} /\ snapshotting = {}
    /\ reader \in Readers /\ service = Receiving(0, <<>>) /\ killed = {}
    /\ installs = 0 /\ restarts = 0

Next ==
    \/ \E last, commit \in 0 .. Len(Chosen) : \E prev \in 0 .. last :
           AppendArrives(LeaderArgs(prev, last, commit))
    \/ \E last \in DOMAIN Chosen : InstallArrives(last)
    \/ GuardWakes \/ GuardTakesBatch \/ Apply
    \/ \E last \in installing : ApplySnapshot(last)
    \/ ServiceChecks \/ ReaderSnapshots
    \/ \E c \in snapshotting : SnapshotCalled(c)
    \/ Restart
    \/ \E o \in killed : OldApplies(o)
    \/ \E o \in killed : \E last \in o.installing : OldAppliesSnapshot(o, last)

Spec == Init /\ [][Next]_vars

\* guardKick, the goroutines of InstallSnapshot and the loop of the service run
\* whenever they can.
FairSpec ==
    /\ Spec
    /\ WF_vars(GuardWakes \/ GuardTakesBatch) /\ WF_vars(Apply)
    /\ WF_vars(\E last \in installing : ApplySnapshot(last))
    /\ WF_vars(ServiceChecks \/ ReaderSnapshots)

-----------------------------------------------------------------------------
\* guardKick alone keeps the order, across crashes: as long as the leader sends
\* no snapshot, nothing overtakes, and what is sent next to the key/value server
\* is what it expects.
EntriesInOrder ==
    (reader = "kvraft" /\ installs = 0 /\ guard.at = "sending") =>
        Head(guard.batch).CommandIndex = service.lastApplied + 1

\* start1 and applier: "to isolate previous instance of this server. since we cannot
\* really kill it": without snapshots a test never fails because an old instance
\* goes on while its successor starts from the first entry again; and with
\* snapshots it does not fail before a restart or a snapshot of the leader.
NoFalseAlarm ==
    service.at = "failed" => reader = "applierSnap" /\ (installs > 0 \/ restarts > 0)

\* encodeSnapshot and Snapshot: as long as the leader sends no snapshot, the one
\* on disk holds exactly the entries up to the index stored with it, however
\* late the call of the service comes.
SnapshotSound ==
    installs = 0 => rf.persister.snapshot = Prefix(rf.persister.snapIndex)

\* bEffortKick drops a token when wakeCh is full, and the kicks come from
\* several places: as long as something is left to hand over, guardKick has a
\* token to wake up for or is about to look.
NoLostWakeup == rf.lastApplied < rf.commitIndex => wakeCh \/ guard = Woken

\* What is committed reaches the service, unless a crash takes commitIndex back,
\* the leader sends a snapshot or the test has failed; also when the service calls
\* Snapshot itself while guardKick waits for it.
CommittedIsApplied ==
    \A i \in DOMAIN Chosen :
        rf.commitIndex >= i ~> (\/ Len(service.state) >= i \/ rf.commitIndex < i
                                \/ installs > 0 \/ service.at = "failed")
=============================================================================
