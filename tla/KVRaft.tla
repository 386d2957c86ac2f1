------------------------------- MODULE KVRaft -------------------------------
(***************************************************************************)
(* The key/value service of kvraft over Raft: clerks that number their     *)
(* calls and retry them at the next server, handlers that register a       *)
(* channel, call Start and wait to be notified, and at each server the     *)
(* goroutine guardApply, which applies what Raft hands over, filters       *)
(* duplicates, notifies the handler and asks for snapshots.                *)
(*                                                                         *)
(* Raft is the log of ReplicatedLog: what Start accepts may be chosen      *)
(* later, or never, and at each server guardKick takes the chosen entries  *)
(* in order and hands them over, while each snapshot of the leader is      *)
(* handed over by a goroutine of InstallSnapshot.  The code does not say   *)
(* which of them comes first.  SnapshotFirst is the assumption that a      *)
(* snapshot is handed over before guardKick takes the entries after it and *)
(* before another snapshot is installed; the service depends on it.        *)
(***************************************************************************)
EXTENDS Integers, Sequences, FiniteSets

CONSTANTS
    NServer,        \* len(servers): servers are 0 .. NServer - 1
    Client,         \* clientId of each clerk
    Key,
    Plans,          \* what may happen, with bounds: see plan
    SnapshotFirst,  \* whether nothing overtakes a snapshot of the leader
    None            \* no call, no channel

ASSUME KVAssumption ==
    /\ NServer \in Nat \ {0} /\ SnapshotFirst \in BOOLEAN
    /\ \A p \in Plans :
           /\ \A c \in Client : \A n \in DOMAIN p.calls[c] :
                  p.calls[c][n] \in [types : SUBSET {"Get", "Put", "Append"}, tries : Nat \ {0}]
           /\ p.snapshotAt \in SUBSET Nat /\ p.restarts \in Nat

Server == 0 .. NServer - 1

VARIABLES
    ck,             \* ck[c]: the struct Clerk, and the call it is in
    handlers,       \* the RPC handlers that run, and the replies on their way
    chanMap,        \* chanMap[s]: clientId@seqNum -> channel of a handler
    chosen,         \* the committed log
    proposed,       \* what Start has accepted and is not chosen
    rf,             \* rf[s]: what Raft at s has still to hand over
    persister,      \* persister[s]: the snapshot on disk
    kv,             \* kv[s]: lastSeq, kvMap and lastApplied
    snapshotting,   \* "go kv.rf.Snapshot(...)" calls that wait for rf.mu
    restarts,       \* number of crashes so far
    plan,           \* plan.calls[c]: the types of each call of c, and a bound on its RPCs
                    \* plan.snapshotAt: indices at which a log may be over maxraftstate
                    \* plan.restarts: bound on the number of crashes
    states          \* history: the states of the store, one after each write

vars == <<ck, handlers, chanMap, chosen, proposed, rf, persister, kv,
          snapshotting, restarts, plan, states>>

raftVars == <<chosen, proposed, rf, persister, states>>
serverVars == <<kv, snapshotting>>

-----------------------------------------------------------------------------
(* Types *)

OpType == {"Get", "Put", "Append"}

\* A value is the sequence of the appended pieces.  Each call writes a piece of
\* its own.
ValueType == Seq(Client \X Nat)

OpStruct == [Type : OpType, Key : Key, Value : ValueType, ClientId : Client, SeqNum : Nat]

\* What encodeSnapshot writes, and a snapshot on disk or on its way.
KVData == [kvMap : UNION {[D -> ValueType] : D \in SUBSET Key}, lastSeq : [Client -> Nat],
           lastApplied : Nat]
SnapType == [index : Nat, data : KVData \cup {None}]

\* helpKeys and channels.
HelpKey == Client \X Nat
ChanType == Client \X Nat \X Nat

\* nil is not an operation, a snapshot, a channel or a pending call.
ASSUME NoneAssumption ==
    /\ None \notin OpStruct /\ None \notin KVData /\ None \notin SnapType /\ None \notin ChanType
    /\ None \notin [op : OpStruct, since : Nat, done : BOOLEAN]

Op(type, key, c, n) ==
    [Type |-> type, Key |-> key, Value |-> IF type = "Get" THEN <<>> ELSE << <<c, n>> >>,
     ClientId |-> c, SeqNum |-> n]

\* Mutant of helpKey: one channel for each client.
helpKeyOfClient(op) == <<op.ClientId, 0>>

helpKey(op) == <<op.ClientId, op.SeqNum>>

\* The nth RPC of a call, at server s, handled there.
Handler(op, nth, s) ==
    [op |-> op, nth |-> nth, srv |-> s, at |-> "arriving", waitChan |-> FALSE,
     reply |-> [Err |-> "none", Value |-> <<>>]]

\* A channel is made by each handler for itself.
Chan(h) == <<h.op.ClientId, h.op.SeqNum, h.nth>>

MakeClerk == [seqNum |-> 1, leader |-> 0, op |-> None, nth |-> 0, since |-> 0, answer |-> <<>>]

EmptyMap == [k \in {} |-> <<>>]

\* Raft at a server, as far as applyCh goes: guardKick has taken the entries up to
\* took and sent those up to sent; installing are the snapshots whose goroutines
\* have not sent them yet.
NewRaft(index) == [lastApplied |-> index, took |-> index, sent |-> index, installing |-> {}]

NewServer == [kvMap |-> EmptyMap, lastSeq |-> [c \in Client |-> 0], lastApplied |-> 0]

-----------------------------------------------------------------------------
(* The store that the clerks see *)

IsChosen(op) == \E i \in DOMAIN chosen : chosen[i] = op

PendingCall ==
    [c \in Client |-> IF ck[c].op = None THEN None
                      ELSE [op |-> ck[c].op, since |-> ck[c].since, done |-> IsChosen(ck[c].op)]]

Store == INSTANCE LinearizableStore
         WITH call <- PendingCall, answer <- [c \in Client |-> ck[c].answer]

-----------------------------------------------------------------------------
(* The state machine *)

isDuplicate(k, op) == op.SeqNum <= k.lastSeq[op.ClientId]

valueOf(k, key) == IF key \in DOMAIN k.kvMap THEN k.kvMap[key] ELSE <<>>

setValue(k, key, value) ==
    [x \in DOMAIN k.kvMap \cup {key} |-> IF x = key THEN value ELSE k.kvMap[x]]

\* The body of guardApply for a command.
applyOp(k, op, index) ==
    IF isDuplicate(k, op)
    THEN [k EXCEPT !.lastApplied = index]
    ELSE [lastSeq |-> [k.lastSeq EXCEPT ![op.ClientId] = op.SeqNum],
          kvMap |-> CASE op.Type = "Put"    -> setValue(k, op.Key, op.Value)
                      [] op.Type = "Append" -> setValue(k, op.Key, valueOf(k, op.Key) \o op.Value)
                      [] op.Type = "Get"    -> k.kvMap,
          lastApplied |-> index]

\* Mutant of encodeSnapshot: the duplicate table is left out.
encodeSnapshotMapOnly(k) == [k EXCEPT !.lastSeq = [c \in Client |-> 0]]

encodeSnapshot(k) == [kvMap |-> k.kvMap, lastSeq |-> k.lastSeq, lastApplied |-> k.lastApplied]

decodeSnapshot(k, data) ==
    IF data = None THEN k
    ELSE [k EXCEPT !.kvMap = data.kvMap, !.lastSeq = data.lastSeq, !.lastApplied = data.lastApplied]

StartKVServer(snap) == decodeSnapshot(NewServer, snap.data)

-----------------------------------------------------------------------------
(* Clerks *)

Begin(c, op) ==
    /\ ck[c].op = None
    /\ ck[c].seqNum <= Len(plan.calls[c]) /\ op.Type \in plan.calls[c][ck[c].seqNum].types
    /\ ck' = [ck EXCEPT ![c].op = op, ![c].nth = 1, ![c].since = Len(states)]
    /\ handlers' = handlers \cup {Handler(op, 1, ck[c].leader)}
    /\ UNCHANGED <<chanMap, raftVars, serverVars, restarts>>

\* The handler of the RPC that c waits for.
IsCurrent(h) ==
    LET k == ck[h.op.ClientId] IN h.op = k.op /\ h.nth = k.nth

\* On to the next server, with the same seqNum.
tryNext(c, rest) ==
    LET next == (ck[c].leader + 1) % NServer IN
    /\ ck[c].nth < plan.calls[c][ck[c].seqNum].tries
    /\ ck' = [ck EXCEPT ![c].leader = next, ![c].nth = @ + 1]
    /\ handlers' = rest \cup {Handler(ck[c].op, ck[c].nth + 1, next)}

\* Call returns false: the request or the reply was lost, the server was deleted
\* or the clerk's end disabled.  In the last two cases the handler goes on.
CallFails(c) ==
    LET mine == {h \in handlers : h.op.ClientId = c /\ IsCurrent(h)}
        replies == {h \in mine : h.at = "done"}
    IN
    /\ ck[c].op # None
    /\ \E lost \in SUBSET {h \in mine : h.at = "arriving"} :
           tryNext(c, handlers \ (replies \cup lost))
    /\ UNCHANGED <<chanMap, raftVars, serverVars, restarts>>

WrongLeader(h) ==
    /\ h.at = "done" /\ h.reply.Err = "ErrWrongLeader"
    /\ tryNext(h.op.ClientId, handlers \ {h})
    /\ UNCHANGED <<chanMap, raftVars, serverVars, restarts>>

\* A Get returns "" for ErrNoKey.
CallReturns(h) ==
    LET c == h.op.ClientId IN
    /\ h.at = "done" /\ h.reply.Err \in {"OK", "ErrNoKey"}
    /\ ck' = [ck EXCEPT ![c].seqNum = @ + 1, ![c].op = None, ![c].nth = 0, ![c].since = 0,
                        ![c].answer = h.reply.Value]
    /\ handlers' = handlers \ {h}
    /\ UNCHANGED <<chanMap, raftVars, serverVars, restarts>>

-----------------------------------------------------------------------------
(* The handlers Get and PutAppend *)

moveTo(h, at) == handlers' = (handlers \ {h}) \cup {[h EXCEPT !.at = at]}

Register(h) ==
    /\ h.at = "arriving"
    /\ chanMap' = [chanMap EXCEPT ![h.srv] =
            [k \in DOMAIN @ \cup {helpKey(h.op)} |-> IF k = helpKey(h.op) THEN Chan(h) ELSE @[k]]]
    /\ moveTo(h, "registered")
    /\ UNCHANGED <<ck, raftVars, serverVars, restarts>>

\* The handler returns.  The deferred function deletes the entry of this key,
\* whichever handler it belongs to.  A reply nobody waits for is dropped.
return(h, err, value) ==
    /\ chanMap' = [chanMap EXCEPT ![h.srv] =
            [k \in DOMAIN @ \ {helpKey(h.op)} |-> @[k]]]
    /\ LET reply == [h EXCEPT !.at = "done", !.reply = [Err |-> err, Value |-> value]]
       IN handlers' = (handlers \ {h}) \cup IF IsCurrent(h) THEN {reply} ELSE {}

\* Start: the leader appends the operation to its log.
StartAccepted(h) ==
    /\ h.at = "registered"
    /\ proposed' = proposed \cup {[op |-> h.op, nth |-> h.nth]}
    /\ moveTo(h, "waiting")
    /\ UNCHANGED <<ck, chanMap, chosen, rf, persister, states, serverVars, restarts>>

StartRefused(h) ==
    /\ h.at = "registered"
    /\ return(h, "ErrWrongLeader", <<>>)
    /\ UNCHANGED <<ck, raftVars, serverVars, restarts>>

\* Mutant of Notified: Get answers as soon as Start has accepted it.
NotifiedAtOnce(h) ==
    /\ h.at = "waiting"
    /\ IF h.op.Type = "Get" /\ h.op.Key \notin DOMAIN kv[h.srv].kvMap
       THEN return(h, "ErrNoKey", <<>>)
       ELSE return(h, "OK", IF h.op.Type = "Get" THEN valueOf(kv[h.srv], h.op.Key) ELSE <<>>)
    /\ UNCHANGED <<ck, raftVars, serverVars, restarts>>

\* The handler takes the token; a Get then reads the map as it is by now.
Notified(h) ==
    /\ h.at = "waiting" /\ h.waitChan
    /\ IF h.op.Type = "Get" /\ h.op.Key \notin DOMAIN kv[h.srv].kvMap
       THEN return(h, "ErrNoKey", <<>>)
       ELSE return(h, "OK", IF h.op.Type = "Get" THEN valueOf(kv[h.srv], h.op.Key) ELSE <<>>)
    /\ UNCHANGED <<ck, raftVars, serverVars, restarts>>

\* 500 ms have passed; the select may also find the token there and still take
\* this branch.
TimedOut(h) ==
    /\ h.at = "waiting"
    /\ return(h, "ErrWrongLeader", <<>>)
    /\ UNCHANGED <<ck, raftVars, serverVars, restarts>>

-----------------------------------------------------------------------------
(* Raft, as the service sees it *)

\* Where a call is chosen first, its operation takes effect on the store.
Choose(p) ==
    /\ chosen' = Append(chosen, p.op)
    /\ states' = IF IsChosen(p.op) THEN states ELSE Append(states, Store!Write(Store!Current, p.op))
    /\ proposed' = proposed \ {p}
    /\ UNCHANGED <<ck, handlers, chanMap, rf, persister, serverVars, restarts>>

\* InstallSnapshot: s gets the snapshot of t and saves it.  If it goes beyond what
\* guardKick has taken, a goroutine hands it over.
Install(s, t) ==
    LET snap == persister[t] IN
    /\ snap.index > persister[s].index
    /\ persister' = [persister EXCEPT ![s] = snap]
    /\ \/ snap.index <= rf[s].lastApplied /\ UNCHANGED rf
       \/ /\ snap.index > rf[s].lastApplied
          /\ SnapshotFirst => rf[s].installing = {}
          /\ rf' = [rf EXCEPT ![s].lastApplied = snap.index, ![s].installing = @ \cup {snap}]
    /\ UNCHANGED <<ck, handlers, chanMap, chosen, proposed, serverVars, restarts, states>>

\* guardKick takes the entries up to commit, the commitIndex of s.
GuardTakes(s, commit) ==
    /\ rf[s].sent = rf[s].took
    /\ commit > rf[s].lastApplied
    /\ SnapshotFirst => rf[s].installing = {}
    /\ rf' = [rf EXCEPT ![s].sent = rf[s].lastApplied, ![s].took = commit, ![s].lastApplied = commit]
    /\ UNCHANGED <<ck, handlers, chanMap, chosen, proposed, persister, states, serverVars, restarts>>

\* Snapshot drops what is older than the snapshot on disk.
Snapshot(s, snap) ==
    /\ snapshotting' = [snapshotting EXCEPT ![s] = @ \ {snap}]
    /\ persister' = IF snap.index > persister[s].index
                    THEN [persister EXCEPT ![s] = snap] ELSE persister
    /\ UNCHANGED <<ck, handlers, chanMap, chosen, proposed, rf, kv, restarts, states>>

-----------------------------------------------------------------------------
(* guardApply *)

ApplySnapshot(s, snap) ==
    /\ rf' = [rf EXCEPT ![s].installing = @ \ {snap}]
    /\ kv' = [kv EXCEPT ![s] = [decodeSnapshot(@, snap.data) EXCEPT !.lastApplied = snap.index]]
    /\ UNCHANGED <<ck, handlers, chanMap, chosen, proposed, persister, states, snapshotting, restarts>>

\* The command is applied and the channel looked up under kv.mu.  The token is
\* sent after the unlock, unless the channel has one, but only the handler sees
\* it, and may take it or time out at any later moment.  If the command was no
\* duplicate, the log may then be over maxraftstate; nobody else changes kv
\* meanwhile.
ApplyCommand(s) ==
    LET i == rf[s].sent + 1
        op == chosen[i]
        snap == [index |-> i, data |-> encodeSnapshot(kv'[s])]
        waiting == IF helpKey(op) \in DOMAIN chanMap[s] THEN chanMap[s][helpKey(op)] ELSE None
    IN
    /\ rf[s].sent < rf[s].took
    /\ rf' = [rf EXCEPT ![s].sent = i]
    /\ kv' = [kv EXCEPT ![s] = applyOp(@, op, i)]
    /\ handlers' = {IF h.srv = s /\ Chan(h) = waiting /\ h.at # "done"
                    THEN [h EXCEPT !.waitChan = TRUE] ELSE h : h \in handlers}
    /\ \/ UNCHANGED snapshotting
       \/ /\ ~isDuplicate(kv[s], op) /\ i \in plan.snapshotAt
          /\ snapshotting' = [snapshotting EXCEPT ![s] = @ \cup {snap}]
    /\ UNCHANGED <<ck, chanMap, chosen, proposed, persister, states, restarts>>

\* ShutdownServer and StartServer: handlers, channels and goroutines are gone.
Restart(s) ==
    LET snap == persister[s] IN
    /\ restarts < plan.restarts
    /\ restarts' = restarts + 1
    /\ handlers' = {h \in handlers : h.srv # s \/ h.at = "done"}
    /\ chanMap' = [chanMap EXCEPT ![s] = EmptyMap]
    /\ rf' = [rf EXCEPT ![s] = NewRaft(snap.index)]
    /\ kv' = [kv EXCEPT ![s] = StartKVServer(snap)]
    /\ snapshotting' = [snapshotting EXCEPT ![s] = {}]
    /\ UNCHANGED <<ck, chosen, proposed, persister, states>>

-----------------------------------------------------------------------------
Init ==
    /\ ck = [c \in Client |-> MakeClerk]
    /\ handlers = {} /\ chanMap = [s \in Server |-> EmptyMap]
    /\ chosen = <<>> /\ proposed = {} /\ states = <<Store!EmptyStore>>
    /\ rf = [s \in Server |-> NewRaft(0)]
    /\ persister = [s \in Server |-> [index |-> 0, data |-> None]]
    /\ kv = [s \in Server |-> NewServer]
    /\ snapshotting = [s \in Server |-> {}]
    /\ restarts = 0 /\ plan \in Plans

Next ==
    /\ \/ \E c \in Client :
              \/ \E type \in OpType, key \in Key : Begin(c, Op(type, key, c, ck[c].seqNum))
              \/ CallFails(c)
       \/ \E h \in handlers :
              \/ Register(h) \/ StartAccepted(h) \/ StartRefused(h) \/ Notified(h) \/ TimedOut(h)
              \/ WrongLeader(h) \/ CallReturns(h)
       \/ \E p \in proposed : Choose(p)
       \/ \E s \in Server :
              \/ \E t \in Server : Install(s, t)
              \/ \E commit \in DOMAIN chosen : GuardTakes(s, commit)
              \/ \E snap \in snapshotting[s] : Snapshot(s, snap)
              \/ \E snap \in rf[s].installing : ApplySnapshot(s, snap)
              \/ ApplyCommand(s) \/ Restart(s)
    /\ UNCHANGED plan

Spec == Init /\ [][Next]_vars

-----------------------------------------------------------------------------
(* Refinement *)

\* Clerk.Get, Clerk.Put and Clerk.Append are linearizable and each write takes
\* effect once, whatever is lost, retried, timed out, chosen twice or restarted, if
\* SnapshotFirst holds.  As InstallSnapshot is, it need not, and then a clerk may
\* miss its own write ("history is not linearizable", test_test.go).
Linearizable == Store!Spec

\* kvMap and lastSeq are those of the first p entries of the log.
StateOfPrefix(k, p) ==
    /\ \A key \in Key : valueOf(k, key) = states[Cardinality({helpKey(chosen[i]) : i \in 1 .. p}) + 1][key]
    /\ \A c \in Client : \A n \in 1 .. ck[c].seqNum :
           n <= k.lastSeq[c] <=> \E i \in 1 .. p : helpKey(chosen[i]) = <<c, n>>

\* guardApply and decodeSnapshot: kvMap and lastSeq of a server are those of one
\* prefix of the log, at least as long as lastApplied says, also when entries
\* that a snapshot covers come after it and take lastApplied back.  It is
\* SnapshotFirst that keeps entries which the snapshot does not cover behind it.
ServerIsPrefix ==
    \A s \in Server : \E p \in kv[s].lastApplied .. Len(chosen) : StateOfPrefix(kv[s], p)

\* The handler's deferred delete takes away whatever channel is registered for
\* its call, and may leave a later RPC of that call waiting in vain.  The first
\* RPC of a call that a server gets is safe: if guardApply applies the call while
\* the clerk waits and the handler has a channel, the token gets to this channel.
NotifiedWhenApplied ==
    [][\A h \in handlers :
           LET s == h.srv IN
           (/\ h.at \in {"registered", "waiting"} /\ h.nth <= NServer /\ IsCurrent(h)
            /\ kv'[s].lastApplied # kv[s].lastApplied
            /\ rf'[s].installing = rf[s].installing /\ restarts' = restarts
            /\ chosen[kv'[s].lastApplied] = h.op)
           => \E g \in handlers' : Chan(g) = Chan(h) /\ g.waitChan]_vars
=============================================================================
