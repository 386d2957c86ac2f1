------------------------------ MODULE KVConfig ------------------------------
(***************************************************************************)
(* The harness of the kvraft tests over LabRPC: it starts servers, shuts   *)
(* them down while their handlers go on, gives the next instance the       *)
(* Persister of the one before, and connects, partitions and disconnects   *)
(* servers and clerks by enabling and disabling ends.                      *)
(*                                                                         *)
(* The operations come one after the other, as in the tests, and the       *)
(* servers are connected or partitioned only while all of them run.        *)
(***************************************************************************)
EXTENDS LabRPC, FiniteSets

CONSTANTS
    ClerkTo,        \* the servers that the tests ever connect clerks to
    MaxRestarts     \* bound on the number of restarts of all servers together

ASSUME ConfigAssumption == ClerkTo \subseteq Server /\ MaxRestarts \in Nat

VARIABLES
    cfg,            \* which operation is under way, and for which server
    gen,            \* gen[s]: the instance whose ends are endnames[s]
    saved           \* saved[s]: the Persister of an instance, or a copy

vars == <<netVars, cfg, gen, saved>>

cfgVars == <<cfg, gen, saved>>

Ready == [at |-> "ready"]

At(at, s) == [at |-> at, server |-> s]

\* saved[s] is the object that instance g writes to, or a copy of its own.
Shared(g) == [gen |-> g, copy |-> {}]
Copy(content) == [gen |-> 0, copy |-> content]

content(s) == IF saved[s].gen # 0 THEN disk[s][saved[s].gen] ELSE saved[s].copy

Restarts == Cardinality({e \in Server \X Gen : 1 < e[2] /\ e[2] <= gen[e[1]]})

\* The order of the tests, not a check of config.go: GenericTest waits for the
\* partitioner before it shuts servers down, and connects all of them after it has
\* restarted all of them; the other tests partition and shut nothing down.
\* ConnectAll and partition themselves would enable ends of a server that is down.
AllUp == \A s \in Server : servers[s] # 0

-----------------------------------------------------------------------------
(* Connections *)

\* Mutant of links: the incoming ends are left alone.
linksOutgoing(s, to) == {End(s, gen[s], t) : t \in to}

\* The outgoing and the incoming ends between s and the servers in to.
links(s, to) == {End(s, gen[s], t) : t \in to} \cup {End(t, gen[t], s) : t \in to}

linksBetween(p1, p2) == UNION {links(s, p2) : s \in p1}

ConnectAll ==
    /\ cfg = Ready /\ AllUp
    /\ enabled' = enabled \cup linksBetween(Server, Server)
    /\ UNCHANGED <<servers, serving, done, reqs, disk, cfgVars>>

\* For each server of p1, disconnect it from p2 and connect it to p1; then the
\* same for p2.
partition(p1, p2) ==
    /\ cfg = Ready /\ AllUp
    /\ LET first == (enabled \ linksBetween(p1, p2)) \cup linksBetween(p1, p1)
       IN enabled' = (first \ linksBetween(p2, p1)) \cup linksBetween(p2, p2)
    /\ UNCHANGED <<servers, serving, done, reqs, disk, cfgVars>>

ConnectClient(c, to) ==
    /\ cfg = Ready
    /\ enabled' = enabled \cup {End(c, 0, s) : s \in to}
    /\ UNCHANGED <<servers, serving, done, reqs, disk, cfgVars>>

DisconnectClient(c, from) ==
    /\ cfg = Ready
    /\ enabled' = enabled \ {End(c, 0, s) : s \in from}
    /\ UNCHANGED <<servers, serving, done, reqs, disk, cfgVars>>

-----------------------------------------------------------------------------
(* ShutdownServer and StartServer *)

\* disconnectUnlocked(i, cfg.All())
ShutdownServer(s) ==
    /\ cfg = Ready /\ servers[s] # 0
    /\ enabled' = enabled \ links(s, Server)
    /\ cfg' = At("disconnected", s)
    /\ UNCHANGED <<servers, serving, done, reqs, disk, gen, saved>>

DeleteServer(s) ==
    /\ cfg = At("disconnected", s)
    /\ servers' = [servers EXCEPT ![s] = 0]
    /\ cfg' = At("deleted", s)
    /\ UNCHANGED <<enabled, serving, done, reqs, disk, gen, saved>>

\* A fresh Persister, as the old instance may go on writing to the old one.
CopyPersister(s) ==
    /\ cfg = At("deleted", s)
    /\ saved' = [saved EXCEPT ![s] = Copy(content(s))]
    /\ cfg' = Ready
    /\ UNCHANGED <<netVars, gen>>

\* A fresh set of ends, a fresh copy of the Persister, and a new instance.
StartServer(s) ==
    /\ cfg = Ready /\ servers[s] = 0 /\ gen[s] < MaxGen /\ Restarts < MaxRestarts
    /\ gen' = [gen EXCEPT ![s] = @ + 1]
    /\ disk' = [disk EXCEPT ![s][gen[s] + 1] = content(s)]
    /\ saved' = [saved EXCEPT ![s] = Shared(gen[s] + 1)]
    /\ cfg' = At("started", s)
    /\ UNCHANGED <<enabled, servers, serving, done, reqs>>

AddServer(s) ==
    /\ cfg = At("started", s)
    /\ servers' = [servers EXCEPT ![s] = gen[s]]
    /\ cfg' = Ready
    /\ UNCHANGED <<enabled, serving, done, reqs, disk, gen, saved>>

\* Kill stops nothing that this model shows; the network is closed.
cleanup ==
    /\ cfg = Ready
    /\ cfg' = [at |-> "finished"]
    /\ done' = TRUE
    /\ UNCHANGED <<enabled, servers, serving, reqs, disk, gen, saved>>

-----------------------------------------------------------------------------
\* make_config starts all servers and connects them; makeClient enables the ends
\* of a clerk to some servers.
Init ==
    /\ gen = [s \in Server |-> 1]
    /\ servers = [s \in Server |-> 1]
    /\ saved = [s \in Server |-> Shared(1)]
    /\ disk = [s \in Server |-> [g \in Gen |-> {}]]
    /\ \E to \in [Clerk -> SUBSET ClerkTo] :
           enabled = {End(s, 1, t) : s, t \in Server}
                        \cup UNION {{End(c, 0, s) : s \in to[c]} : c \in Clerk}
    /\ serving = TRUE /\ done = FALSE
    /\ reqs = [r \in Request |-> NewReq]
    /\ cfg = Ready

\* An instance that was shut down may go on calling.
Calls ==
    \E r \in Request, end \in EndName :
        /\ end.from \in Server => end.gen <= gen[end.from]
        /\ Call(r, end) /\ UNCHANGED cfgVars

Config ==
    \/ ConnectAll
    \/ \E p \in SUBSET Server : partition(p, Server \ p)
    \/ \E c \in Clerk, to \in SUBSET ClerkTo : ConnectClient(c, to) \/ DisconnectClient(c, to)
    \/ \E s \in Server :
           \/ ShutdownServer(s) \/ DeleteServer(s) \/ CopyPersister(s)
           \/ StartServer(s) \/ AddServer(s)
    \/ cleanup

Next == Calls \/ (Network /\ UNCHANGED cfgVars) \/ Config

Spec == Init /\ [][Next]_vars

\* The goroutines of the network run.  Handlers may hang.
FairSpec ==
    /\ Spec
    /\ \A r \in Request : WF_vars(NetworkStep(r) /\ UNCHANGED cfgVars)
    /\ WF_vars(StopServing /\ UNCHANGED cfgVars)

-----------------------------------------------------------------------------
TypeOK ==
    /\ enabled \subseteq EndName
    /\ servers \in [Server -> Gen \cup {0}]
    /\ serving \in BOOLEAN /\ done \in BOOLEAN
    /\ reqs \in [Request -> ReqType]
    /\ disk \in [Server -> [Gen -> SUBSET Request]]
    /\ gen \in [Server -> Gen]
    /\ saved \in [Server -> [gen : Gen \cup {0}, copy : SUBSET Request]]

\* processReq: "needed to avoid situation in which a client gets a positive reply
\* to an Append, but the server persisted the update into the old Persister":
\* what was answered is in the Persister that the next instance starts from,
\* however shutdowns, restarts and late replies interleave.
PositiveReplyIsDurable ==
    \A r \in Request : reqs[r].at = "ok" => r \in content(reqs[r].end.to)

\* partition, ConnectAll, ShutdownServer and StartServer: only ends of the latest
\* instances are enabled ("so that old crashed instance's ClientEnds can't
\* send"), links have both directions, and servers that reach each other
\* reach the same servers.
PartitionIsClean ==
    LET linked(s, t) == End(s, gen[s], t) \in enabled IN
    /\ \A end \in enabled : end.from \in Server => end.gen = gen[end.from]
    /\ \A s, t \in Server : linked(s, t) => linked(t, s)
    /\ \A s, t, u \in Server : linked(s, t) /\ linked(t, u) => linked(s, u)

\* "Call() is guaranteed to return (perhaps after a delay) *except* if the handler
\* function on the server side does not return", and also then if the server
\* was deleted or the end disabled.
CallReturns ==
    \A r \in Request :
        Pending(r) ~> (~Pending(r) \/ (reqs[r].handler = "running" /\ ~isServerDead(r)))
=============================================================================
