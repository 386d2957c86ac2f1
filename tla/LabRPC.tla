------------------------------- MODULE LabRPC -------------------------------
(***************************************************************************)
(* The simulated network of labrpc: Call hands a request to the network's  *)
(* goroutine, processReq looks up the end it came from, runs the handler   *)
(* in a goroutine of its own and waits for it, but gives up when the       *)
(* server was deleted or the end disabled, and looks once more before it   *)
(* replies.  The network is unreliable and reorders: it may drop a request *)
(* or a reply and delay a reply, which includes all it may do otherwise.   *)
(*                                                                         *)
(* A handler leaves its request in the Persister of the server instance it *)
(* runs in, which may be one that was deleted and still runs.              *)
(***************************************************************************)
EXTENDS Naturals

CONSTANTS
    Server,         \* names of servers
    Clerk,          \* names of clients that are no servers
    Request,        \* the calls that are made
    MaxGen          \* bound on the instances of each server

ASSUME NetworkAssumption ==
    Server # {} /\ Server \cap Clerk = {} /\ MaxGen \in Nat \ {0}

\* The instances of a server are numbered; 0 is none.
Gen == 1 .. MaxGen

\* An end belongs to an instance of a server, or to a clerk, and is connected to
\* a server once in its lifetime.
End(from, gen, to) == [from |-> from, gen |-> gen, to |-> to]

EndName == [from : Server, gen : Gen, to : Server] \cup [from : Clerk, gen : {0}, to : Server]

VARIABLES
    enabled,        \* the ends that are enabled
    servers,        \* servers[s]: the instance that the network knows, or 0
    serving,        \* whether the goroutine of MakeNetwork runs
    done,           \* whether Network.done is closed
    reqs,           \* reqs[r]: where Call(r) is
    disk            \* disk[s][g]: what the Persister of instance g of s contains

netVars == <<enabled, servers, serving, done, reqs, disk>>

NewReq == [at |-> "new", end |-> End(CHOOSE s \in Server : TRUE, 1, CHOOSE s \in Server : TRUE),
           server |-> 0, handler |-> "none"]

ReqType == [at : {"new", "calling", "sent", "read", "running", "replied", "delayed",
                  "unreachable", "ok", "failed"},
            end : EndName, server : Gen \cup {0}, handler : {"none", "running", "done"}]

move(r, from, to) ==
    /\ reqs[r].at = from
    /\ reqs' = [reqs EXCEPT ![r].at = to]

-----------------------------------------------------------------------------
(* ClientEnd.Call *)

Call(r, end) ==
    /\ reqs[r].at = "new"
    /\ reqs' = [reqs EXCEPT ![r].at = "calling", ![r].end = end]
    /\ UNCHANGED <<enabled, servers, serving, done, disk>>

\* The goroutine takes the request and starts processReq.
Accept(r) ==
    /\ serving
    /\ move(r, "calling", "sent")
    /\ UNCHANGED <<enabled, servers, serving, done, disk>>

\* The entire network has been destroyed.
CallAborts(r) ==
    /\ done
    /\ move(r, "calling", "failed")
    /\ UNCHANGED <<enabled, servers, serving, done, disk>>

\* The goroutine sees that done is closed.
StopServing ==
    /\ done /\ serving
    /\ serving' = FALSE
    /\ UNCHANGED <<enabled, servers, done, reqs, disk>>

-----------------------------------------------------------------------------
(* processReq *)

\* readEndnameInfo
ReadEndnameInfo(r) ==
    LET end == reqs[r].end IN
    /\ reqs[r].at = "sent"
    /\ IF end \in enabled /\ servers[end.to] # 0
       THEN reqs' = [reqs EXCEPT ![r].at = "read", ![r].server = servers[end.to]]
       ELSE reqs' = [reqs EXCEPT ![r].at = "unreachable"]
    /\ UNCHANGED <<enabled, servers, serving, done, disk>>

\* After up to 7 seconds.
Unreachable(r) ==
    /\ move(r, "unreachable", "failed")
    /\ UNCHANGED <<enabled, servers, serving, done, disk>>

DropRequest(r) ==
    /\ move(r, "read", "failed")
    /\ UNCHANGED <<enabled, servers, serving, done, disk>>

Dispatch(r) ==
    /\ reqs[r].at = "read"
    /\ reqs' = [reqs EXCEPT ![r].at = "running", ![r].handler = "running"]
    /\ UNCHANGED <<enabled, servers, serving, done, disk>>

\* Server.dispatch and Service.dispatch call the method, which saves the request
\* and returns.
Handle(r) ==
    LET s == reqs[r].end.to
        g == reqs[r].server
    IN
    /\ reqs[r].handler = "running"
    /\ disk' = [disk EXCEPT ![s][g] = @ \cup {r}]
    /\ reqs' = [reqs EXCEPT ![r].handler = "done"]
    /\ UNCHANGED <<enabled, servers, serving, done>>

\* Mutant of isServerDead: any instance of the server will do.
isServerDeadAny(r) ==
    LET end == reqs[r].end IN end \notin enabled \/ servers[end.to] = 0

isServerDead(r) ==
    LET end == reqs[r].end IN end \notin enabled \/ servers[end.to] # reqs[r].server

\* Mutant of PollDead: the server is looked up only once the handler returned.
PollDeadAfterHandler(r) ==
    /\ reqs[r].handler = "done" /\ isServerDead(r)
    /\ move(r, "running", "failed")
    /\ UNCHANGED <<enabled, servers, serving, done, disk>>

\* Every 100 ms, while the handler runs or has just returned.  The goroutine of
\* the handler goes on.
PollDead(r) ==
    /\ isServerDead(r)
    /\ move(r, "running", "failed")
    /\ UNCHANGED <<enabled, servers, serving, done, disk>>

TakeReply(r) ==
    /\ reqs[r].handler = "done"
    /\ move(r, "running", "replied")
    /\ UNCHANGED <<enabled, servers, serving, done, disk>>

\* The server is looked up again; then the reply is dropped, delayed or sent.
Reply(r) ==
    /\ \/ move(r, "replied", "failed")
       \/ ~isServerDead(r) /\ move(r, "replied", "delayed")
       \/ ~isServerDead(r) /\ move(r, "replied", "ok")
    /\ UNCHANGED <<enabled, servers, serving, done, disk>>

DelayedReply(r) ==
    /\ move(r, "delayed", "ok")
    /\ UNCHANGED <<enabled, servers, serving, done, disk>>

-----------------------------------------------------------------------------
\* What processReq and Call do by themselves.
NetworkStep(r) ==
    \/ Accept(r) \/ CallAborts(r) \/ ReadEndnameInfo(r) \/ Unreachable(r) \/ DropRequest(r)
    \/ Dispatch(r) \/ PollDead(r) \/ TakeReply(r) \/ Reply(r) \/ DelayedReply(r)

Network ==
    \/ \E r \in Request : NetworkStep(r) \/ Handle(r)
    \/ StopServing

Pending(r) == reqs[r].at \notin {"new", "ok", "failed"}
=============================================================================
