--------------------------- MODULE KVConfigProofs ---------------------------
(***************************************************************************)
(* A positive reply is durable, and partitions are clean, for any number   *)
(* of servers, clerks, requests and restarts.                              *)
(***************************************************************************)
EXTENDS KVConfig, TLAPS

\* The types that the argument needs.
Typed ==
    /\ servers \in [Server -> Gen \cup {0}]
    /\ reqs \in [Request -> ReqType]
    /\ disk \in [Server -> [Gen -> SUBSET Request]]
    /\ gen \in [Server -> Gen]
    /\ saved \in [Server -> [gen : Gen \cup {0}, copy : SUBSET Request]]

\* The network knows an instance only while the harness shares its Persister.
ServersShared ==
    \A s \in Server :
        /\ servers[s] # 0 => saved[s].gen = servers[s]
        /\ servers[s] <= gen[s] /\ saved[s].gen <= gen[s]
        /\ cfg = At("deleted", s) => servers[s] = 0
        /\ cfg = At("started", s) => saved[s].gen = gen[s]

\* A request goes to an instance that was started, and only once it was looked up.
Bound(q) ==
    /\ q.server <= gen[q.end.to]
    /\ q.at \in {"new", "calling", "sent", "unreachable"} => q.server = 0 /\ q.handler = "none"
    /\ q.at \in {"read", "running", "replied"} => q.server # 0
    /\ q.handler # "none" => q.server # 0

\* What a handler did is on the disk of its instance; what was answered, or is
\* about to be, is in the Persister that the harness has.
SavedBy(q, r) ==
    /\ q.handler = "done" => r \in disk[q.end.to][q.server]
    /\ q.at = "replied" => q.handler = "done"
    /\ q.at \in {"delayed", "ok"} => r \in content(q.end.to)

IInv ==
    /\ Typed
    /\ ServersShared
    /\ \A r \in Request : Bound(reqs[r]) /\ SavedBy(reqs[r], r)

-----------------------------------------------------------------------------
\* IInv holds when make_config has started all servers.
LEMMA InitIInv == Init => IInv
<1> SUFFICES ASSUME Init PROVE IInv
  OBVIOUS
<1>1. 1 \in Gen /\ 1 \in Nat
  BY NetworkAssumption DEF Gen
<1>2. (CHOOSE s \in Server : TRUE) \in Server
  BY NetworkAssumption
<1>3. NewReq \in ReqType /\ NewReq.end.to \in Server
  BY <1>1, <1>2 DEF NewReq, ReqType, EndName, End
<1>4. Typed
  BY <1>1, <1>3 DEF Init, Typed, Shared
<1>5. ServersShared
  <2>1. cfg.at = "ready"
    BY DEF Init, Ready
  <2>2. \A s \in Server : cfg # At("deleted", s) /\ cfg # At("started", s)
    BY <2>1 DEF At
  <2>3. ASSUME NEW s \in Server
        PROVE  servers[s] = 1 /\ gen[s] = 1 /\ saved[s].gen = 1
    BY DEF Init, Shared
  <2>4. ASSUME NEW s \in Server
        PROVE  servers[s] <= gen[s] /\ saved[s].gen <= gen[s] /\ saved[s].gen = servers[s]
    BY <2>3
  <2> QED BY <2>2, <2>4, Zenon DEF ServersShared
<1>6. ASSUME NEW r \in Request PROVE Bound(reqs[r]) /\ SavedBy(reqs[r], r)
  <2>1. reqs[r] = NewReq
    BY DEF Init
  <2>2. gen[NewReq.end.to] = 1
    BY <1>3 DEF Init
  <2>3. /\ NewReq.server = 0
        /\ NewReq.handler = "none"
        /\ NewReq.at = "new"
    BY DEF NewReq
  <2> QED BY <2>1, <2>2, <2>3 DEF Bound, SavedBy
<1> QED BY <1>4, <1>5, <1>6 DEF IInv

\* A step that replaces what is known of one request keeps IInv, if the new record
\* does.
LEMMA RequestStep ==
    ASSUME IInv, NEW r \in Request, NEW q \in ReqType, Bound(q), SavedBy(q, r),
           reqs' = [reqs EXCEPT ![r] = q],
           UNCHANGED <<servers, disk, gen, saved, cfg>>
    PROVE  IInv'
<1>1. Typed'
  BY DEF IInv, Typed
<1>2. ServersShared'
  BY DEF IInv, ServersShared
<1>3. ASSUME NEW x \in Request PROVE (Bound(reqs[x]) /\ SavedBy(reqs[x], x))'
  <2>1. reqs'[x] = IF x = r THEN q ELSE reqs[x]
    BY DEF IInv, Typed
  <2>2. Bound(reqs'[x]) /\ SavedBy(reqs'[x], x)
    BY <2>1 DEF IInv
  <2> QED BY <2>2 DEF Bound, SavedBy, content
<1> QED BY <1>1, <1>2, <1>3 DEF IInv


\* So does one that leaves requests, Persisters and instances alone.
LEMMA ConnectionStep ==
    ASSUME IInv, UNCHANGED <<servers, reqs, disk, gen, saved>>,
           cfg' = cfg \/ cfg'.at \notin {"deleted", "started"}
    PROVE  IInv'
<1>1. Typed'
  BY DEF IInv, Typed
<1>2. ServersShared'
  <2>1. \A s \in Server : cfg' \in {At("deleted", s), At("started", s)} => cfg' = cfg
    BY DEF At
  <2> QED BY <2>1 DEF IInv, ServersShared
<1>3. ASSUME NEW x \in Request PROVE (Bound(reqs[x]) /\ SavedBy(reqs[x], x))'
  <2>1. Bound(reqs[x]) /\ SavedBy(reqs[x], x)
    BY DEF IInv
  <2> QED BY <2>1 DEF Bound, SavedBy, content
<1> QED BY <1>1, <1>2, <1>3 DEF IInv

-----------------------------------------------------------------------------
(* The network *)

\* The record of a request after move.
Moved(r, to) == [reqs[r] EXCEPT !.at = to]

\* A request that moves without its handler keeps IInv, if it may be where it goes.
LEMMA MoveStep ==
    ASSUME IInv, NEW r \in Request, NEW from, NEW to, move(r, from, to),
           to \in {"sent", "unreachable", "running", "replied", "delayed", "ok", "failed"},
           to = "sent" => from = "calling",
           to = "unreachable" => from = "sent",
           to = "replied" => from = "running" /\ reqs[r].handler = "done",
           to # "running",
           to \in {"delayed", "ok"} => r \in content(reqs[r].end.to),
           UNCHANGED <<servers, disk, gen, saved, cfg>>
    PROVE  IInv'
<1> DEFINE q == Moved(r, to)
<1>1. reqs[r] \in ReqType /\ Bound(reqs[r]) /\ SavedBy(reqs[r], r)
  BY DEF IInv, Typed
<1>2. q \in ReqType
  BY <1>1 DEF ReqType, Moved
<1>3. /\ q.at = to /\ q.end = reqs[r].end
      /\ q.server = reqs[r].server /\ q.handler = reqs[r].handler
  BY <1>1 DEF ReqType, Moved
<1>4. reqs' = [reqs EXCEPT ![r] = q] /\ reqs[r].at = from
  BY DEF move, Moved
<1> HIDE DEF q
<1>5. Bound(q)
  BY <1>1, <1>3, <1>4 DEF Bound
<1>6. SavedBy(q, r)
  BY <1>1, <1>3, <1>4 DEF SavedBy
<1> QED BY <1>2, <1>4, <1>5, <1>6, RequestStep

\* Each step of processReq and Call keeps IInv.
LEMMA NetworkStepIInv ==
    ASSUME IInv, NEW r \in Request, NetworkStep(r), UNCHANGED cfgVars
    PROVE  IInv'
<1> USE DEF cfgVars
<1>0. reqs[r] \in ReqType /\ Bound(reqs[r]) /\ SavedBy(reqs[r], r)
  BY DEF IInv, Typed
<1>1. CASE Accept(r)
  BY <1>1, MoveStep DEF Accept
<1>2. CASE CallAborts(r)
  BY <1>2, MoveStep DEF CallAborts
<1>3. CASE ReadEndnameInfo(r)
  <2> DEFINE end == reqs[r].end
             q == [reqs[r] EXCEPT !.at = "read", !.server = servers[end.to]]
  <2>1. CASE end \in enabled /\ servers[end.to] # 0
    <3>1. end.to \in Server /\ servers[end.to] \in Gen \cup {0}
      BY <1>0 DEF ReqType, EndName, IInv, Typed
    <3>2. q \in ReqType
      BY <1>0, <3>1 DEF ReqType
    <3>3. /\ q.at = "read" /\ q.end = end
          /\ q.server = servers[end.to] /\ q.handler = reqs[r].handler
      BY <1>0 DEF ReqType
    <3>4. reqs' = [reqs EXCEPT ![r] = q] /\ reqs[r].at = "sent"
      BY <1>3, <2>1 DEF ReadEndnameInfo
    <3>5. servers[end.to] <= gen[end.to]
      BY <3>1 DEF IInv, ServersShared
    <3> HIDE DEF q
    <3>6. Bound(q)
      BY <1>0, <2>1, <3>3, <3>4, <3>5 DEF Bound
    <3>7. SavedBy(q, r)
      BY <1>0, <3>3, <3>4 DEF Bound, SavedBy
    <3> QED BY <1>3, <3>2, <3>4, <3>6, <3>7, RequestStep DEF ReadEndnameInfo
  <2>2. CASE ~(end \in enabled /\ servers[end.to] # 0)
    BY <1>3, <2>2, MoveStep DEF ReadEndnameInfo, move
  <2> QED BY <2>1, <2>2
<1>4. CASE Unreachable(r)
  BY <1>4, MoveStep DEF Unreachable
<1>5. CASE DropRequest(r)
  BY <1>5, MoveStep DEF DropRequest
<1>6. CASE Dispatch(r)
  <2> DEFINE q == [reqs[r] EXCEPT !.at = "running", !.handler = "running"]
  <2>1. q \in ReqType
    BY <1>0 DEF ReqType
  <2>2. /\ q.at = "running" /\ q.end = reqs[r].end
        /\ q.server = reqs[r].server /\ q.handler = "running"
    BY <1>0 DEF ReqType
  <2>3. reqs' = [reqs EXCEPT ![r] = q] /\ reqs[r].at = "read"
    BY <1>6 DEF Dispatch
  <2> HIDE DEF q
  <2>4. Bound(q) /\ SavedBy(q, r)
    BY <1>0, <2>2, <2>3 DEF Bound, SavedBy
  <2> QED BY <1>6, <2>1, <2>3, <2>4, RequestStep DEF Dispatch
<1>7. CASE PollDead(r)
  BY <1>7, MoveStep DEF PollDead
<1>8. CASE TakeReply(r)
  BY <1>8, MoveStep DEF TakeReply
<1>9. CASE Reply(r)
  <2>1. CASE move(r, "replied", "failed")
    BY <1>9, <2>1, MoveStep DEF Reply
  <2>2. ASSUME ~isServerDead(r), reqs[r].at = "replied" PROVE r \in content(reqs[r].end.to)
    <3> DEFINE s == reqs[r].end.to
               g == reqs[r].server
    <3>1. s \in Server /\ g # 0 /\ servers[s] = g
      BY <1>0, <2>2 DEF ReqType, EndName, Bound, isServerDead
    <3>2. saved[s].gen = g
      BY <3>1 DEF IInv, ServersShared
    <3>3. r \in disk[s][g]
      BY <1>0, <2>2 DEF SavedBy
    <3> QED BY <3>1, <3>2, <3>3 DEF content
  <2>3. CASE ~isServerDead(r) /\ move(r, "replied", "delayed")
    <3>1. r \in content(reqs[r].end.to)
      BY <2>2, <2>3 DEF move
    <3> QED BY <1>9, <2>3, <3>1, MoveStep DEF Reply
  <2>4. CASE ~isServerDead(r) /\ move(r, "replied", "ok")
    <3>1. r \in content(reqs[r].end.to)
      BY <2>2, <2>4 DEF move
    <3> QED BY <1>9, <2>4, <3>1, MoveStep DEF Reply
  <2> QED BY <1>9, <2>1, <2>3, <2>4 DEF Reply
<1>10. CASE DelayedReply(r)
  <2>1. move(r, "delayed", "ok") /\ UNCHANGED <<servers, disk, gen, saved, cfg>>
    BY <1>10 DEF DelayedReply
  <2>2. r \in content(reqs[r].end.to)
    BY <1>0, <2>1 DEF move, SavedBy
  <2> QED BY <2>1, <2>2, MoveStep
<1> QED BY <1>1, <1>2, <1>3, <1>4, <1>5, <1>6, <1>7, <1>8, <1>9, <1>10 DEF NetworkStep

\* Handlers write to the Persister of their own instance; what the harness has of
\* it grows or stays.
LEMMA HandleIInv ==
    ASSUME IInv, NEW r \in Request, Handle(r), UNCHANGED cfgVars
    PROVE  IInv'
<1> DEFINE s == reqs[r].end.to
           g == reqs[r].server
           q == [reqs[r] EXCEPT !.handler = "done"]
           d == [disk[s] EXCEPT ![g] = @ \cup {r}]
<1> USE DEF cfgVars
<1>1. reqs[r] \in ReqType /\ Bound(reqs[r]) /\ SavedBy(reqs[r], r) /\ Typed
  BY DEF IInv, Typed
<1>2. s \in Server /\ g \in Gen
  BY <1>1 DEF ReqType, EndName, Bound, Handle
<1>3. /\ reqs[r].handler = "running"
      /\ disk' = [disk EXCEPT ![s] = d]
      /\ reqs' = [reqs EXCEPT ![r] = q]
      /\ UNCHANGED <<servers, gen, saved, cfg>>
  <2>1. disk' = [disk EXCEPT ![s] = d]
    BY Zenon DEF Handle
  <2>2. reqs' = [reqs EXCEPT ![r] = q]
    BY DEF Handle
  <2> QED BY <2>1, <2>2 DEF Handle
<1>4. q \in ReqType
  BY <1>1 DEF ReqType
<1>5. /\ q.at = reqs[r].at /\ q.end = reqs[r].end
      /\ q.server = reqs[r].server /\ q.handler = "done"
  BY <1>1 DEF ReqType
<1>6. /\ d \in [Gen -> SUBSET Request]
      /\ r \in d[g]
      /\ \A h \in Gen : disk[s][h] \subseteq d[h]
  BY <1>1, <1>2 DEF Typed
<1> HIDE DEF q, d
<1>7. ASSUME NEW t \in Server, NEW h \in Gen
      PROVE  disk[t][h] \subseteq disk'[t][h]
  BY <1>1, <1>2, <1>3, <1>6 DEF Typed
<1>8. r \in disk'[s][g]
  BY <1>1, <1>2, <1>3, <1>6 DEF Typed
<1>9. ASSUME NEW t \in Server
      PROVE  content(t) \subseteq IF saved'[t].gen # 0 THEN disk'[t][saved'[t].gen]
                                 ELSE saved'[t].copy
  <2>1. saved[t].gen \in Gen \cup {0}
    BY <1>1 DEF Typed
  <2> QED BY <1>3, <1>7, <2>1 DEF content
<1>10. Typed'
  BY <1>1, <1>2, <1>3, <1>4, <1>6 DEF Typed
<1>11. ServersShared'
  BY <1>3 DEF IInv, ServersShared
<1>12. ASSUME NEW x \in Request PROVE (Bound(reqs[x]) /\ SavedBy(reqs[x], x))'
  <2>1. /\ reqs[x] \in ReqType /\ reqs[x].end.to \in Server
        /\ Bound(reqs[x]) /\ SavedBy(reqs[x], x)
    BY <1>1 DEF IInv, Typed, ReqType, EndName
  <2>2. reqs'[x] = IF x = r THEN q ELSE reqs[x]
    BY <1>1, <1>3 DEF Typed
  <2>3. Bound(reqs'[x])
    BY <1>1, <1>5, <2>1, <2>2, <1>3 DEF Bound
  <2>4. (Bound(reqs[x]))'
    BY <1>3, <2>3 DEF Bound
  <2>5. CASE x = r
    BY <1>1, <1>2, <1>5, <1>8, <1>9, <2>2, <2>4, <2>5 DEF SavedBy, content
  <2>6. CASE x # r
    <3>1. reqs[x].handler = "done" => reqs[x].server \in Gen
      BY <2>1 DEF Bound, ReqType
    <3>2. reqs[x].handler = "done" => x \in disk'[reqs[x].end.to][reqs[x].server]
      BY <1>7, <2>1, <3>1 DEF SavedBy
    <3> QED BY <1>9, <2>1, <2>2, <2>4, <2>6, <3>2 DEF SavedBy, content
  <2> QED BY <2>5, <2>6
<1> QED BY <1>10, <1>11, <1>12 DEF IInv

-----------------------------------------------------------------------------
(* The harness *)

\* A call starts before its request is looked up.
LEMMA CallsIInv == ASSUME IInv, Calls PROVE IInv'
<1>1. PICK r \in Request, end \in EndName : Call(r, end) /\ UNCHANGED cfgVars
  BY DEF Calls
<1> DEFINE q == [reqs[r] EXCEPT !.at = "calling", !.end = end]
<1>2. reqs[r] \in ReqType /\ Bound(reqs[r]) /\ SavedBy(reqs[r], r)
  BY DEF IInv, Typed
<1>3. q \in ReqType
  BY <1>2 DEF ReqType
<1>4. /\ q.at = "calling" /\ q.end = end
      /\ q.server = reqs[r].server /\ q.handler = reqs[r].handler
  BY <1>2 DEF ReqType
<1>5. /\ reqs' = [reqs EXCEPT ![r] = q] /\ reqs[r].at = "new"
      /\ UNCHANGED <<servers, disk, gen, saved, cfg>>
  BY <1>1 DEF Call, cfgVars
<1>6. gen[end.to] \in Nat
  BY NetworkAssumption DEF IInv, Typed, Gen, EndName
<1> HIDE DEF q
<1>7. Bound(q) /\ SavedBy(q, r)
  BY <1>2, <1>4, <1>5, <1>6 DEF Bound, SavedBy
<1> QED BY <1>3, <1>5, <1>7, RequestStep

\* The network forgets an instance.
LEMMA DeleteServerIInv == ASSUME IInv, NEW s \in Server, DeleteServer(s) PROVE IInv'
<1>1. /\ servers' = [servers EXCEPT ![s] = 0] /\ cfg' = At("deleted", s)
      /\ UNCHANGED <<reqs, disk, gen, saved>>
  BY DEF DeleteServer
<1>2. Typed'
  BY <1>1 DEF IInv, Typed
<1>3. ASSUME NEW t \in Server
      PROVE  /\ servers'[t] \in {0, servers[t]} /\ gen[t] \in Nat
             /\ t = s => servers'[t] = 0
  BY <1>1, NetworkAssumption DEF IInv, Typed, Gen
<1>4. cfg'.at = "deleted" /\ cfg'.server = s
  BY <1>1 DEF At
<1>5. ASSUME NEW t \in Server
      PROVE  (cfg' = At("deleted", t) => t = s) /\ cfg' # At("started", t)
  BY <1>4 DEF At
<1>6. ServersShared'
  BY <1>1, <1>3, <1>5 DEF IInv, ServersShared
<1>7. ASSUME NEW x \in Request PROVE (Bound(reqs[x]) /\ SavedBy(reqs[x], x))'
  <2>1. Bound(reqs[x]) /\ SavedBy(reqs[x], x)
    BY DEF IInv
  <2> QED BY <1>1, <2>1 DEF Bound, SavedBy, content
<1> QED BY <1>2, <1>6, <1>7 DEF IInv

\* The harness keeps a copy of the Persister of an instance that is deleted.
LEMMA CopyPersisterIInv == ASSUME IInv, NEW s \in Server, CopyPersister(s) PROVE IInv'
<1>1. /\ saved' = [saved EXCEPT ![s] = Copy(content(s))] /\ cfg' = Ready
      /\ cfg = At("deleted", s)
      /\ UNCHANGED <<servers, reqs, disk, gen>>
  BY DEF CopyPersister, netVars
<1>2. content(s) \in SUBSET Request
  <2>1. saved[s] \in [gen : Gen \cup {0}, copy : SUBSET Request]
    BY DEF IInv, Typed
  <2> QED BY <2>1 DEF IInv, Typed, content
<1>3. saved'[s].gen = 0 /\ saved'[s].copy = content(s)
  BY <1>1 DEF Copy, IInv, Typed
<1>4. Typed'
  <2>1. Copy(content(s)) \in [gen : Gen \cup {0}, copy : SUBSET Request]
    BY <1>2 DEF Copy
  <2> QED BY <1>1, <2>1 DEF IInv, Typed
<1>5. cfg'.at = "ready"
  BY <1>1 DEF Ready
<1>6. ASSUME NEW t \in Server PROVE cfg' # At("deleted", t) /\ cfg' # At("started", t)
  BY <1>5 DEF At
<1>7. servers[s] = 0 /\ gen[s] \in Nat
  BY <1>1, NetworkAssumption DEF IInv, ServersShared, Typed, Gen
<1>8. \A t \in Server : t # s => saved'[t] = saved[t]
  BY <1>1 DEF IInv, Typed
<1>9. ServersShared'
  BY <1>1, <1>3, <1>6, <1>7, <1>8 DEF IInv, ServersShared
<1>10. ASSUME NEW x \in Request PROVE (Bound(reqs[x]) /\ SavedBy(reqs[x], x))'
  <2>1. Bound(reqs[x]) /\ SavedBy(reqs[x], x) /\ reqs[x].end.to \in Server
    BY DEF IInv, Typed, ReqType, EndName
  <2> QED BY <1>1, <1>3, <1>8, <2>1 DEF Bound, SavedBy, content
<1> QED BY <1>4, <1>9, <1>10 DEF IInv

\* A new instance starts from a copy of what the harness has, on a disk that no
\* handler has written to.
LEMMA StartServerIInv == ASSUME IInv, NEW s \in Server, StartServer(s) PROVE IInv'
<1> DEFINE g == gen[s] + 1
           d == [disk[s] EXCEPT ![g] = content(s)]
<1>1. /\ gen' = [gen EXCEPT ![s] = g] /\ disk' = [disk EXCEPT ![s] = d]
      /\ saved' = [saved EXCEPT ![s] = Shared(g)] /\ cfg' = At("started", s)
      /\ UNCHANGED <<servers, reqs>> /\ servers[s] = 0 /\ gen[s] < MaxGen
  BY DEF StartServer
<1>2. Typed /\ \A t \in Server : gen[t] \in Nat /\ saved[t].gen \in Nat
  BY NetworkAssumption DEF IInv, Typed, Gen
<1>3. g \in Gen /\ g \in Nat /\ g # 0
  BY <1>1, <1>2, NetworkAssumption DEF Gen
<1>4. content(s) \in SUBSET Request
  <2>1. saved[s] \in [gen : Gen \cup {0}, copy : SUBSET Request]
    BY <1>2 DEF Typed
  <2> QED BY <1>2, <2>1 DEF Typed, content
<1>5. /\ d \in [Gen -> SUBSET Request] /\ d[g] = content(s)
      /\ \A h \in Gen : h # g => d[h] = disk[s][h]
  BY <1>2, <1>3, <1>4 DEF Typed
<1>6. saved'[s].gen = g /\ \A t \in Server : t # s => saved'[t] = saved[t]
  BY <1>1, <1>2 DEF Shared, Typed
<1> HIDE DEF d, g
<1>7. gen'[s] = g /\ \A t \in Server : t # s => gen'[t] = gen[t]
  BY <1>1, <1>2 DEF Typed
<1>8. disk'[s] = d /\ \A t \in Server : t # s => disk'[t] = disk[t]
  BY <1>1, <1>2 DEF Typed
<1>9. \A t \in Server : gen[t] <= gen'[t] /\ gen[s] < g
  BY <1>2, <1>7 DEF g
<1>10. Typed'
  <2>1. Shared(g) \in [gen : Gen \cup {0}, copy : SUBSET Request]
    BY <1>3 DEF Shared
  <2> QED BY <1>1, <1>2, <1>3, <1>5, <2>1 DEF Typed
<1>11. ServersShared'
  <2>1. cfg'.at = "started" /\ cfg'.server = s
    BY <1>1 DEF At
  <2>2. ASSUME NEW t \in Server
        PROVE  cfg' # At("deleted", t) /\ (cfg' = At("started", t) => t = s)
    BY <2>1 DEF At
  <2> QED BY <1>1, <1>2, <1>3, <1>6, <1>7, <2>2 DEF IInv, ServersShared
<1>12. ASSUME NEW t \in Server
       PROVE  content(t) = IF saved'[t].gen # 0 THEN disk'[t][saved'[t].gen]
                           ELSE saved'[t].copy
  BY <1>3, <1>5, <1>6, <1>8 DEF content
<1>13. ASSUME NEW x \in Request PROVE (Bound(reqs[x]) /\ SavedBy(reqs[x], x))'
  <2> DEFINE t == reqs[x].end.to
             h == reqs[x].server
  <2>1. /\ Bound(reqs[x]) /\ SavedBy(reqs[x], x) /\ reqs[x] \in ReqType
        /\ t \in Server /\ h \in Gen \cup {0} /\ h \in Nat
    BY NetworkAssumption DEF IInv, Typed, ReqType, EndName, Gen
  <2>2. h <= gen[t]
    BY <2>1 DEF Bound
  <2>3. h <= gen'[t]
    BY <1>2, <1>3, <1>7, <1>9, <2>1, <2>2
  <2>4. (Bound(reqs[x]))'
    BY <1>1, <2>1, <2>3 DEF Bound
  <2>5. h # 0 => disk'[t][h] = disk[t][h]
    BY <1>2, <1>3, <1>5, <1>8, <1>9, <2>1, <2>2
  <2>6. reqs[x].handler = "done" => h # 0
    BY <2>1 DEF Bound
  <2> QED BY <1>1, <1>12, <2>1, <2>4, <2>5, <2>6 DEF SavedBy, content
<1> QED BY <1>10, <1>11, <1>13 DEF IInv

\* The network knows the new instance.
LEMMA AddServerIInv == ASSUME IInv, NEW s \in Server, AddServer(s) PROVE IInv'
<1>1. /\ servers' = [servers EXCEPT ![s] = gen[s]] /\ cfg' = Ready
      /\ cfg = At("started", s)
      /\ UNCHANGED <<reqs, disk, gen, saved>>
  BY DEF AddServer
<1>2. Typed'
  BY <1>1 DEF IInv, Typed
<1>3. cfg'.at = "ready"
  BY <1>1 DEF Ready
<1>4. ASSUME NEW t \in Server PROVE cfg' # At("deleted", t) /\ cfg' # At("started", t)
  BY <1>3 DEF At
<1>5. saved[s].gen = gen[s] /\ gen[s] \in Nat
  BY <1>1, NetworkAssumption DEF IInv, ServersShared, Typed, Gen
<1>6. servers'[s] = gen[s] /\ \A t \in Server : t # s => servers'[t] = servers[t]
  BY <1>1 DEF IInv, Typed
<1>7. ServersShared'
  BY <1>1, <1>4, <1>5, <1>6 DEF IInv, ServersShared
<1>8. ASSUME NEW x \in Request PROVE (Bound(reqs[x]) /\ SavedBy(reqs[x], x))'
  <2>1. Bound(reqs[x]) /\ SavedBy(reqs[x], x)
    BY DEF IInv
  <2> QED BY <1>1, <2>1 DEF Bound, SavedBy, content
<1> QED BY <1>2, <1>7, <1>8 DEF IInv

\* The other operations of the harness only enable and disable ends, or close
\* the network.
LEMMA ConfigIInv == ASSUME IInv, Config PROVE IInv'
<1> USE DEF cfgVars
<1>1. CASE ConnectAll
  BY <1>1, ConnectionStep DEF ConnectAll
<1>2. ASSUME NEW p \in SUBSET Server, partition(p, Server \ p) PROVE IInv'
  BY <1>2, ConnectionStep DEF partition
<1>3. ASSUME NEW c \in Clerk, NEW to \in SUBSET ClerkTo,
             ConnectClient(c, to) \/ DisconnectClient(c, to)
      PROVE  IInv'
  BY <1>3, ConnectionStep DEF ConnectClient, DisconnectClient
<1>4. ASSUME NEW s \in Server, ShutdownServer(s) PROVE IInv'
  <2>1. cfg'.at = "disconnected"
    BY <1>4 DEF ShutdownServer, At
  <2> QED BY <1>4, <2>1, ConnectionStep DEF ShutdownServer
<1>5. CASE cleanup
  <2>1. cfg'.at = "finished"
    BY <1>5 DEF cleanup
  <2> QED BY <1>5, <2>1, ConnectionStep DEF cleanup
<1> QED
  BY <1>1, <1>2, <1>3, <1>4, <1>5, DeleteServerIInv, CopyPersisterIInv, StartServerIInv,
     AddServerIInv DEF Config

\* IInv is inductive.
LEMMA NextIInv == IInv /\ [Next]_vars => IInv'
<1> SUFFICES ASSUME IInv, [Next]_vars PROVE IInv'
  OBVIOUS
<1>1. CASE Calls
  BY <1>1, CallsIInv
<1>2. CASE Network /\ UNCHANGED cfgVars
  <2>1. CASE StopServing
    BY <1>2, <2>1, ConnectionStep DEF StopServing, cfgVars
  <2> QED BY <1>2, <2>1, NetworkStepIInv, HandleIInv DEF Network
<1>3. CASE Config
  BY <1>3, ConfigIInv
<1>4. CASE UNCHANGED vars
  BY <1>4, ConnectionStep DEF vars, netVars
<1> QED BY <1>1, <1>2, <1>3, <1>4 DEF Next

\* processReq: in every execution of the harness, whatever is shut down, restarted,
\* partitioned or delayed, what was answered is in the Persister that the
\* next instance starts from.
THEOREM PositiveReplyDurability == Spec => []PositiveReplyIsDurable
<1>1. IInv => PositiveReplyIsDurable
  BY DEF IInv, SavedBy, PositiveReplyIsDurable
<1> QED BY <1>1, InitIInv, NextIInv, PTL DEF Spec

-----------------------------------------------------------------------------
(* Partitions *)

Linked(s, t) == End(s, gen[s], t) \in enabled

\* A server that is disconnected or deleted.
Down(s) == servers[s] = 0 \/ cfg = At("disconnected", s)

\* What PartitionIsClean says, and that a server that is down has no links, so that
\* its next instance starts without any.
CInv ==
    /\ gen \in [Server -> Gen]
    /\ servers \in [Server -> Gen \cup {0}]
    /\ enabled \subseteq EndName
    /\ \A end \in enabled : end.from \in Server => end.gen = gen[end.from]
    /\ \A s, t \in Server : Linked(s, t) => Linked(t, s)
    /\ \A s, t, u \in Server : Linked(s, t) /\ Linked(t, u) => Linked(s, u)
    /\ \A s, t \in Server : Down(s) => ~Linked(s, t) /\ ~Linked(t, s)

\* Ends are equal only if all their parts are.
LEMMA EndParts ==
    ASSUME NEW a, NEW g, NEW b, NEW c, NEW h, NEW d
    PROVE  /\ End(a, g, b) = End(c, h, d) => a = c /\ g = h /\ b = d
           /\ End(a, g, b).from = a /\ End(a, g, b).gen = g /\ End(a, g, b).to = b
  BY DEF End

\* The ends of servers are names of ends.
LEMMA LinksAreEnds ==
    ASSUME gen \in [Server -> Gen], NEW p1 \in SUBSET Server, NEW p2 \in SUBSET Server
    PROVE  /\ linksBetween(p1, p2) \subseteq EndName
           /\ \A end \in linksBetween(p1, p2) : end.from \in Server /\ end.gen = gen[end.from]
           /\ \A s, t \in Server : End(s, gen[s], t) \in linksBetween(p1, p2)
                  <=> (s \in p1 /\ t \in p2) \/ (s \in p2 /\ t \in p1)
<1> DEFINE L == linksBetween(p1, p2)
<1>1. \A end : end \in L <=> \E s \in p1, t \in p2 : end \in {End(s, gen[s], t), End(t, gen[t], s)}
  BY DEF linksBetween, links
<1>2. ASSUME NEW s \in Server, NEW t \in Server
      PROVE  End(s, gen[s], t) \in EndName
  BY DEF End, EndName
<1> HIDE DEF L
<1>3. L \subseteq EndName
  BY <1>1, <1>2
<1>4. \A end \in L : end.from \in Server /\ end.gen = gen[end.from]
  BY <1>1, EndParts
<1>5. ASSUME NEW s \in Server, NEW t \in Server
      PROVE  End(s, gen[s], t) \in L <=> (s \in p1 /\ t \in p2) \/ (s \in p2 /\ t \in p1)
  <2>1. ASSUME End(s, gen[s], t) \in L PROVE (s \in p1 /\ t \in p2) \/ (s \in p2 /\ t \in p1)
    <3>1. PICK a \in p1, b \in p2 : End(s, gen[s], t) \in {End(a, gen[a], b), End(b, gen[b], a)}
      BY <1>1, <2>1
    <3> QED BY <3>1, EndParts
  <2>2. ASSUME s \in p1, t \in p2 PROVE End(s, gen[s], t) \in L
    BY <1>1, <2>2
  <2>3. ASSUME s \in p2, t \in p1 PROVE End(s, gen[s], t) \in L
    BY <1>1, <2>3
  <2> QED BY <2>1, <2>2, <2>3
<1> QED BY <1>3, <1>4, <1>5 DEF L

\* CInv is kept while ends and instances stay and no other server goes down.
LEMMA SameLinks ==
    ASSUME CInv, UNCHANGED <<enabled, gen>>, servers' \in [Server -> Gen \cup {0}],
           \A s \in Server : Down(s)' => Down(s)
    PROVE  CInv'
<1>1. \A s, t \in Server : Linked(s, t)' <=> Linked(s, t)
  BY DEF Linked
<1> QED BY <1>1 DEF CInv

\* ConnectAll and partition: the servers of each side are all linked, while all run.
LEMMA SidesStep ==
    ASSUME CInv, cfg = Ready, AllUp, NEW p \in SUBSET Server,
           UNCHANGED <<servers, gen, cfg>>,
           enabled' \subseteq EndName,
           \A end \in enabled' : end.from \in Server => end.gen = gen[end.from],
           \A s, t \in Server : End(s, gen[s], t) \in enabled' <=> (s \in p <=> t \in p)
    PROVE  CInv'
<1>1. ASSUME NEW s \in Server, NEW t \in Server PROVE Linked(s, t)' <=> (s \in p <=> t \in p)
  BY DEF Linked
<1>2. ASSUME NEW s \in Server PROVE ~Down(s)'
  <2>1. cfg.at = "ready"
    BY DEF Ready
  <2>2. cfg # At("disconnected", s)
    BY <2>1 DEF At
  <2> QED BY <2>2 DEF Down, AllUp
<1> QED BY <1>1, <1>2, Zenon DEF CInv

\* Each step of the harness keeps CInv.
LEMMA ConfigCInv == ASSUME CInv, Config PROVE CInv'
<1> USE DEF cfgVars
<1>1. CASE ConnectAll
  <2> DEFINE L == linksBetween(Server, Server)
  <2>1. /\ L \subseteq EndName
        /\ \A end \in L : end.from \in Server /\ end.gen = gen[end.from]
        /\ \A s, t \in Server : End(s, gen[s], t) \in L
    BY LinksAreEnds DEF CInv
  <2>2. /\ enabled' = enabled \cup L /\ cfg = Ready /\ AllUp
        /\ UNCHANGED <<servers, gen, cfg>>
    BY <1>1 DEF ConnectAll
  <2> HIDE DEF L
  <2>3. /\ enabled' \subseteq EndName
        /\ \A end \in enabled' : end.from \in Server => end.gen = gen[end.from]
        /\ \A s, t \in Server : End(s, gen[s], t) \in enabled'
    BY <2>1, <2>2 DEF CInv
  <2>4. \A s, t \in Server : End(s, gen[s], t) \in enabled' <=> (s \in Server <=> t \in Server)
    BY <2>3
  <2> QED BY <2>2, <2>3, <2>4, SidesStep
<1>2. ASSUME NEW p \in SUBSET Server, partition(p, Server \ p) PROVE CInv'
  <2> DEFINE o == Server \ p
             L(a, b) == linksBetween(a, b)
  <2>1. /\ enabled' = (((enabled \ L(p, o)) \cup L(p, p)) \ L(o, p)) \cup L(o, o)
        /\ cfg = Ready /\ AllUp /\ UNCHANGED <<servers, gen, cfg>>
    BY <1>2 DEF partition
  <2>2. ASSUME NEW a \in {p, o}, NEW b \in {p, o}
        PROVE  /\ L(a, b) \subseteq EndName
               /\ \A end \in L(a, b) : end.from \in Server /\ end.gen = gen[end.from]
               /\ \A s, t \in Server : End(s, gen[s], t) \in L(a, b)
                      <=> (s \in a /\ t \in b) \/ (s \in b /\ t \in a)
    BY LinksAreEnds DEF CInv
  <2> HIDE DEF L
  <2>3. enabled' \subseteq EndName
    BY <2>1, <2>2 DEF CInv
  <2>4. \A end \in enabled' : end.from \in Server => end.gen = gen[end.from]
    BY <2>1, <2>2 DEF CInv
  <2>5. ASSUME NEW s \in Server, NEW t \in Server
        PROVE  End(s, gen[s], t) \in enabled' <=> (s \in p <=> t \in p)
    BY <2>1, <2>2
  <2> QED BY <2>1, <2>3, <2>4, <2>5, SidesStep
<1>3. ASSUME NEW c \in Clerk, NEW to \in SUBSET ClerkTo,
             ConnectClient(c, to) \/ DisconnectClient(c, to)
      PROVE  CInv'
  <2> DEFINE C == {End(c, 0, s) : s \in to}
  <2>1. /\ enabled' = enabled \cup C \/ enabled' = enabled \ C
        /\ UNCHANGED <<servers, gen, cfg>>
    BY <1>3 DEF ConnectClient, DisconnectClient
  <2>2. C \subseteq EndName
    BY ConfigAssumption DEF End, EndName
  <2>3. \A end \in C : end.from \notin Server
    BY NetworkAssumption, EndParts
  <2> HIDE DEF C
  <2>4. \A s, t \in Server : End(s, gen[s], t) \notin C
    BY <2>3, EndParts
  <2>5. \A s, t \in Server : Linked(s, t)' <=> Linked(s, t)
    BY <2>1, <2>4 DEF Linked
  <2>6. /\ enabled' \subseteq EndName
        /\ \A end \in enabled' : end.from \in Server => end.gen = gen'[end.from]
    BY <2>1, <2>2, <2>3 DEF CInv
  <2> QED BY <2>1, <2>5, <2>6 DEF CInv, Down
<1>4. ASSUME NEW s \in Server, ShutdownServer(s) PROVE CInv'
  <2> DEFINE L == links(s, Server)
  <2>1. /\ enabled' = enabled \ L /\ cfg' = At("disconnected", s)
        /\ UNCHANGED <<servers, gen>> /\ cfg = Ready
    BY <1>4 DEF ShutdownServer
  <2>2. \A t, u \in Server : End(t, gen[t], u) \in L <=> t = s \/ u = s
    BY EndParts DEF links
  <2> HIDE DEF L
  <2>3. \A t, u \in Server : Linked(t, u)' <=> Linked(t, u) /\ t # s /\ u # s
    BY <2>1, <2>2 DEF Linked
  <2>4. \A t \in Server : Down(t)' => Down(t) \/ t = s
    <3>1. cfg'.at = "disconnected" /\ cfg'.server = s
      BY <2>1 DEF At
    <3>2. \A t \in Server : cfg' = At("disconnected", t) => t = s
      BY <3>1 DEF At
    <3> QED BY <2>1, <3>2 DEF Down
  <2> QED BY <2>1, <2>3, <2>4 DEF CInv
<1>5. ASSUME NEW s \in Server, StartServer(s) PROVE CInv'
  <2>1. /\ gen' = [gen EXCEPT ![s] = gen[s] + 1] /\ gen[s] < MaxGen /\ servers[s] = 0
        /\ cfg' = At("started", s) /\ UNCHANGED <<enabled, servers>>
    BY <1>5 DEF StartServer
  <2>2. gen[s] + 1 \in Gen /\ gen[s] + 1 # gen[s]
    BY <2>1, NetworkAssumption DEF CInv, Gen
  <2>3. gen' \in [Server -> Gen] /\ gen'[s] = gen[s] + 1
        /\ \A t \in Server : t # s => gen'[t] = gen[t]
    BY <2>1, <2>2 DEF CInv
  <2>4. \A t \in Server : ~Linked(s, t) /\ ~Linked(t, s)
    BY <2>1 DEF CInv, Down
  <2>5. \A end \in enabled : end.from # s
    <3> SUFFICES ASSUME NEW end \in enabled, end.from = s PROVE FALSE
      OBVIOUS
    <3>1. end \in [from : Server, gen : Gen, to : Server]
      BY NetworkAssumption DEF CInv, EndName
    <3>2. end.gen = gen[s]
      BY DEF CInv
    <3>3. end = End(s, gen[s], end.to) /\ end.to \in Server
      BY <3>1, <3>2 DEF End
    <3> QED BY <2>4, <3>3 DEF Linked
  <2>6. \A t \in Server : End(s, gen'[s], t) \notin enabled
    BY <2>5, EndParts
  <2>7. \A t, u \in Server : Linked(t, u)' <=> Linked(t, u)
    BY <2>1, <2>3, <2>4, <2>6 DEF Linked
  <2>8. \A end \in enabled' : end.from \in Server => end.gen = gen'[end.from]
    BY <2>1, <2>3, <2>5 DEF CInv
  <2>9. \A t \in Server : Down(t)' => Down(t)
    <3>1. cfg'.at = "started"
      BY <2>1 DEF At
    <3>2. \A t \in Server : cfg' # At("disconnected", t)
      BY <3>1 DEF At
    <3> QED BY <2>1, <3>2 DEF Down
  <2> QED BY <2>1, <2>3, <2>7, <2>8, <2>9 DEF CInv
<1>6. ASSUME NEW s \in Server, DeleteServer(s) PROVE CInv'
  <2>1. /\ servers' = [servers EXCEPT ![s] = 0] /\ cfg' = At("deleted", s)
        /\ cfg = At("disconnected", s) /\ UNCHANGED <<enabled, gen>>
    BY <1>6 DEF DeleteServer
  <2>2. cfg'.at = "deleted"
    BY <2>1 DEF At
  <2>3. \A t \in Server : cfg' # At("disconnected", t)
    BY <2>2 DEF At
  <2>4. servers' \in [Server -> Gen \cup {0}] /\ \A t \in Server : t # s => servers'[t] = servers[t]
    BY <2>1 DEF CInv
  <2>5. \A t \in Server : Down(t)' => Down(t)
    BY <2>1, <2>3, <2>4 DEF Down
  <2> QED BY <2>1, <2>4, <2>5, SameLinks
<1>7. ASSUME NEW s \in Server, AddServer(s) PROVE CInv'
  <2>1. /\ servers' = [servers EXCEPT ![s] = gen[s]] /\ cfg' = Ready
        /\ UNCHANGED <<enabled, gen>>
    BY <1>7 DEF AddServer
  <2>2. cfg'.at = "ready"
    BY <2>1 DEF Ready
  <2>3. \A t \in Server : cfg' # At("disconnected", t)
    BY <2>2 DEF At
  <2>4. /\ servers' \in [Server -> Gen \cup {0}] /\ gen[s] # 0
        /\ \A t \in Server : servers'[t] = IF t = s THEN gen[s] ELSE servers[t]
    BY <2>1 DEF CInv, Gen
  <2>5. \A t \in Server : Down(t)' => Down(t)
    BY <2>3, <2>4 DEF Down
  <2> QED BY <2>1, <2>4, <2>5, SameLinks
<1>8. ASSUME NEW s \in Server, CopyPersister(s) \/ cleanup PROVE CInv'
  <2>1. UNCHANGED <<enabled, gen, servers>> /\ cfg'.at \in {"ready", "finished"}
    BY <1>8 DEF CopyPersister, cleanup, netVars, Ready
  <2>2. \A t \in Server : cfg' # At("disconnected", t)
    BY <2>1 DEF At
  <2>3. \A t \in Server : Down(t)' => Down(t)
    BY <2>1, <2>2 DEF Down
  <2> QED BY <2>1, <2>3, SameLinks DEF CInv
<1>9. \E s : s \in Server
  BY NetworkAssumption
<1> QED BY <1>1, <1>2, <1>3, <1>4, <1>5, <1>6, <1>7, <1>8, <1>9 DEF Config

\* partition, ConnectAll, ShutdownServer, StartServer: in every execution links have
\* both directions, are of the latest instances, and fall into sides.
THEOREM PartitionsAreClean == Spec => []PartitionIsClean
<1>1. Init => CInv
  <2> SUFFICES ASSUME Init PROVE CInv
    OBVIOUS
  <2>1. 1 \in Gen /\ 0 # 1
    BY NetworkAssumption DEF Gen
  <2>2. PICK to \in [Clerk -> SUBSET ClerkTo] :
            enabled = {End(s, 1, t) : s, t \in Server}
                         \cup UNION {{End(c, 0, s) : s \in to[c]} : c \in Clerk}
    BY DEF Init
  <2>3. ASSUME NEW end \in enabled
        PROVE  \/ \E s, t \in Server : end = End(s, 1, t)
               \/ \E c \in Clerk, s \in Server : end = End(c, 0, s)
    BY <2>2, ConfigAssumption
  <2>4. enabled \subseteq EndName
    BY <2>1, <2>3 DEF End, EndName
  <2>5. gen = [s \in Server |-> 1] /\ servers = [s \in Server |-> 1] /\ cfg.at = "ready"
    BY DEF Init, Ready
  <2>6. \A end \in enabled : end.from \in Server => end.gen = gen[end.from]
    BY <2>3, <2>5, EndParts, NetworkAssumption
  <2>7. \A s, t \in Server : Linked(s, t)
    BY <2>2, <2>5 DEF Linked
  <2>8. \A s \in Server : ~Down(s)
    <3>1. cfg.at = "ready"
      BY <2>5
    <3>2. \A s \in Server : cfg # At("disconnected", s)
      BY <3>1 DEF At
    <3> QED BY <2>1, <2>5, <3>2 DEF Down
  <2> QED BY <2>1, <2>4, <2>5, <2>6, <2>7, <2>8 DEF CInv
<1>2. CInv /\ [Next]_vars => CInv'
  <2> SUFFICES ASSUME CInv, [Next]_vars PROVE CInv'
    OBVIOUS
  <2>1. CASE Config
    BY <2>1, ConfigCInv
  <2>2. CASE Calls \/ (Network /\ UNCHANGED cfgVars) \/ UNCHANGED vars
    <3>1. UNCHANGED <<enabled, gen, servers, cfg>>
      BY <2>2 DEF Calls, Call, Network, NetworkStep, Accept, CallAborts, ReadEndnameInfo,
         Unreachable, DropRequest, Dispatch, PollDead, TakeReply, Reply, DelayedReply, Handle,
         StopServing, cfgVars, vars, netVars
    <3> QED BY <3>1, SameLinks DEF CInv, Down
  <2> QED BY <2>1, <2>2 DEF Next
<1>3. CInv => PartitionIsClean
  BY DEF CInv, Linked, PartitionIsClean
<1> QED BY <1>1, <1>2, <1>3, PTL DEF Spec
=============================================================================
