----------------------------- MODULE MapReduce -----------------------------
(***************************************************************************)
(* The coordinator of mr, its workers, and the directory they share.       *)
(*                                                                         *)
(* A worker asks for a task, works on it file by file and write by write,  *)
(* and reports it.  The coordinator hands a task out again when its time   *)
(* is over.  Files are inodes: os.Create truncates the inode that the name *)
(* has, rename gives the inode another name, and a file that is open stays *)
(* the inode it was, whatever its name becomes.                            *)
(***************************************************************************)
EXTENDS Integers, Sequences, FiniteSets, FiniteSetsExt, SequencesExt

CONSTANTS
    Worker,
    Input,          \* Input[x]: what mapf returns for file x, pairs of Key and Value
    nReduce,
    Hash,           \* Hash[k]: the reduce task of key k (ihash(key) % Y + 1)
    MaxCrashes,     \* bound on the number of workers that crash
    SlowWorkers     \* whether a live worker may need longer than the timeout

ASSUME MapReduceAssumption ==
    /\ nReduce \in Nat \ {0}
    /\ \A x \in DOMAIN Input : \A i \in DOMAIN Input[x] : Hash[Input[x][i].Key] \in 1 .. nReduce
    /\ MaxCrashes \in Nat /\ SlowWorkers \in BOOLEAN

VARIABLES
    coord,          \* the struct Coordinator (phase, mapTask and reduceTask), and
                    \* whether its process runs
    late,           \* the tasks whose time is over
    worker,         \* worker[w]: where the process is
    dir,            \* names of files -> inodes
    inode,          \* inode -> what it contains, record by record
    crashes         \* number of crashes so far

vars == <<coord, late, worker, dir, inode, crashes>>

files == <<dir, inode>>

-----------------------------------------------------------------------------
(* Tasks and files *)

X == Len(Input)
Y == nReduce

Todo == "Todo"
Doing == "Doing"
Done == "Done"

\* 1 .. X are map tasks, 1 .. Y reduce tasks.
MapTask(x) == <<"map", x>>
ReduceTask(y) == <<"reduce", y>>

Tmp(x, y) == <<"mr-x-y.tmp", x, y>>
Intermediate(x, y) == <<"mr-x-y", x, y>>
Out(y) == <<"mr-out", y - 1>>

yOf(key) == Hash[key]

\* mapper: the pairs of bucket y, in the order of mapf.
bucket(x, y) == SelectSeq(Input[x], LAMBDA kv : yOf(kv.Key) = y)

\* mp[kv.Key] = append(mp[kv.Key], kv.Value) for all kvs.
group(mp, kvs) ==
    LET keys == DOMAIN mp \cup {kvs[i].Key : i \in DOMAIN kvs}
        values(k) == LET of == SelectSeq(kvs, LAMBDA kv : kv.Key = k)
                     IN [i \in DOMAIN of |-> of[i].Value]
    IN [k \in keys |-> (IF k \in DOMAIN mp THEN mp[k] ELSE <<>>) \o values(k)]

NoKeys == [k \in {} |-> <<>>]

\* A line of the output: the key and the values reducef gets.
line(k, vals) == [Key |-> k, Vals |-> vals]

\* main/mrsequential.go: all pairs in one place, grouped by key, a line for each
\* key.  The distributed job splits the lines over its output files.
Sequential ==
    LET all == group(NoKeys, FlattenSeq(Input))
    IN {line(k, all[k]) : k \in DOMAIN all}

-----------------------------------------------------------------------------
(* The file system *)

\* What a write leaves where nothing was written before (zero bytes).
Hole == [Key |-> "hole"]

\* Inodes that neither a name nor an open file refers to can be reused.
Unused == CHOOSE n \in 1 .. Cardinality(DOMAIN dir) + Cardinality(Worker) + 1 :
              /\ \A f \in DOMAIN dir : dir[f] # n
              /\ \A w \in Worker : worker[w].fd # n
              /\ \A m \in 1 .. n - 1 : \/ \E f \in DOMAIN dir : dir[f] = m
                                       \/ \E w \in Worker : worker[w].fd = m

with(f, key, value) == [k \in DOMAIN f \cup {key} |-> IF k = key THEN value ELSE f[k]]

\* os.Create
Create(name, fd) ==
    /\ fd = IF name \in DOMAIN dir THEN dir[name] ELSE Unused
    /\ dir' = with(dir, name, fd)
    /\ inode' = with(inode, fd, <<>>)

\* One write, at the offset of the open file.
writeAt(content, off, record) ==
    [i \in 1 .. Max({Len(content), off + 1}) |->
        IF i = off + 1 THEN record ELSE IF i <= Len(content) THEN content[i] ELSE Hole]

Rename(from, to) ==
    /\ dir' = [f \in (DOMAIN dir \cup {to}) \ {from} |-> IF f = to THEN dir[from] ELSE dir[f]]
    /\ UNCHANGED inode

-----------------------------------------------------------------------------
(* The coordinator *)

MakeCoordinator ==
    [phase |-> 0, mapTask |-> [x \in 1 .. X |-> Todo], reduceTask |-> <<>>, up |-> TRUE]

fillReduce == [y \in 1 .. Y |-> Todo]

\* Mutant of fetch: a task that has been handed out stays so.
fetchTodo(kind, tasks) ==
    LET free == {i \in DOMAIN tasks : tasks[i] = Todo}
    IN IF free = {} THEN 0 ELSE Min(free)

\* fetchMap and fetchReduce: the first task that is free, or 0.
fetch(kind, tasks) ==
    LET free == {i \in DOMAIN tasks :
                    tasks[i] = Todo \/ (tasks[i] = Doing /\ <<kind, i>> \in late)}
    IN IF free = {} THEN 0 ELSE Min(free)

allDone(tasks) == \A i \in DOMAIN tasks : tasks[i] = Done

\* Mutant of fetchMap: the phase ends when no map task is left to hand out.
fetchMapHandedOut(c) ==
    IF c.phase = 0 /\ fetch("map", c.mapTask) = 0
    THEN [c EXCEPT !.phase = 1, !.reduceTask = fillReduce] ELSE c

\* fetchMap ends its phase when all tasks are done, and so does fetchReduce.
fetchMap(c) ==
    IF c.phase = 0 /\ allDone(c.mapTask)
    THEN [c EXCEPT !.phase = 1, !.reduceTask = fillReduce] ELSE c

\* Mutant of fetchReduce: the job ends when the last task has been handed out.
fetchReduceHandedOut(c) ==
    IF c.phase = 1 /\ fetch("reduce", c.reduceTask) = 0 THEN [c EXCEPT !.phase = 2] ELSE c

fetchReduce(c) ==
    IF c.phase = 1 /\ allDone(c.reduceTask) THEN [c EXCEPT !.phase = 2] ELSE c

\* Coordinator.Done
isDone == coord.phase = 2

\* main/mrcoordinator.go polls Done, and sleeps once more before it returns.
CoordinatorExits ==
    /\ coord.up /\ isDone
    /\ coord' = [coord EXCEPT !.up = FALSE]
    /\ UNCHANGED <<late, worker, files, crashes>>

-----------------------------------------------------------------------------
(* Workers *)

\* at: "idle", "map", "reduce" (reading), "output", "report", "exited", "crashed"
\* file: the next y of mapper or x of reducer; fd and off: the open file;
\* mp: what reducer has read, or has still to write.
Idle == [at |-> "idle", task |-> <<>>, file |-> 0, fd |-> 0, off |-> 0, mp |-> NoKeys]

Begin(at, task) == [Idle EXCEPT !.at = at, !.task = task, !.file = 1]

Alive(w) == worker[w].at \notin {"exited", "crashed"}

\* eachCall asks for a task.
RequestTask(w) ==
    LET x == IF coord.phase = 0 THEN fetch("map", coord.mapTask) ELSE 0
        c1 == fetchMap(coord)
        y == IF c1.phase = 1 THEN fetch("reduce", c1.reduceTask) ELSE 0
        c2 == fetchReduce(c1)
    IN
    /\ worker[w].at = "idle" /\ coord.up
    /\ \/ /\ c2.phase = 2
          /\ coord' = c2
          /\ worker' = [worker EXCEPT ![w].at = "exited"]
          /\ UNCHANGED late
       \/ /\ c2.phase < 2 /\ x > 0
          /\ coord' = [c2 EXCEPT !.mapTask[x] = Doing]
          /\ worker' = [worker EXCEPT ![w] = Begin("map", MapTask(x))]
          /\ late' = late \ {MapTask(x)}
       \/ /\ c2.phase < 2 /\ x = 0 /\ y > 0
          /\ coord' = [c2 EXCEPT !.reduceTask[y] = Doing]
          /\ worker' = [worker EXCEPT ![w] = Begin("reduce", ReduceTask(y))]
          /\ late' = late \ {ReduceTask(y)}
       \/ /\ c2.phase < 2 /\ x = 0 /\ y = 0
          /\ coord' = c2
          /\ UNCHANGED <<worker, late>>
    /\ UNCHANGED <<files, crashes>>

\* ResponseTask, and the worker is ready for the next task.
ResponseTask(w) ==
    LET t == worker[w].task IN
    /\ worker[w].at = "report" /\ coord.up
    /\ coord' = IF t[1] = "map" THEN [coord EXCEPT !.mapTask[t[2]] = Done]
                ELSE [coord EXCEPT !.reduceTask[t[2]] = Done]
    /\ worker' = [worker EXCEPT ![w] = Idle]
    /\ late' = late \ {t}
    /\ UNCHANGED <<files, crashes>>

\* call: without a coordinator to dial, log.Fatal ends the worker.
CallFails(w) ==
    /\ worker[w].at \in {"idle", "report"} /\ ~coord.up
    /\ worker' = [worker EXCEPT ![w] = [Idle EXCEPT !.at = "exited"]]
    /\ UNCHANGED <<coord, late, files, crashes>>

\* mapper or reducer returns an error: nothing is reported.
GiveUp(w) ==
    /\ worker' = [worker EXCEPT ![w] = Idle]
    /\ UNCHANGED files

-----------------------------------------------------------------------------
(* mapper and intermediateFileWriter *)

CreateTmp(w) ==
    LET k == worker[w]
        x == k.task[2]
    IN
    /\ k.at = "map" /\ k.fd = 0
    /\ \E fd \in 1 .. Cardinality(DOMAIN dir) + Cardinality(Worker) + 1 :
           /\ Create(Tmp(x, k.file), fd)
           /\ worker' = [worker EXCEPT ![w].fd = fd, ![w].off = 0]
    /\ UNCHANGED <<coord, late, crashes>>

\* json.Encoder makes one write for each pair.
WritePair(w) ==
    LET k == worker[w]
        kvs == bucket(k.task[2], k.file)
    IN
    /\ k.at = "map" /\ k.fd # 0 /\ k.off < Len(kvs)
    /\ inode' = [inode EXCEPT ![k.fd] = writeAt(@, k.off, kvs[k.off + 1])]
    /\ worker' = [worker EXCEPT ![w].off = @ + 1]
    /\ UNCHANGED <<coord, late, dir, crashes>>

\* The rename fails when another worker has renamed the file before.
RenameTmp(w) ==
    LET k == worker[w]
        x == k.task[2]
        y == k.file
    IN
    /\ k.at = "map" /\ k.fd # 0 /\ k.off = Len(bucket(x, y))
    /\ IF Tmp(x, y) \in DOMAIN dir
       THEN /\ Rename(Tmp(x, y), Intermediate(x, y))
            /\ worker' = [worker EXCEPT ![w].fd = 0, ![w].off = 0, ![w].file = y + 1,
                                        ![w].at = IF y = Y THEN "report" ELSE "map"]
       ELSE GiveUp(w)
    /\ UNCHANGED <<coord, late, crashes>>

-----------------------------------------------------------------------------
(* reducer *)

\* One file of the column is read; it may be missing, or not be decodable.
ReadIntermediate(w) ==
    LET k == worker[w]
        name == Intermediate(k.file, k.task[2])
    IN
    /\ k.at = "reduce" /\ k.file <= X
    /\ IF name \in DOMAIN dir /\ Hole \notin Range(inode[dir[name]])
       THEN /\ worker' = [worker EXCEPT ![w].mp = group(@, inode[dir[name]]), ![w].file = @ + 1]
            /\ UNCHANGED files
       ELSE GiveUp(w)
    /\ UNCHANGED <<coord, late, crashes>>

CreateOut(w) ==
    LET k == worker[w] IN
    /\ k.at = "reduce" /\ k.file > X
    /\ \E fd \in 1 .. Cardinality(DOMAIN dir) + Cardinality(Worker) + 1 :
           /\ Create(Out(k.task[2]), fd)
           /\ worker' = [worker EXCEPT ![w].at = "output", ![w].fd = fd]
    /\ UNCHANGED <<coord, late, crashes>>

\* The keys of a Go map come in any order.
WriteLine(w, key) ==
    LET k == worker[w] IN
    /\ k.at = "output"
    /\ inode' = [inode EXCEPT ![k.fd] = writeAt(@, k.off, line(key, k.mp[key]))]
    /\ worker' = [worker EXCEPT ![w].off = @ + 1, ![w].mp = [j \in DOMAIN @ \ {key} |-> @[j]]]
    /\ UNCHANGED <<coord, late, dir, crashes>>

CloseOut(w) ==
    /\ worker[w].at = "output" /\ worker[w].mp = NoKeys
    /\ worker' = [worker EXCEPT ![w].at = "report", ![w].fd = 0]
    /\ UNCHANGED <<coord, late, files, crashes>>

-----------------------------------------------------------------------------
(* Time and crashes *)

\* 15 seconds (map) or 10 seconds (reduce) have passed since the task was handed
\* out.  Unless workers may be slow, the one that has the task is gone by then.
Expire(task) ==
    LET tasks == IF task[1] = "map" THEN coord.mapTask ELSE coord.reduceTask IN
    /\ task[2] \in DOMAIN tasks /\ tasks[task[2]] = Doing
    /\ SlowWorkers \/ \A w \in Worker : worker[w].task = task => ~Alive(w)
    /\ late' = late \cup {task}
    /\ UNCHANGED <<coord, worker, files, crashes>>

Crash(w) ==
    /\ Alive(w) /\ crashes < MaxCrashes
    /\ crashes' = crashes + 1
    /\ worker' = [worker EXCEPT ![w] = [Idle EXCEPT !.at = "crashed"]]
    /\ UNCHANGED <<coord, late, files>>

-----------------------------------------------------------------------------
Init ==
    /\ coord = MakeCoordinator /\ late = {}
    /\ worker = [w \in Worker |-> Idle]
    /\ dir = NoKeys /\ inode = NoKeys
    /\ crashes = 0

Step(w) ==
    \/ RequestTask(w) \/ ResponseTask(w) \/ CallFails(w)
    \/ CreateTmp(w) \/ WritePair(w) \/ RenameTmp(w)
    \/ ReadIntermediate(w) \/ CreateOut(w) \/ CloseOut(w)
    \/ \E key \in DOMAIN worker[w].mp : WriteLine(w, key)

Task == {MapTask(x) : x \in 1 .. X} \cup {ReduceTask(y) : y \in 1 .. Y}

\* The job is over and every process has ended.
Finished == ~coord.up /\ \A w \in Worker : ~Alive(w)

Next ==
    \/ \E w \in Worker : Step(w) \/ Crash(w)
    \/ \E task \in Task : Expire(task)
    \/ CoordinatorExits
    \/ Finished /\ UNCHANGED vars

Spec == Init /\ [][Next]_vars

\* Workers that live go on working, time passes, and main polls.
FairSpec ==
    /\ Spec
    /\ \A w \in Worker : WF_vars(Step(w))
    /\ \A task \in Task : WF_vars(Expire(task))
    /\ WF_vars(CoordinatorExits)

-----------------------------------------------------------------------------
(* Properties *)

Complete(x, y) ==
    /\ Intermediate(x, y) \in DOMAIN dir
    /\ inode[dir[Intermediate(x, y)]] = bucket(x, y)

\* fetchMap and intermediateFileWriter: while reducers run, no map task is done
\* by halves, and nothing that a crashed mapper left behind is in the way.
MapOutputComplete ==
    coord.phase > 0 => \A x \in 1 .. X, y \in 1 .. Y : Complete(x, y)

\* Coordinator.Done: when it tells main that the job is over, the output files together hold what
\* main/mrsequential.go computes, each line once, in the file of its key.
OutputIsSequential ==
    isDone =>
        \A y \in 1 .. Y :
            LET lines == {l \in Sequential : yOf(l.Key) = y} IN
            /\ Out(y) \in DOMAIN dir
            /\ Len(inode[dir[Out(y)]]) = Cardinality(lines)
            /\ Range(inode[dir[Out(y)]]) = lines

\* RequestTask is the only place where a phase ends and where a task whose worker
\* crashed is handed out again: as long as one worker lives, the job ends and
\* so do the coordinator and the workers, those too that ask when it is gone.
JobFinishes == <>Finished

\* mr-README.md: "mapper writes .tmp first and renames it when done, and uses the
\* atomicity of rename to guarantee that reducer does not read a half-written
\* intermediate file": what a reducer has read is all that mapf returned.
ReducerReadsWholeFiles ==
    \A w \in Worker :
        LET k == worker[w] IN
        k.at = "reduce" =>
            k.mp = group(NoKeys, FlattenSeq([x \in 1 .. k.file - 1 |-> bucket(x, k.task[2])]))
=============================================================================
