----------------------------- MODULE Porcupine -----------------------------
(***************************************************************************)
(* The linearizability checker: checkParallel starts checkSingle for each  *)
(* partition of a history and collects the verdicts, until one is false,   *)
(* all are in or the time is up.  checkSingle searches depth first for a   *)
(* linearization: it lifts an operation out of the list of entries when it *)
(* puts it next, and unlifts the last one at a return of an operation that *)
(* it has not put yet; a cache of the sets of operations and the states    *)
(* that were reached cuts the search.                                      *)
(***************************************************************************)
EXTENDS Integers, FiniteSets, FiniteSetsExt, SequencesExt, KvModel

CONSTANTS
    Checks,         \* the checks: history, API, and whether verbose and with timeout
    ChunkBits       \* bits in a chunk of a bitset; 64 in the code

ASSUME PorcupineAssumption == ChunkBits \in Nat \ {0}

VARIABLES
    history,        \* the operations to check
    computeInfo,    \* whether the partial linearizations are asked for
    timeout,        \* whether there is a timeout
    single,         \* single[k]: the goroutine that checks partition k
    results,        \* the channel that the verdicts are sent on
    kill,           \* whether the goroutines are told to stop
    check           \* checkParallel itself

vars == <<history, computeInfo, timeout, single, results, kill, check>>

\* ShallowEqual
Equal(state1, state2) == state1 = state2

nil == -1
head == 0

-----------------------------------------------------------------------------
(* The entries of a partition *)

\* The value of an entry is the input or the output of operation op.
entryOf(kind, op, time) == [kind |-> kind, op |-> op, id |-> op - 1, time |-> time]

\* Mutant of Less: of two entries with one time, the return is first.
LessReturnsFirst(a, b) ==
    \/ a.time < b.time
    \/ a.time = b.time /\ a.kind = "return" /\ b.kind = "call"

Less(a, b) ==
    \/ a.time < b.time
    \/ a.time = b.time /\ a.kind = "call" /\ b.kind = "return"

\* sort.Sort is not stable: all the orders that agree with Less.
RECURSIVE Sorted(_)
Sorted(entries) ==
    IF entries = {} THEN {<<>>}
    ELSE UNION {{<<e>> \o rest : rest \in Sorted(entries \ {e})} :
                   e \in {x \in entries : ~ \E y \in entries : Less(y, x)}}

makeEntries(ops) ==
    Sorted({entryOf("call", i, ops[i].Call) : i \in DOMAIN ops}
               \cup {entryOf("return", i, ops[i].Return) : i \in DOMAIN ops})

\* Ids by first appearance.
renumber(events) ==
    LET first(id) == Min({i \in DOMAIN events : events[i].id = id})
        ids == {events[i].id : i \in DOMAIN events}
    IN [i \in DOMAIN events |->
           [events[i] EXCEPT !.id = Cardinality({x \in ids : first(x) < first(@)})]]

\* The index serves as the time.
convertEntries(events) == [i \in DOMAIN events |-> [events[i] EXCEPT !.time = i]]

-----------------------------------------------------------------------------
(* Bitsets: sequences of chunks, each the set of its bits that are set *)

newBitset(n) == [c \in 1 .. n \div ChunkBits + (IF n % ChunkBits # 0 THEN 1 ELSE 0) |-> {}]

major(pos) == pos \div ChunkBits + 1
minor(pos) == pos % ChunkBits

setBit(b, pos) == [b EXCEPT ![major(pos)] = @ \cup {minor(pos)}]
clearBit(b, pos) == [b EXCEPT ![major(pos)] = @ \ {minor(pos)}]

popcnt(b) == MapThenSumSet(LAMBDA c : Cardinality(b[c]), DOMAIN b)

\* A number as the set of its bits, and ^ on such sets.
bitsOf(n) == {i \in 0 .. ChunkBits - 1 : (n \div 2 ^ i) % 2 = 1}
xor(a, b) == (a \ b) \cup (b \ a)

hash(b) == FoldLeft(xor, bitsOf(popcnt(b)), b)

equals(b, b2) == Len(b) = Len(b2) /\ \A i \in DOMAIN b : b[i] = b2[i]

-----------------------------------------------------------------------------
(* The doubly linked list: node i stands for entry i *)

\* A call whose return is not behind it has no match.
makeLinkedEntries(entries) ==
    LET n == Len(entries) IN
    [next |-> [i \in 0 .. n |-> IF i < n THEN i + 1 ELSE nil],
     prev |-> [i \in 0 .. n |-> i - 1],
     match |-> [i \in 1 .. n |->
                   LET after == {j \in i + 1 .. n : entries[j].id = entries[i].id} IN
                   IF entries[i].kind = "call" /\ after # {} THEN Min(after) ELSE nil]]

\* x.next := y and y.prev := x, the latter unless y is nil.
link(list, x, y) ==
    [list EXCEPT !.next[x] = y, !.prev = IF y = nil THEN @ ELSE [@ EXCEPT ![y] = x]]

lift(list, e) ==
    LET m == list.match[e]
        list1 == link(list, list.prev[e], list.next[e])
    IN link(list1, list1.prev[m], list1.next[m])

\* Mutant of unlift: the node behind the return keeps its prev.
unliftNoPrev(list, e) ==
    LET m == list.match[e]
        list1 == [list EXCEPT !.next[list.prev[m]] = m]
    IN [list1 EXCEPT !.next[list.prev[e]] = e, !.prev[list.next[e]] = e]

unlift(list, e) ==
    LET m == list.match[e]
        list1 == [list EXCEPT !.next[list.prev[m]] = m,
                              !.prev = IF list.next[m] = nil THEN @
                                       ELSE [@ EXCEPT ![list.next[m]] = m]]
    IN [list1 EXCEPT !.next[list.prev[e]] = e, !.prev[list.next[e]] = e]

-----------------------------------------------------------------------------
(* checkSingle *)

\* ops is the partition, and entries one of the orders of its entries.
newSingle(ops, entries) ==
    [at |-> "search", ops |-> ops, entries |-> entries, list |-> makeLinkedEntries(entries),
     entry |-> IF entries = <<>> THEN nil ELSE 1, state |-> KvInit,
     linearized |-> newBitset(Len(ops)), cache |-> {}, calls |-> <<>>,
     longest |-> [i \in 0 .. Len(ops) - 1 |-> <<>>]]

id(s, e) == s.entries[e].id
input(s, e) == s.ops[s.entries[e].op].Input
output(s, e) == s.ops[s.entries[e].op].Output

\* The operations that are put, in order.
putIds(s) == [i \in DOMAIN s.calls |-> id(s, s.calls[i].entry)]

\* Mutant of recordLongest: what was recorded stays.
recordLongestFirst(s) ==
    [i \in DOMAIN s.longest |->
        IF i \in Range(putIds(s)) /\ s.longest[i] = <<>> THEN putIds(s) ELSE s.longest[i]]

recordLongest(s) ==
    [i \in DOMAIN s.longest |->
        IF i \in Range(putIds(s)) /\ Len(s.calls) > Len(s.longest[i])
        THEN putIds(s) ELSE s.longest[i]]

searching(k) ==
    /\ single[k].at = "search"
    /\ single[k].list.next[head] # nil
    /\ ~kill

\* A cache entry is found by the hash of its bitset.
cacheEntry(linearized, state) ==
    [hash |-> hash(linearized), linearized |-> linearized, state |-> state]

Put(s) ==
    LET newState == StepState(s.state, input(s, s.entry))
        newLinearized == setBit(s.linearized, id(s, s.entry))
        list == lift(s.list, s.entry)
    IN [s EXCEPT !.cache = @ \cup {cacheEntry(newLinearized, newState)},
                 !.calls = Append(@, [entry |-> s.entry, state |-> s.state]),
                 !.state = newState,
                 !.linearized = newLinearized,
                 !.list = list,
                 !.entry = list.next[head]]

\* Mutant of cacheContains: what has the same hash is taken for the same set.
cacheContainsHash(s) ==
    LET new == cacheEntry(setBit(s.linearized, id(s, s.entry)),
                          StepState(s.state, input(s, s.entry)))
    IN \E c \in s.cache : c.hash = new.hash /\ Equal(c.state, new.state)

\* Two sets may have one hash.
cacheContains(s) ==
    LET new == cacheEntry(setBit(s.linearized, id(s, s.entry)),
                          StepState(s.state, input(s, s.entry)))
    IN \E c \in {x \in s.cache : x.hash = new.hash} :
           equals(c.linearized, new.linearized) /\ Equal(c.state, new.state)

TryCall(k) ==
    LET s == single[k]
        ok == StepOk(s.state, input(s, s.entry), output(s, s.entry))
    IN
    /\ searching(k)
    /\ s.list.match[s.entry] # nil
    /\ single' = [single EXCEPT ![k] =
           IF ok /\ ~cacheContains(s) THEN Put(s) ELSE [s EXCEPT !.entry = s.list.next[s.entry]]]
    /\ UNCHANGED <<history, computeInfo, timeout, results, kill, check>>

\* At a return: the last operation that was put is taken back.
Backtrack(k) ==
    LET s == single[k]
        top == Last(s.calls)
    IN
    /\ searching(k)
    /\ s.list.match[s.entry] = nil
    /\ s.calls # <<>>
    /\ single' = [single EXCEPT ![k] =
           [s EXCEPT !.longest = IF computeInfo THEN recordLongest(s) ELSE @,
                     !.state = top.state,
                     !.linearized = clearBit(@, id(s, top.entry)),
                     !.calls = Front(@),
                     !.list = unlift(@, top.entry),
                     !.entry = unlift(s.list, top.entry).next[top.entry]]]
    /\ UNCHANGED <<history, computeInfo, timeout, results, kill, check>>

\* The search ends: nothing is left to put, or nothing to take back, or it is
\* told to stop.
Finish(k) ==
    LET s == single[k]
        found == s.list.next[head] = nil
    IN
    /\ s.at = "search"
    /\ found \/ kill \/ (~found /\ s.list.match[s.entry] = nil /\ s.calls = <<>>)
    /\ single' = [single EXCEPT ![k] =
           IF found THEN [s EXCEPT !.at = "ok",
                                   !.longest = [i \in DOMAIN @ |-> putIds(s)]]
           ELSE [s EXCEPT !.at = IF kill THEN "killed" ELSE "illegal"]]
    /\ UNCHANGED <<history, computeInfo, timeout, results, kill, check>>

\* The channel has room for all verdicts.
SendResult(k) ==
    /\ single[k].at \in {"ok", "illegal", "killed"}
    /\ Len(results) < Cardinality(DOMAIN single)
    /\ results' = Append(results, single[k].at = "ok")
    /\ single' = [single EXCEPT ![k].at = IF @ = "killed" THEN "stopped" ELSE "sent"]
    /\ UNCHANGED <<history, computeInfo, timeout, kill, check>>

-----------------------------------------------------------------------------
(* checkParallel *)

\* Mutant of allIn: one more verdict is awaited.
allInOffByOne(count) == count > Cardinality(DOMAIN single)

allIn(count) == count >= Cardinality(DOMAIN single)

ReceiveResult ==
    LET ok == check.ok /\ Head(results)
        count == check.count + 1
        stop == ~ok /\ ~computeInfo
    IN
    /\ check.at = "loop" /\ results # <<>>
    /\ results' = Tail(results)
    /\ kill' = (kill \/ stop)
    /\ check' = [check EXCEPT !.ok = ok, !.count = count,
                              !.at = IF stop \/ allIn(count) THEN "drain" ELSE "loop"]
    /\ UNCHANGED <<history, computeInfo, timeout, single>>

TimesOut ==
    /\ check.at = "loop" /\ timeout
    /\ kill' = TRUE
    /\ check' = [check EXCEPT !.timedOut = TRUE, !.at = "drain"]
    /\ UNCHANGED <<history, computeInfo, timeout, single, results>>

\* The goroutines still write their partial linearizations.
Drain ==
    /\ check.at = "drain" /\ computeInfo /\ check.count < Cardinality(DOMAIN single)
    /\ results # <<>>
    /\ results' = Tail(results)
    /\ check' = [check EXCEPT !.count = @ + 1]
    /\ UNCHANGED <<history, computeInfo, timeout, single, kill>>

Return ==
    /\ check.at = "drain"
    /\ computeInfo => check.count >= Cardinality(DOMAIN single)
    /\ check' = [check EXCEPT !.at = "done",
                     !.result = IF ~check.ok THEN "Illegal"
                                ELSE IF check.timedOut THEN "Unknown" ELSE "Ok"]
    /\ UNCHANGED <<history, computeInfo, timeout, single, results, kill>>

-----------------------------------------------------------------------------
\* fillDefault: KvModel partitions operations, and leaves events and Equal to it.
NoPartitionEvent(events) == [k \in {"all"} |-> events]

\* checkOperations: KvModel partitions the history, each entry order is possible.
checkOperations(ops) ==
    LET parts == Partition(ops) IN
    \E entries \in [DOMAIN parts -> UNION {makeEntries(parts[k]) : k \in DOMAIN parts}] :
        /\ \A k \in DOMAIN parts : entries[k] \in makeEntries(parts[k])
        /\ single = [k \in DOMAIN parts |-> newSingle(parts[k], entries[k])]

\* checkEvents: the events of a history are its entries, with ids of the caller's
\* choice.
checkEvents(ops) ==
    \E entries \in makeEntries(ops) :
        LET events == [i \in DOMAIN entries |->
                          [entries[i] EXCEPT !.id = 2 * (Len(ops) - @), !.time = 0]]
            parts == NoPartitionEvent(events)
        IN single = [k \in DOMAIN parts |-> newSingle(ops, convertEntries(renumber(parts[k])))]

Init ==
    /\ \E c \in Checks :
        /\ history = c.ops /\ computeInfo = c.verbose /\ timeout = c.timeout
        /\ IF c.api = "events" THEN checkEvents(c.ops) ELSE checkOperations(c.ops)
    /\ results = <<>> /\ kill = FALSE
    /\ check = [at |-> "loop", ok |-> TRUE, count |-> 0, timedOut |-> FALSE, result |-> "none"]

Goroutine(k) == TryCall(k) \/ Backtrack(k) \/ Finish(k) \/ SendResult(k)

Main == ReceiveResult \/ TimesOut \/ Drain \/ Return

Next == Main \/ \E k \in DOMAIN single : Goroutine(k)

Spec == Init /\ [][Next]_vars

\* The goroutines run; a timer fires.
FairSpec == Spec /\ WF_vars(Main) /\ WF_vars(\E k \in DOMAIN single : Goroutine(k))
-----------------------------------------------------------------------------
(* What the checker should compute *)

Precedes(a, b) == a.Return < b.Call

\* The values of all keys after the operations in seq.
RECURSIVE Replay(_, _)
Replay(ops, seq) ==
    IF seq = <<>> THEN [k \in {ops[i].Input.Key : i \in DOMAIN ops} |-> KvInit]
    ELSE LET input1 == ops[Last(seq)].Input IN
         [Replay(ops, Front(seq)) EXCEPT ![input1.Key] = StepState(@, input1)]

\* The sequences of operations, each of them once, that agree with real time and
\* with the outputs.
RECURSIVE LegalPrefixes(_, _)
LegalPrefixes(ops, n) ==
    IF n = 0 THEN {<<>>}
    ELSE LET shorter == LegalPrefixes(ops, n - 1)
             left(seq) == DOMAIN ops \ Range(seq)
             mayFollow(seq, i) ==
                 /\ ~ \E j \in left(seq) : Precedes(ops[j], ops[i])
                 /\ StepOk(Replay(ops, seq)[ops[i].Input.Key], ops[i].Input, ops[i].Output)
         IN shorter \cup UNION {{Append(seq, i) : i \in {i \in left(seq) : mayFollow(seq, i)}} :
                                   seq \in shorter}

Linearizable(ops) == \E seq \in LegalPrefixes(ops, Len(ops)) : Len(seq) = Len(ops)

-----------------------------------------------------------------------------
(* What the visualization makes of the partial linearizations *)

\* The ids of a partition's operations.
opOf(s, i) == CHOOSE op \in DOMAIN s.ops : \E e \in DOMAIN s.entries :
                  s.entries[e].op = op /\ s.entries[e].id = i

partials(s) == Range(s.longest) \ {<<>>}

\* computeVisualizationData replays each partial linearization, and panics at a
\* step that the model refuses.
replayed(s, partial) ==
    LET ops == [j \in DOMAIN partial |-> opOf(s, partial[j])]
        before(j) == Replay(s.ops, SubSeq(ops, 1, j - 1))[s.ops[ops[j]].Input.Key]
    IN \A j \in DOMAIN partial : StepOk(before(j), s.ops[ops[j]].Input, s.ops[ops[j]].Output)

\* The size of the partial linearization that it shows for an operation.
largestSize(s, i) ==
    LET sizes == {Len(partial) : partial \in {q \in partials(s) : i \in Range(q)}} IN
    IF sizes = {} THEN 0 ELSE Max(sizes)

-----------------------------------------------------------------------------
\* CheckOperations and CheckEvents: Ok only for histories that are linearizable as
\* a whole, Illegal only for others, although partitions are checked one by
\* one, searches are cut by the cache and stopped by kill, and entries with
\* equal times are sorted in any order ("Partition functions, such that a
\* history is linearizable if and only if each partition is linearizable").
VerdictIsRight ==
    /\ check.result = "Ok" => Linearizable(history)
    /\ check.result = "Illegal" => ~Linearizable(history)

\* lift and unlift: the list has exactly the entries of the operations that are
\* not put, in their order, in both directions, after any backtracking.
ListIsIntact ==
    \A k \in DOMAIN single :
        LET s == single[k]
            left == {e \in DOMAIN s.entries : s.entries[e].id \notin Range(putIds(s))}
            after(e) == {x \in left : x > e}
        IN \A e \in left \cup {head} :
              IF after(e) = {} THEN s.list.next[e] = nil
              ELSE s.list.next[e] = Min(after(e)) /\ s.list.prev[Min(after(e))] = e

\* recordLongest and computeVisualizationData: the visualization never panics, and
\* shows for each operation a legal partial linearization; unless the search
\* was stopped, it is the "longest linearizable prefix that includes the
\* given entry".
VisualizationIsRight ==
    (check.at = "done" /\ computeInfo) =>
        \A k \in DOMAIN single :
            LET s == single[k]
                legal == LegalPrefixes(s.ops, Len(s.ops))
                sizes(i) == {Len(seq) : seq \in {q \in legal : opOf(s, i) \in Range(q)}}
            IN /\ \A partial \in partials(s) :
                      /\ replayed(s, partial)
                      /\ [j \in DOMAIN partial |-> opOf(s, partial[j])] \in legal
               /\ s.at = "sent" =>
                      \A i \in DOMAIN s.longest :
                          {Len(s.longest[i]), largestSize(s, i)} = {Max(sizes(i) \cup {0})}

\* checkParallel: the check returns and its goroutines end, unless a history
\* without operations has no partitions and there is no timeout.
CheckReturns ==
    (history # <<>> \/ timeout) ~>
        (check.at = "done" /\ \A k \in DOMAIN single : single[k].at \in {"sent", "stopped"})
=============================================================================
