---------------------------- MODULE MCPorcupine ----------------------------
(* Histories for the checker. *)
EXTENDS Porcupine

op(kind, key, value, result, call, ret) ==
    [Input |-> KvInput(kind, key, value), Output |-> result, Call |-> call, Return |-> ret]

\* Writes, and outputs that some orders of them explain.
PutP == <<"put", "p", <<>>>>
AppendA == <<"append", "a", <<>>>>
Get(value) == <<"get", "", value>>

\* The history lists operations by their intervals, as their ids mean nothing else.
Before(i, j) == i[1] < j[1] \/ (i[1] = j[1] /\ i[2] <= j[2])

OpsOf(key, n, kinds, intervals) ==
    {[j \in 1 .. n |-> op(k[j][1], key, k[j][2], k[j][3], i[j][1], i[j][2])] :
        k \in [1 .. n -> kinds],
        i \in {x \in [1 .. n -> intervals] : \A j \in 1 .. n - 1 : Before(x[j], x[j + 1])}}

\* Three operations on one key; intervals that touch, overlap and have no length.
OneKey ==
    [api : {"operations"}, verbose : {TRUE}, timeout : {FALSE},
     ops : OpsOf("x", 3, {PutP, AppendA, Get(<<>>), Get(<<"p", "a">>)},
                 {<<1, 2>>, <<2, 3>>, <<3, 3>>})]

\* Two on one key and one on another.
TwoKeys ==
    [api : {"operations"}, verbose : BOOLEAN, timeout : BOOLEAN,
     ops : {o1 \o o2 : o1 \in OpsOf("x", 2, {PutP, Get(<<>>), Get(<<"p">>)}, {<<1, 2>>, <<3, 3>>}),
                       o2 \in OpsOf("y", 1, {Get(<<>>), Get(<<"p">>)}, {<<1, 3>>})}]

Events ==
    [api : {"events"}, verbose : {TRUE}, timeout : {FALSE},
     ops : OpsOf("x", 3, {PutP, AppendA, Get(<<"p">>)}, {<<1, 2>>, <<3, 4>>, <<1, 4>>})]

NoOperations == [api : {"operations"}, verbose : {FALSE}, timeout : BOOLEAN, ops : {<<>>}]

AllChecks == OneKey \cup TwoKeys \cup Events \cup NoOperations
=============================================================================
