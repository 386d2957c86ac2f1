------------------------------ MODULE KvModel ------------------------------
(***************************************************************************)
(* The model of one key of the key/value store that the linearizability    *)
(* checker runs histories against (models/kv.go).  A value is the sequence *)
(* of the pieces that it was put together from.                            *)
(***************************************************************************)
EXTENDS Sequences, Naturals

KvInput(op, key, value) == [Op |-> op, Key |-> key, Value |-> value]

\* The operations of each key, in the order of the history.
Partition(history) ==
    [k \in {history[i].Input.Key : i \in DOMAIN history} |->
        SelectSeq(history, LAMBDA op : op.Input.Key = k)]

KvInit == <<>>

\* Whether an operation may return output, and the value that it leaves.
StepOk(state, input, output) == input.Op = "get" => output = state

StepState(state, input) ==
    CASE input.Op = "get" -> state
      [] input.Op = "put" -> <<input.Value>>
      [] input.Op = "append" -> Append(state, input.Value)
=============================================================================
