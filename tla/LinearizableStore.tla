------------------------- MODULE LinearizableStore -------------------------
(***************************************************************************)
(* What the key/value service promises to its clients: one store, on which *)
(* every write takes effect once, at a moment between its invocation and   *)
(* its return, and from which a Get returns a value that its key had at    *)
(* such a moment.  The store keeps all the states it went through, so that *)
(* a Get may return after the moment it stands for: the writes are ordered *)
(* by their effect, and a Get goes after the write whose state it read.    *)
(* Calls that do not overlap are in their real order.                      *)
(***************************************************************************)
EXTENDS Naturals, Sequences

CONSTANTS
    Client,
    Key,
    None        \* no call is pending

VARIABLES
    states,     \* the states of the store, the current one last
    call,       \* call[c]: the pending call of c, or None
    answer      \* answer[c]: what the last call of c returned

vars == <<states, call, answer>>

EmptyStore == [k \in Key |-> <<>>]

Current == states[Len(states)]

\* A value is a sequence: Put replaces it, Append extends it, Get leaves it.
Write(store, op) ==
    CASE op.Type = "Put"    -> [store EXCEPT ![op.Key] = op.Value]
      [] op.Type = "Append" -> [store EXCEPT ![op.Key] = @ \o op.Value]
      [] op.Type = "Get"    -> store

Init ==
    /\ states = <<EmptyStore>>
    /\ call = [c \in Client |-> None]
    /\ answer = [c \in Client |-> <<>>]

Invoke(c) ==
    /\ call[c] = None
    /\ call'[c] # None /\ call'[c].since = Len(states) /\ ~call'[c].done
    /\ \A d \in Client \ {c} : call'[d] = call[d]
    /\ UNCHANGED <<states, answer>>

Effect(c) ==
    /\ call[c] # None /\ ~call[c].done
    /\ call' = [call EXCEPT ![c].done = TRUE]
    /\ states' = Append(states, Write(Current, call[c].op))
    /\ UNCHANGED answer

Return(c) ==
    /\ call[c] # None /\ call[c].done
    /\ call' = [call EXCEPT ![c] = None]
    /\ \E p \in call[c].since .. Len(states) :
           answer' = [answer EXCEPT ![c] =
                        IF call[c].op.Type = "Get" THEN states[p][call[c].op.Key] ELSE <<>>]
    /\ UNCHANGED states

Next == \E c \in Client : Invoke(c) \/ Effect(c) \/ Return(c)

Spec == Init /\ [][Next]_vars
=============================================================================
