--------------------------- MODULE ReplicatedLog ---------------------------
(***************************************************************************)
(* What Raft promises to the services above it: one log that only grows,   *)
(* and at each server a service that is handed a prefix of it, in order.   *)
(* A server that restarts falls back to a shorter prefix (the one in its   *)
(* snapshot) and is handed the rest again; nothing else takes a service    *)
(* back.                                                                   *)
(***************************************************************************)
EXTENDS Naturals, Sequences, SequencesExt

CONSTANTS Server

VARIABLES
    chosen,     \* the entries that have been committed
    applied,    \* applied[s]: the entries handed to the service of s
    restarts    \* number of crashes so far

vars == <<chosen, applied, restarts>>

\* A cluster may start from snapshots of an earlier run.
Init == restarts = 0 /\ \A s \in Server : IsPrefix(applied[s], chosen)

\* Entries are committed: the log is extended at its end.
Choose == IsPrefix(chosen, chosen') /\ UNCHANGED <<applied, restarts>>

\* The service of s moves forward along the log.
Advance(s) ==
    /\ UNCHANGED <<chosen, restarts>>
    /\ applied'[s] # applied[s]
    /\ IsPrefix(applied[s], applied'[s])
    /\ IsPrefix(applied'[s], chosen)
    /\ \A t \in Server \ {s} : applied'[t] = applied[t]

\* s crashes and comes back with a state its service once had.
Restart(s) ==
    /\ restarts' = restarts + 1
    /\ IsPrefix(applied'[s], applied[s])
    /\ \A t \in Server \ {s} : applied'[t] = applied[t]
    /\ UNCHANGED chosen

Next == Choose \/ \E s \in Server : Advance(s) \/ Restart(s)

Spec == Init /\ [][Next]_vars
=============================================================================
