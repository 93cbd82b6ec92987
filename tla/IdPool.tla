------------------------------- MODULE IdPool -------------------------------
(***************************************************************************)
(* What the instance-ID database promises its users: an ID of an endpoint  *)
(* is held by at most one process.  A process takes an ID nobody holds and *)
(* drops IDs it holds, one at a time or, when it ends, all of them.        *)
(***************************************************************************)
CONSTANTS Procs, Ids

VARIABLE held    \* held[p]: the IDs process p may stamp on its requests

Init == held = [p \in Procs |-> {}]

Take(p, i) ==
    /\ \A q \in Procs : i \notin held[q]
    /\ held' = [held EXCEPT ![p] = @ \union {i}]

Drop(p, S) ==
    /\ S \subseteq held[p]
    /\ held' = [held EXCEPT ![p] = @ \ S]

Next ==
    \E p \in Procs :
        \/ \E i \in Ids : Take(p, i)
        \/ \E S \in SUBSET Ids : Drop(p, S)

Spec == Init /\ [][Next]_held
=============================================================================
