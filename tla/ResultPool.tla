----------------------------- MODULE ResultPool -----------------------------
(***************************************************************************)
(* What a D-Bus client relies on when it is given the path of a result     *)
(* object: the object is about the client's operation alone, and from the  *)
(* end of that operation it shows its outcome until it is given out again. *)
(***************************************************************************)
CONSTANTS Slots, Operations, NoOperation, Outcomes

VARIABLES
    owner,   \* the operation whose result object this is
    result   \* what the object shows of it

Init ==
    /\ owner = [s \in Slots |-> NoOperation]
    /\ result \in [Slots -> Outcomes]

GiveOut(o, s) ==
    /\ owner[s] = NoOperation
    /\ owner' = [owner EXCEPT ![s] = o]
    /\ \E r \in Outcomes : result' = [result EXCEPT ![s] = r]

End(s, r) ==
    /\ owner[s] # NoOperation
    /\ owner' = [owner EXCEPT ![s] = NoOperation]
    /\ result' = [result EXCEPT ![s] = r]

Next ==
    \E s \in Slots :
       \/ \E o \in Operations : GiveOut(o, s)
       \/ \E r \in Outcomes : End(s, r)

Spec == Init /\ [][Next]_<<owner, result>>
=============================================================================
