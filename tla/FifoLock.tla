------------------------------ MODULE FifoLock ------------------------------
(***************************************************************************)
(* What common::CoroutineSemaphore says of itself: one user at a time, and *)
(* the others get their turn in the order in which they asked.             *)
(***************************************************************************)
EXTENDS Sequences

CONSTANTS Users, Nobody

VARIABLES holder, line

Init == holder = Nobody /\ line = <<>>

\* The lock is free and nobody is before u.
Enter(u) ==
    /\ holder = Nobody /\ line = <<>>
    /\ holder' = u
    /\ UNCHANGED line

Join(u) == line' = Append(line, u) /\ UNCHANGED holder

Pass ==
    /\ holder = Nobody /\ line # <<>>
    /\ holder' = Head(line)
    /\ line' = Tail(line)

Leave ==
    /\ holder # Nobody
    /\ holder' = Nobody
    /\ UNCHANGED line

Next == (\E u \in Users : Enter(u) \/ Join(u)) \/ Pass \/ Leave

Spec == Init /\ [][Next]_<<holder, line>>
=============================================================================
