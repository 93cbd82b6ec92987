------------------------- MODULE MC_AsyncOperations -------------------------
(* Model values for AsyncOperations.                                       *)
EXTENDS AsyncOperations

CONSTANTS o1, o2, o3, o4

FourOperations == {o1, o2, o3, o4}
ThreeSets == {o1, o2, o3}
IllTypedOnes == {o3}
=============================================================================
