--------------------------- MODULE MC_InstanceId ---------------------------
(* Model values for InstanceId: two processes, such as nsmd and nsmtool.   *)
EXTENDS InstanceId

CONSTANTS p1, p2

TwoProcs == {p1, p2}
=============================================================================
