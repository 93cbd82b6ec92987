--------------------------- MODULE MC_Requester ---------------------------
(* Model values for Requester.                                             *)
EXTENDS Requester

CONSTANTS c1, c2, c3

TwoCallers == {c1, c2}
ThreeCallers == {c1, c2, c3}

NobodyElse == {{}}
\* Another process holds one ID, or has scanned the whole endpoint.
SharedDatabase == {{}, {0}, Ids}
=============================================================================
