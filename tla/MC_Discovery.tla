--------------------------- MODULE MC_Discovery ---------------------------
(* Model values for Discovery: a GPU with two endpoints, and a switch.     *)
(* The GPU's instance number 5 is mapped to 1, the switch goes by its UUID.*)
EXTENDS Discovery

TwoUuids == {"gpu", "switch"}
ThreeEids == {12, 13, 14}
TwoDevices == {[type |-> "GPU", instance |-> 1], [type |-> "Switch", instance |-> 0]}
UuidOfAll == [e \in Eids |-> IF e = 13 THEN "switch" ELSE "gpu"]
IdentityOf == [w \in Uuids |->
    IF w = "gpu" THEN [type |-> "GPU", instance |-> 5] ELSE [type |-> "Switch", instance |-> 9]]
NoTable == [t \in {"GPU", "Switch"} |-> <<>>]
Instances == [NoTable EXCEPT !["GPU"] = <<4, 5>>]
UuidsInOrder == [NoTable EXCEPT !["Switch"] = <<"switch", "gpu">>]

OneUuid == {"gpu"}
OneEid == {12}
OneDevice == {[type |-> "GPU", instance |-> 1]}
===========================================================================
