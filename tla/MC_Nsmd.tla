------------------------------ MODULE MC_Nsmd ------------------------------
(* Discovery, Polling and Exchange, each on its own: an initial state      *)
(* chooses the component that runs, and the others stutter.                *)
EXTENDS Nsmd

CONSTANTS temperature, ecc, retimer, power

VARIABLE component

\* A GPU with two endpoints, and a switch.  The GPU's instance number 5 is
\* mapped to 1, the switch goes by its UUID.
Gpu == [type |-> "GPU", instance |-> 1]
Switch == [type |-> "Switch", instance |-> 0]
TwoDevices == {Gpu, Switch}
ThreeEids == {12, 13, 14}
TwoUuids == {"gpu", "switch"}
UuidOfAll == [e \in {12, 13, 14} |-> IF e = 13 THEN "switch" ELSE "gpu"]
IdentityOfBoth ==
    [w \in {"gpu", "switch"} |->
        IF w = "gpu" THEN [type |-> "GPU", instance |-> 5] ELSE [type |-> "Switch", instance |-> 9]]
NoTable == [t \in {"GPU", "Switch"} |-> <<>>]
GpuTable == [NoTable EXCEPT !["GPU"] = <<4, 5>>]
SwitchTable == [NoTable EXCEPT !["Switch"] = <<"switch", "gpu">>]

\* The GPU has priority sensors and a long-running one.
FourSensors == {temperature, ecc, retimer, power}
SensorsOfBoth == [d \in TwoDevices |-> IF d = Gpu THEN {temperature, ecc} ELSE {retimer, power}]
AllButEcc == FourSensors \ {ecc}
Retimer == {retimer}
OnlyGpu == {Gpu}

mcVars == <<component, vars>>

\* Each client of nsmd and nsmtool, or one that does nothing.
OneClient == program = "nsmd" /\ client = E!Nsmd!Ping /\ E!Idle
MCInit ==
    /\ D!Init
    /\ P!Init
    /\ \/ component \in {"discovery", "polling"} /\ OneClient
       \/ component = "exchange" /\ E!Init

Discovering(step) == component = "discovery" /\ step /\ UNCHANGED <<component, pVars, eVars>>
Polls(step) == component = "polling" /\ step /\ UNCHANGED <<component, dVars, eVars>>
Exchanges(step) == component = "exchange" /\ step /\ UNCHANGED <<component, dVars, pVars>>
MCNext == Discovering(D!Next) \/ Polls(P!Next) \/ Exchanges(E!Next)

\* With the fairness of Discovery!FairSpec and Polling!FairSpec.
MCSpec ==
    /\ MCInit /\ [][MCNext]_mcVars
    /\ WF_mcVars(Discovering(D!TaskStep))
    /\ \A d \in Devices :
          /\ WF_mcVars(Discovering(D!PollingStep(d)))
          /\ WF_mcVars(Discovering(D!UpdateStep(d, "rediscovery")))
          /\ WF_mcVars(Polls(P!Coroutine(d)))
          /\ SF_mcVars(Polls(P!RoundBegins(d)))
=============================================================================
