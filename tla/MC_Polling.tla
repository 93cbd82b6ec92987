---------------------------- MODULE MC_Polling ----------------------------
(* Model values for Polling: a GPU with priority sensors, and a switch.    *)
EXTENDS Polling

CONSTANTS gpu, switch, temperature, ecc, retimer, power

TwoDevices == {gpu, switch}
FourSensors == {temperature, ecc, retimer, power}
SensorsOfBoth ==
    [d \in TwoDevices |-> IF d = gpu THEN {temperature, ecc} ELSE {retimer, power}]
AllButEcc == FourSensors \ {ecc}
Retimer == {retimer}
Gpu == {gpu}
===========================================================================
