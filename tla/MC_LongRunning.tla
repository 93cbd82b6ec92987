-------------------------- MODULE MC_LongRunning --------------------------
(* Model values for LongRunning: the polling loop and a refresh share a    *)
(* sensor; a raw command may be the command of that sensor.                *)
EXTENDS LongRunning

CONSTANTS poll, set, raw, ecc, setEcc, rawEcc, getEccMode, setEccMode

ThreeUpdaters == {poll, set, raw}
ThreeHandlers == {ecc, setEcc, rawEcc}
UsesOf == [u \in ThreeUpdaters |->
             IF u = poll THEN {ecc} ELSE IF u = set THEN {ecc, setEcc} ELSE {rawEcc}]
RawHandlers == {rawEcc}
CommandOf == [h \in ThreeHandlers |-> IF h = setEcc THEN setEccMode ELSE getEccMode]
===========================================================================
