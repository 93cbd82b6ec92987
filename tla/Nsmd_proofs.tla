---------------------------- MODULE Nsmd_proofs ----------------------------
(***************************************************************************)
(* What Discovery_proofs, Polling_proofs and Exchange_proofs show of each  *)
(* component holds of the three side by side, for any devices, endpoints   *)
(* and sensors.                                                            *)
(***************************************************************************)
EXTENDS Nsmd, TLAPS

(* A step of one component leaves the others alone.                        *)
LEMMA Components == Spec => D!Spec /\ P!Spec /\ E!Spec
  <1>1. Init => D!Init /\ P!Init /\ E!Init
    BY DEF Init
  <1>2. UNCHANGED dVars => UNCHANGED D!vars
    BY DEF dVars, D!vars, D!taskVars, D!listVars, D!updateVars, D!deviceVars, D!eventVars
  <1>3. UNCHANGED pVars => UNCHANGED P!vars
    BY DEF pVars, P!vars, P!queueVars, P!readyVars
  <1>4. UNCHANGED eVars => UNCHANGED E!vars
    BY DEF eVars, E!vars
  <1>5. UNCHANGED vars => UNCHANGED dVars /\ UNCHANGED pVars /\ UNCHANGED eVars
    BY DEF vars
  <1>6. [Next]_vars => [D!Next]_(D!vars) /\ [P!Next]_(P!vars) /\ [E!Next]_(E!vars)
    BY <1>2, <1>3, <1>4, <1>5 DEF Next
  <1> QED
    BY <1>1, <1>6, PTL DEF Spec, D!Spec, P!Spec, E!Spec

(* The variables of all three components keep their types.                 *)
THEOREM TypeCorrect == Spec => []TypeOK
  <1>1. D!Spec => []D!TypeOK
    BY D!TypeCorrect, DiscoveryAssumption
  <1>2. P!Spec => []P!TypeOK
    BY P!TypeCorrect, PollingAssumption
  <1>3. E!Spec => []E!TypeOK
    BY E!TypeCorrect
  <1>4. D!TypeOK /\ P!TypeOK /\ E!TypeOK => TypeOK
    BY DEF TypeOK
  <1> QED
    BY <1>1, <1>2, <1>3, <1>4, Components, PTL

(* A device is online only while its endpoint is enabled (setOffline,      *)
(* setOnline), up to the two ways around that OnlineIsEnabled names.       *)
THEOREM Online == Spec => []OnlineIsEnabled
  <1>1. D!Spec => []D!OnlineIsEnabled
    BY D!Online, DiscoveryAssumption
  <1>2. D!OnlineIsEnabled => OnlineIsEnabled
    BY DEF OnlineIsEnabled
  <1> QED
    BY <1>1, <1>2, Components, PTL

(* A device that is online has its commands and its UUID unless a query    *)
(* failed, whatever runs of updateNsmDevice overlapped.                    *)
THEOREM Usable == Spec => []UsableUnlessFailed
  <1>1. D!Spec => []D!UsableUnlessFailed
    BY D!Usable, DiscoveryAssumption
  <1>2. D!UsableUnlessFailed => UsableUnlessFailed
    BY DEF UsableUnlessFailed
  <1> QED
    BY <1>1, <1>2, Components, PTL

(* checkAllDevicesReady enables the service only while every online device *)
(* is ready, and when doPollingTask calls a device ready, each sensor of   *)
(* its queue was updated since, or at most the refresh limit before, the   *)
(* device came online and power returned, but for disturbed devices.       *)
THEOREM Readiness == Spec => []ReadinessIsTrue
  <1>1. P!Spec => []P!ReadinessIsTrue
    BY P!Readiness, PollingAssumption
  <1>2. P!ReadinessIsTrue => ReadinessIsTrue
    BY DEF ReadinessIsTrue
  <1> QED
    BY <1>1, <1>2, Components, PTL

(* doPollingTask drops no sensor from the circular queue but a static one  *)
(* that was read.                                                          *)
THEOREM SensorsKept == Spec => []NoSensorForgotten
  <1>1. P!Spec => []P!NoSensorForgotten
    BY P!SensorsKept, PollingAssumption
  <1>2. P!NoSensorForgotten => NoSensorForgotten
    BY DEF NoSensorForgotten
  <1> QED
    BY <1>1, <1>2, Components, PTL

(* libnsm's and the mockup's answers to what a client of nsmd or nsmtool   *)
(* encodes are decoded and end in success with the answer's value          *)
(* (NsmSensor::update, the commands of nsmtool), up to the handlers that   *)
(* MockupFallsShort names.                                                 *)
THEOREM CleanExchange == Spec => []CleanExchangeSucceeds
  <1>1. E!Spec => []E!CleanExchangeSucceeds
    BY E!CleanExchange
  <1>2. E!CleanExchangeSucceeds => CleanExchangeSucceeds
    BY DEF CleanExchangeSucceeds
  <1> QED
    BY <1>1, <1>2, Components, PTL

(* handleResponseMsg reports success only with the whole value of the last *)
(* answer, unless the answer was cut short and its decoder is one of those *)
(* that ask for less than they read (AsksForLess), or the client one of    *)
(* those that do not look at the decoder's result (IgnoresRc, ReturnsRc).  *)
THEOREM SuccessIsCurrent == Spec => []SuccessMeansCurrent
  <1>1. E!Spec => []E!SuccessMeansCurrent
    BY E!SuccessIsCurrent
  <1>2. E!SuccessMeansCurrent => SuccessMeansCurrent
    BY DEF SuccessMeansCurrent
  <1> QED
    BY <1>1, <1>2, Components, PTL
=============================================================================
