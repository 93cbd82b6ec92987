------------------------------- MODULE Nsmd -------------------------------
(***************************************************************************)
(* Discovery, Polling and Exchange side by side: the coroutines of         *)
(* deviceManager.cpp and sensorManager.cpp interleave in any order.  Each  *)
(* stands for what the others need of it: Polling!Activated for an update  *)
(* of Discovery, Discovery!PollEventSensor for a turn of Polling.          *)
(* Exchange is the update of a sensor, in which a decoder and its client   *)
(* meet an answer.                                                         *)
(*                                                                         *)
(* The instances are of the modules with the proofs, whose theorems        *)
(* Nsmd_proofs cites.                                                      *)
(***************************************************************************)
EXTENDS Integers, Sequences, FiniteSets

CONSTANTS
    Devices,
    Eids, Uuids, UuidOf, Identity, InstanceTable, UuidTable, EidTable,
    MaxSignals, MaxQueue, MaxFaults,
    Sensors, SensorsOf, Configured, Static, StandbyToDc, Priority, LongRunning, NoSensor,
    MaxChanges

VARIABLES
    up, dQueue, stage, reached, discovered, eidTable, dActive, eid, uuid, matrix, dPc, target,
    left, unsent, subscribed, raced, failed, signals, faults,
    pPc, long, pQueue, cur, due, refreshed, young, renewed, read, created, pActive, ready,
    atPriority, reachable, checkable, service, disturbed, changes,
    program, client, at, answer, outcome, value

dVars == <<up, dQueue, stage, reached, discovered, eidTable, dActive, eid, uuid, matrix, dPc,
           target, left, unsent, subscribed, raced, failed, signals, faults>>
pVars == <<pPc, long, pQueue, cur, due, refreshed, young, renewed, read, created, pActive, ready,
           atPriority, reachable, checkable, service, disturbed, changes>>
eVars == <<program, client, at, answer, outcome, value>>
vars == <<dVars, pVars, eVars>>

D == INSTANCE Discovery_proofs
       WITH queue <- dQueue, active <- dActive, pc <- dPc, changes <- signals,
            MaxChanges <- MaxSignals
P == INSTANCE Polling_proofs
       WITH queue <- pQueue, active <- pActive, pc <- pPc, EarlyStart <- FALSE
E == INSTANCE Exchange_proofs

ASSUME DiscoveryAssumption == D!Assumptions
ASSUME PollingAssumption == P!Assumptions

Init == D!Init /\ P!Init /\ E!Init
Next ==
    \/ D!Next /\ UNCHANGED <<pVars, eVars>>
    \/ P!Next /\ UNCHANGED <<dVars, eVars>>
    \/ E!Next /\ UNCHANGED <<dVars, pVars>>
Spec == Init /\ [][Next]_vars

TypeOK == D!TypeOK /\ P!TypeOK /\ E!TypeOK

(* Discovery: a device is online only while the endpoint it came online    *)
(* with is enabled, but for the two ways around that that are named there. *)
OnlineIsEnabled == D!OnlineIsEnabled

(* Discovery: a device that is online has its commands and its UUID unless *)
(* a query failed, whatever updates overlapped.                            *)
UsableUnlessFailed == D!UsableUnlessFailed

(* Polling: the service is enabled only while every online device is       *)
(* ready, and every sensor in the queue of a ready device was updated      *)
(* since the device came online and since power returned, or at most the   *)
(* refresh limit before (doPollingTask skips those), but for sensors added *)
(* later and for devices that the GPIO signal found at a bad moment        *)
(* (disturbed).  nsmd starts to poll later than the limit after the boot.  *)
ReadinessIsTrue == P!ReadinessIsTrue

(* Polling: no sensor drops out of the circular queue before it was read.  *)
NoSensorForgotten == P!NoSensorForgotten

(* Exchange: what libnsm encodes, its decoders take, whichever object of   *)
(* nsmd or command of nsmtool asks, and whether the device or the mockup   *)
(* answers, but for the mockup's shortcomings that are named there.        *)
CleanExchangeSucceeds == E!CleanExchangeSucceeds

(* Exchange: a client that reports success has the whole value of the last *)
(* answer, unless the answer was cut short and its decoder is one of those *)
(* that ask for less than they read, or the client one of those that do    *)
(* not look at the decoder's result: both are named there.                 *)
SuccessMeansCurrent == E!SuccessMeansCurrent

(* Discovery: a device whose first endpoint stays listed as active comes   *)
(* online.                                                                 *)
IdentifiedGetsOnline == D!IdentifiedGetsOnline

(* Polling: a device that stays online becomes ready.                      *)
OnlineGetsReady == P!OnlineGetsReady
=============================================================================
