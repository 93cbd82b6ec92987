------------------------------ MODULE Polling ------------------------------
(***************************************************************************)
(* Polling and readiness: nsmd/sensorManager.cpp with the queues of        *)
(* nsmDevice.cpp, globalPollingStateManager.hpp, nsmReady.cpp and          *)
(* nsmServiceReadyInterface.hpp.                                           *)
(*                                                                         *)
(* Each device has a coroutine that never ends.  In every interval it      *)
(* updates the priority sensors, then as many sensors of a circular queue  *)
(* as there is time for; those that were updated within the refresh limit  *)
(* (30 s by meson_options.txt) are skipped.  Static sensors leave the      *)
(* queue once they were read.  A device is ready when the queue has gone   *)
(* around; the service is enabled when every device that is online is      *)
(* ready.  A second coroutine updates the long-running sensors while no    *)
(* device is at its priority sensors.                                      *)
(*                                                                         *)
(* While a coroutine waits, endpoints come and go, sensors are added, and  *)
(* a GPIO may say that the devices got power.                              *)
(***************************************************************************)
EXTENDS Integers, Sequences, FiniteSets, SequencesExt

CONSTANTS
    Devices,
    Sensors,      \* the sensors of the round-robin queues
    SensorsOf,    \* SensorsOf[d]: those of device d
    Configured,   \* the sensors that are there from the beginning
    Static,       \* sensors that are read once
    StandbyToDc,  \* static sensors that are read again after the GPIO
    EarlyStart,   \* nsmd starts within the refresh limit after the boot
    Priority,     \* devices with priority sensors
    LongRunning,  \* devices with a long-running sensor
    NoSensor,
    MaxChanges    \* bound: endpoints that come, new sensors and GPIO signals

SensorsAssumption ==
    /\ SensorsOf \in [Devices -> SUBSET Sensors]
    /\ \A d, c \in Devices : d # c => SensorsOf[d] \intersect SensorsOf[c] = {}
    /\ NoSensor \notin Sensors
    /\ IsFiniteSet(Sensors)
KindsAssumption ==
    /\ Configured \subseteq Sensors /\ Static \subseteq Sensors
    /\ StandbyToDc \subseteq Static /\ EarlyStart \in BOOLEAN
    /\ Priority \subseteq Devices /\ LongRunning \subseteq Devices
ChangesAssumption == MaxChanges \in Nat

VARIABLES
    pc,         \* where the polling coroutine of a device is suspended
    long,       \* where its long-running coroutine is
    queue,      \* roundRobinSensors
    cur,        \* the sensor of that queue that is being updated
    due,        \* toBeUpdated
    refreshed,  \* sensors with isRefreshed
    young,      \* sensors whose lastUpdatedTimeStampInUsec may be within the limit
    renewed,    \* history: sensors updated since their device came online and
                \* since the GPIO signal, or within the limit before it
    read,       \* static sensors whose last update succeeded
    created,    \* sensors added so far
    active,     \* devices with isDeviceActive
    ready,      \* devices with isDeviceReady
    atPriority, \* devices with devicePollingState POLL_PRIORITY
    reachable,  \* devices for which searchEID finds an endpoint
    checkable,  \* isReadyForReadinessCheck
    service,    \* state of the service: "Starting" or "Enabled"
    disturbed,  \* devices that the last GPIO signal found at their queue, or
                \* whose queue holds a sensor twice since; until they come online
                \* again, with a queue that holds each sensor once
    changes

queueVars == <<queue, cur, due, refreshed, young, renewed, read>>
readyVars == <<ready, service>>
vars == <<pc, long, queueVars, created, active, readyVars, atPriority, reachable, checkable,
          disturbed, changes>>

(* INIT_TIMESTAMP is the time of the boot: a sensor that was never updated *)
(* counts as updated then.                                                 *)
Init ==
    /\ pc = [d \in Devices |-> "none"]
    /\ long = [d \in Devices |-> "none"]
    /\ queue = [d \in Devices |-> SetToSeq(Configured \intersect SensorsOf[d])]
    /\ cur = [d \in Devices |-> NoSensor]
    /\ due = [d \in Devices |-> 0]
    /\ refreshed = {} /\ renewed = {} /\ read = {}
    /\ young = IF EarlyStart THEN Sensors ELSE {}
    /\ created = Configured
    /\ active = {} /\ ready = {} /\ atPriority = {} /\ reachable = {}
    /\ checkable = FALSE
    /\ service = "Starting"
    /\ disturbed = {}
    /\ changes = 0

Queued(d) == ToSet(queue[d])
Ours(d) == created \intersect SensorsOf[d]
AtItsQueue(d) == pc[d] \in {"updating", "throttled"}
HoldsTwice(q) == \E i, j \in DOMAIN q : i # j /\ q[i] = q[j]

-----------------------------------------------------------------------------
(***************************************************************************)
(* What happens around the coroutines.                                     *)
(***************************************************************************)

(* interfaceAddedTask: a sensor is made for a configuration and added.     *)
AddSensor(d, s) ==
    /\ s \in SensorsOf[d] \ created
    /\ changes < MaxChanges /\ changes' = changes + 1
    /\ created' = created \union {s}
    /\ queue' = [queue EXCEPT ![d] = Append(@, s)]
    /\ UNCHANGED <<pc, long, cur, due, refreshed, young, renewed, read, active, readyVars,
                   atPriority, reachable, checkable, disturbed>>

(* Its deferred _startPolling: a coroutine that runs is left alone.        *)
StartPolling(d) ==
    /\ pc[d] = "none"
    /\ pc' = [pc EXCEPT ![d] = "top"]
    /\ long' = [long EXCEPT ![d] = "top"]
    /\ UNCHANGED <<queueVars, created, active, readyVars, atPriority, reachable, checkable,
                   disturbed, changes>>

EndpointUp(d) ==
    /\ d \notin reachable
    /\ changes < MaxChanges /\ changes' = changes + 1
    /\ reachable' = reachable \union {d}
    /\ UNCHANGED <<pc, long, queueVars, created, active, readyVars, atPriority, checkable,
                   disturbed>>

(* setOffline.                                                             *)
EndpointDown(d) ==
    /\ d \in reachable
    /\ reachable' = reachable \ {d}
    /\ active' = active \ {d}
    /\ UNCHANGED <<pc, long, queueVars, created, readyVars, atPriority, checkable, disturbed,
                   changes>>

(* A new round begins for the sensors of S.  Their time stamps are left    *)
(* alone: here it is told which of them are beyond the limit by now, in    *)
(* any order, which is more than time does.                                *)
NewRound(S) ==
    /\ \E old \in SUBSET (young \intersect S) : young' = young \ old
    /\ renewed' = renewed \ (S \ young')

(* gpioStatusPropertyChangedHandler: from standby to DC power.  A sensor   *)
(* that is still in the queue is put there a second time.                  *)
PowerGood ==
    /\ changes < MaxChanges /\ changes' = changes + 1
    /\ service' = "Starting"
    /\ ready' = {}
    /\ LET again == (UNION {Queued(d) : d \in Devices}) \union (created \intersect StandbyToDc) IN
           refreshed' = refreshed \ again /\ NewRound(again)
    /\ queue' = [d \in Devices |-> queue[d] \o SetToSeq(Ours(d) \intersect StandbyToDc)]
    /\ disturbed' = {d \in Devices : AtItsQueue(d) \/ HoldsTwice(queue'[d])}
    /\ UNCHANGED <<pc, long, cur, due, read, created, active, atPriority, reachable, checkable>>

(* isNSMPollReady, once markEMReady and mctpReadinessSigHandler have both  *)
(* called it.                                                              *)
PollReady ==
    /\ ~checkable /\ checkable' = TRUE
    /\ UNCHANGED <<pc, long, queueVars, created, active, readyVars, atPriority, reachable,
                   disturbed, changes>>

-----------------------------------------------------------------------------
(***************************************************************************)
(* doPollingTask.  A step is what the coroutine does between two           *)
(* suspensions.                                                            *)
(***************************************************************************)

(* The device becomes ready; checkAllDevicesReady.                         *)
MarkReady(d) ==
    /\ d \notin ready /\ checkable
    /\ ready' = ready \union {d}
    /\ service' = IF active \subseteq ready' THEN "Enabled" ELSE service

MayMarkReady(d) == MarkReady(d) \/ ((d \in ready \/ ~checkable) /\ UNCHANGED readyVars)

\* Mutant of Throttled: a device that is not ready gives way too.
ThrottledAlways(d, others) == others # {}

Throttled(d, others) == others # {} /\ d \in ready

(* needsUpdate is FALSE: every sensor has the same limit, and neither      *)
(* setOnline nor the GPIO signal touches the time stamp.  A sensor that    *)
(* may be skipped need not be, when it is beyond the limit by now.         *)
MaySkip(s, stamps) == s \in stamps

EndInterval(d) ==
    /\ pc' = [pc EXCEPT ![d] = "asleep"]
    /\ cur' = [cur EXCEPT ![d] = NoSensor]
    /\ due' = [due EXCEPT ![d] = 0]

(* The round-robin loop up to its next suspension, with n sensors due of   *)
(* the queue q: k of them are skipped, then the time is over, or all have  *)
(* had their turn, or the device gives way, or the next one is updated.    *)
RoundRobin(d, q, n, others, fresh, stamps, timeLeft) ==
    \E k \in 0 .. n :
        /\ \A i \in 1 .. k : MaySkip(q[i], stamps)
        /\ Throttled(d, others) => k = 0
        /\ LET r == SubSeq(q, k + 1, Len(q)) \o SubSeq(q, 1, k) IN
            \/ /\ ~timeLeft
               /\ queue' = [queue EXCEPT ![d] = r]
               /\ EndInterval(d)
               /\ UNCHANGED readyVars
            \/ /\ timeLeft /\ k = n
               /\ queue' = [queue EXCEPT ![d] = r]
               /\ EndInterval(d)
               /\ MayMarkReady(d)
            \/ /\ timeLeft /\ k < n /\ Throttled(d, others)
               /\ queue' = [queue EXCEPT ![d] = r]
               /\ pc' = [pc EXCEPT ![d] = "throttled"]
               /\ cur' = [cur EXCEPT ![d] = NoSensor]
               /\ due' = [due EXCEPT ![d] = n]
               /\ UNCHANGED readyVars
            \/ /\ timeLeft /\ k < n /\ ~Throttled(d, others)
               /\ queue' = [queue EXCEPT ![d] = Tail(r)]
               /\ pc' = [pc EXCEPT ![d] = "updating"]
               /\ cur' = [cur EXCEPT ![d] = Head(r)]
               /\ due' = [due EXCEPT ![d] = n - k - 1]
               /\ IF Head(r) \in fresh THEN MayMarkReady(d) ELSE UNCHANGED readyVars

(* The head of the loop, for a device that is not online.                  *)
LookForEndpoint(d) ==
    /\ pc[d] \in {"top", "inactive", "asleep"} /\ d \notin active
    /\ pc' = [pc EXCEPT ![d] = IF d \in reachable THEN "activating" ELSE "inactive"]
    /\ UNCHANGED <<long, queueVars, created, active, readyVars, atPriority, reachable, checkable,
                   disturbed, changes>>

\* Mutant of SetOnline: the sensors stay refreshed.
SetOnlineStale(d) ==
    /\ active' = active \union {d}
    /\ ready' = ready \ {d}
    /\ service' = "Starting"
    /\ NewRound(Queued(d))
    /\ UNCHANGED refreshed

SetOnline(d) ==
    /\ active' = active \union {d}
    /\ ready' = ready \ {d}
    /\ service' = "Starting"
    /\ refreshed' = refreshed \ Queued(d) /\ NewRound(Queued(d))

(* updateNsmDevice has returned (see Discovery); the endpoint may have     *)
(* been disabled in the meantime.                                          *)
Activated(d) ==
    /\ pc[d] = "activating"
    /\ SetOnline(d)
    /\ disturbed' = IF HoldsTwice(queue[d]) THEN disturbed ELSE disturbed \ {d}
    /\ pc' = [pc EXCEPT ![d] = "top"]
    /\ UNCHANGED <<long, queue, cur, due, read, created, atPriority, reachable, checkable,
                   changes>>

(* The head of the loop, for a device that is online.                      *)
BeginInterval(d, timeLeft) ==
    /\ pc[d] \in {"top", "inactive", "asleep"} /\ d \in active
    /\ \/ /\ d \in Priority
          /\ atPriority' = atPriority \union {d}
          /\ pc' = [pc EXCEPT ![d] = "priority"]
          /\ UNCHANGED <<queue, cur, due, readyVars>>
       \/ /\ d \notin Priority
          /\ RoundRobin(d, queue[d], Len(queue[d]), atPriority, refreshed, young, timeLeft)
          /\ UNCHANGED atPriority
    /\ UNCHANGED <<long, refreshed, young, renewed, read, created, active, reachable, checkable,
                   disturbed, changes>>

PriorityDone(d, timeLeft) ==
    /\ pc[d] = "priority"
    /\ atPriority' = atPriority \ {d}
    /\ RoundRobin(d, queue[d], Len(queue[d]), atPriority', refreshed, young, timeLeft)
    /\ UNCHANGED <<long, refreshed, young, renewed, read, created, active, reachable, checkable,
                   disturbed, changes>>

Unthrottle(d, timeLeft) ==
    /\ pc[d] = "throttled"
    /\ RoundRobin(d, queue[d], due[d], atPriority, refreshed, young, timeLeft)
    /\ UNCHANGED <<long, refreshed, young, renewed, read, created, active, atPriority, reachable,
                   checkable, disturbed, changes>>

\* Mutant of Requeue: a static sensor leaves whether or not it was read.
RequeueDynamic(s, success, q) == IF s \in Static THEN q ELSE Append(q, s)

Requeue(s, success, q) == IF s \in Static /\ success THEN q ELSE Append(q, s)

(* The update of a sensor ends; it fails at a device that is offline.      *)
UpdateDone(d, success, timeLeft) ==
    /\ pc[d] = "updating"
    /\ success => d \in active \intersect reachable
    /\ refreshed' = refreshed \union {cur[d]}
    /\ young' = young \union {cur[d]} /\ renewed' = renewed \union {cur[d]}
    /\ read' = IF success THEN read \union ({cur[d]} \intersect Static) ELSE read \ {cur[d]}
    /\ RoundRobin(d, Requeue(cur[d], success, queue[d]), due[d], atPriority, refreshed', young',
                  timeLeft)
    /\ UNCHANGED <<long, created, active, atPriority, reachable, checkable, disturbed, changes>>

-----------------------------------------------------------------------------
(***************************************************************************)
(* doPollingTaskLongRunning, with at most one sensor.                      *)
(***************************************************************************)

LongBegins(d) ==
    /\ long[d] \in {"top", "asleep"}
    /\ d \in active \intersect LongRunning
    /\ long' = [long EXCEPT ![d] = "waiting"]
    /\ UNCHANGED <<pc, queueVars, created, active, readyVars, atPriority, reachable, checkable,
                   disturbed, changes>>

(* It may have been waiting since its device went offline.                 *)
LongUpdates(d) ==
    /\ long[d] = "waiting" /\ atPriority = {}
    /\ long' = [long EXCEPT ![d] = "updating"]
    /\ UNCHANGED <<pc, queueVars, created, active, readyVars, atPriority, reachable, checkable,
                   disturbed, changes>>

LongDone(d) ==
    /\ long[d] = "updating"
    /\ long' = [long EXCEPT ![d] = "asleep"]
    /\ UNCHANGED <<pc, queueVars, created, active, readyVars, atPriority, reachable, checkable,
                   disturbed, changes>>

-----------------------------------------------------------------------------
PollingStep(d, timeLeft) ==
    \/ BeginInterval(d, timeLeft) \/ PriorityDone(d, timeLeft) \/ Unthrottle(d, timeLeft)
    \/ \E success \in BOOLEAN : UpdateDone(d, success, timeLeft)

Coroutine(d) ==
    \/ StartPolling(d) \/ LookForEndpoint(d) \/ Activated(d)
    \/ \E timeLeft \in BOOLEAN : PollingStep(d, timeLeft)

LongStep(d) == LongBegins(d) \/ LongUpdates(d) \/ LongDone(d)

Next ==
    \/ \E d \in Devices :
          \/ Coroutine(d) \/ LongStep(d)
          \/ EndpointUp(d) \/ EndpointDown(d)
          \/ \E s \in Sensors : AddSensor(d, s)
    \/ PowerGood \/ PollReady

Spec == Init /\ [][Next]_vars

\* The queue's part of an interval begins, with time left.
RoundBegins(d) ==
    IF d \in Priority THEN PriorityDone(d, TRUE) ELSE BeginInterval(d, TRUE)

(* Updates end and timers fire, so the coroutines go on.  Of the intervals *)
(* of a device, infinitely many leave time for a sensor of the queue.      *)
FairSpec ==
    /\ Spec
    /\ \A d \in Devices : WF_vars(Coroutine(d)) /\ SF_vars(RoundBegins(d))

-----------------------------------------------------------------------------
TypeOK ==
    /\ pc \in [Devices -> {"none", "top", "inactive", "activating", "priority", "updating",
                           "throttled", "asleep"}]
    /\ long \in [Devices -> {"none", "top", "waiting", "updating", "asleep"}]
    /\ \A d \in Devices :
        /\ Queued(d) \subseteq SensorsOf[d]
        /\ cur[d] \in SensorsOf[d] \union {NoSensor}
        /\ (cur[d] # NoSensor) = (pc[d] = "updating")
        /\ due[d] \in 0 .. Len(queue[d])
    /\ refreshed \subseteq created /\ renewed \subseteq created /\ read \subseteq created
    /\ created \subseteq Sensors /\ young \subseteq Sensors
    /\ active \subseteq Devices /\ ready \subseteq Devices /\ atPriority \subseteq Devices
    /\ reachable \subseteq Devices /\ disturbed \subseteq Devices
    /\ checkable \in BOOLEAN
    /\ service \in {"Starting", "Enabled"}
    /\ changes \in 0 .. MaxChanges

(* The service is enabled only while every device that is online is ready. *)
EnabledMeansReady == service = "Enabled" => active \subseteq ready

(* No sensor is forgotten: a sensor is in the queue of its device or being *)
(* updated, or it is static and was read.  A sensor that is not static is  *)
(* in one place only.                                                      *)
Places(d, s) ==
    Cardinality({i \in DOMAIN queue[d] : queue[d][i] = s}) + (IF cur[d] = s THEN 1 ELSE 0)

NoSensorForgotten ==
    \A d \in Devices : \A s \in Ours(d) :
        /\ Places(d, s) = 0 => s \in Static \intersect read
        /\ s \notin Static => Places(d, s) = 1

(* A device that is ready has had every sensor of its queue updated since  *)
(* it came online and since the GPIO signal, or no longer than the refresh *)
(* limit before it: the round skips such a sensor, whose value is then     *)
(* from before.  Not so for sensors added later and for the devices of     *)
(* disturbed: a sensor that is in the queue twice is met again before the  *)
(* others had their turn, and counts as the end of the round.  Nor is it   *)
(* so with EarlyStart: Polling_early.cfg.                                  *)
IsRenewed(s) == s \in Configured => s \in renewed

ReadyMeansRenewed == \A d \in ready \ disturbed : \A s \in Queued(d) : IsRenewed(s)

ReadinessIsTrue == EnabledMeansReady /\ ReadyMeansRenewed

(* The first refreshed sensor marks a complete iteration of the queue      *)
(* (sensorManager.cpp:762).  Not so in the code after a GPIO signal: see   *)
(* the README and Polling_rounds.cfg.                                      *)
RoundMeansRenewed == \A d \in ready : \A s \in Queued(d) : IsRenewed(s)

(* A device that is ready was able to update all sensors in one iteration  *)
(* (sensorManager.cpp:727).  Not so in the code, for a device that is back *)
(* within the refresh limit: see the README and Polling_skipped.cfg.       *)
ReadyMeansRefreshed ==
    \A d \in ready \ disturbed : \A s \in Queued(d) \intersect Configured : s \in refreshed

(* A device that stays online becomes ready.                               *)
OnlineGetsReady ==
    \A d \in Devices : (d \in active /\ checkable) ~> (d \in ready \/ d \notin active)

(* When every device that is online is and stays ready, the service is     *)
(* enabled.  Not so in the code when the last device that was not ready    *)
(* goes offline: see the README and Polling_stuck.cfg.                     *)
AllReady == checkable /\ active \subseteq ready /\ active # {}
ServiceSettles == AllReady ~> (service = "Enabled" \/ ~AllReady)
=============================================================================
