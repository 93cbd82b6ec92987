----------------------------- MODULE Discovery -----------------------------
(***************************************************************************)
(* Discovery of devices: requester/mctp_endpoint_discovery.cpp,            *)
(* nsmd/deviceManager.cpp, the part of doPollingTask that brings a device  *)
(* online, and nsmEvent/nsmRediscoveryEvent.cpp.                           *)
(*                                                                         *)
(* A signal says that an MCTP endpoint is enabled or disabled.  One        *)
(* coroutine pings and identifies the enabled ones in order and lists them.*)
(* The polling coroutine of a configured device that is not online looks   *)
(* for an endpoint in the list, asks it what it supports and calls it      *)
(* online.  A rediscovery event asks again, in a coroutine of its own.     *)
(*                                                                         *)
(* An endpoint has one UUID, a device may have several endpoints.  The     *)
(* signals come while any of the coroutines is suspended.                  *)
(***************************************************************************)
EXTENDS Integers, Sequences, FiniteSets, SequencesExt

CONSTANTS
    Eids,           \* endpoint IDs
    Uuids,          \* UUIDs of physical devices
    Devices,        \* configured devices: [type |-> , instance |-> ]
    UuidOf,         \* UuidOf[e]: the UUID of the device behind an endpoint
    Identity,       \* Identity[w]: type and instance number device w reports
    InstanceTable,  \* mapInstanceNumberToInstanceNumber, by device type
    UuidTable,      \* mapUuidToInstanceNumber
    EidTable,       \* mapEidToInstanceNumber
    MaxChanges,     \* bound: endpoint signals and rediscovery events
    MaxQueue,       \* bound: endpoints waiting for discovery
    MaxFaults       \* bound: requests to an enabled endpoint that fail

NoEid == 255        \* std::numeric_limits<uint8_t>::max()
NoUuid == "none"
EventType == 0      \* NSM_TYPE_DEVICE_CAPABILITY_DISCOVERY
InventoryType == 3  \* NSM_TYPE_PLATFORM_ENVIRONMENTAL
MsgTypes == {EventType, InventoryType}
Identities == [type : {i.type : i \in Devices}, instance : 0 .. 255]

EidAssumption == Eids \subseteq 0 .. 254
UuidAssumption == NoUuid \notin Uuids /\ UuidOf \in [Eids -> Uuids]
IdentityAssumption ==
    Devices \subseteq Identities /\ Identity \in [Uuids -> Identities]
DiscoveryBounds == MaxChanges \in Nat /\ MaxQueue \in Nat /\ MaxFaults \in Nat

Kinds == {"activation", "rediscovery"}

VARIABLES
    up,          \* endpoints that are enabled
    queue,       \* queuedMctpInfos; the head is being looked at
    stage,       \* what the discovery task awaits: "ping" or "identify"
    reached,     \* its request was sent to an enabled endpoint
    discovered,  \* discoveredEIDs: "unknown", "active" or "inactive"
    eidTable,    \* eidTable: the endpoints of each UUID as they were listed
    active,      \* devices with isDeviceActive
    eid,         \* NsmDevice::eid
    uuid,        \* NsmDevice::uuid
    matrix,      \* message types with entries in the command code matrix
    pc,          \* pc[d][k]: what an update of device d awaits
    target,      \* the eid it was called with
    left,        \* message types whose commands it has yet to ask for
    unsent,      \* devices whose static event sensor is still to be polled
    subscribed,  \* physical devices that send events to this nsmd
    raced,       \* endpoints disabled while an answer of theirs was in use
    failed,      \* devices an update failed to query
    changes,     \* signals and events so far
    faults       \* failures so far

taskVars == <<queue, stage, reached>>
listVars == <<discovered, eidTable>>
updateVars == <<pc, target, left>>
deviceVars == <<active, eid, uuid, matrix>>
eventVars == <<unsent, subscribed>>
vars == <<up, taskVars, listVars, updateVars, deviceVars, eventVars, raced, failed, changes, faults>>

Init ==
    /\ up = {}
    /\ queue = <<>>
    /\ stage = "ping"
    /\ reached = FALSE
    /\ discovered = [e \in Eids |-> "unknown"]
    /\ eidTable = [w \in Uuids |-> <<>>]
    /\ active = {}
    /\ eid = [d \in Devices |-> 0]
    /\ uuid = [d \in Devices |-> NoUuid]
    /\ matrix = [d \in Devices |-> {}]
    /\ pc = [d \in Devices |-> [k \in Kinds |-> "idle"]]
    /\ target = [d \in Devices |-> [k \in Kinds |-> NoEid]]
    /\ left = [d \in Devices |-> [k \in Kinds |-> {}]]
    /\ unsent = Devices
    /\ subscribed = {}
    /\ raced = {}
    /\ failed = {}
    /\ changes = 0
    /\ faults = 0

-----------------------------------------------------------------------------
(***************************************************************************)
(* Which endpoint is which device.                                         *)
(***************************************************************************)

\* Position of x in a table, counted from 0.
Positions(table, x) == {i \in 0 .. Len(table) - 1 : table[i + 1] = x /\ i < 255}

Lookup(table, x, default) ==
    IF Positions(table, x) = {} THEN default
    ELSE CHOOSE i \in Positions(table, x) : \A j \in Positions(table, x) : i <= j

(* remapInstanceNumber: the first table that has entries for the type.     *)
RemapInstanceNumber(type, e) ==
    LET inst == Identity[UuidOf[e]].instance
    IN  IF InstanceTable[type] # <<>> THEN Lookup(InstanceTable[type], inst, inst)
        ELSE IF UuidTable[type] # <<>> THEN Lookup(UuidTable[type], UuidOf[e], inst)
        ELSE Lookup(EidTable[type], e, inst)

IsDevice(e, d) ==
    /\ Identity[UuidOf[e]].type = d.type
    /\ RemapInstanceNumber(d.type, e) = d.instance

EidsOf == [d \in Devices |-> {e \in Eids : IsDevice(e, d)}]
Listed(d) == {e \in EidsOf[d] : discovered[e] # "unknown"}

\* Mutant of Matched: counts every endpoint, not one of each UUID.
MatchedAll(d) == Listed(d)

(* discoveredEIDs is ordered by EID; an endpoint counts if the one counted *)
(* before it has another UUID.                                             *)
Matched(d) ==
    {e \in Listed(d) : \A f \in Listed(d) :
        f < e /\ (\A g \in Listed(d) : g < e => g <= f) => UuidOf[f] # UuidOf[e]}

SearchEid(d) ==
    LET found == {e \in Matched(d) : Matched(d) = {e} /\ discovered[e] = "active"}
    IN  IF found = {} THEN NoEid ELSE CHOOSE e \in found : TRUE

(* getUUIDFromEID, findNsmDeviceByUUID and getEidFromUUID.  The first      *)
(* device of the table that has the UUID is found; which one that is, if   *)
(* there are several, is left open.                                        *)
Known(e) == \E i \in DOMAIN eidTable[UuidOf[e]] : eidTable[UuidOf[e]][i] = e
WithUuid(w) == {d \in Devices : uuid[d] = w}
FindByUuid(w) == {d \in WithUuid(w) : d = CHOOSE c \in WithUuid(w) : TRUE}
GetEid(d) ==
    IF uuid[d] = NoUuid \/ eidTable[uuid[d]] = <<>> THEN NoEid ELSE Head(eidTable[uuid[d]])

Quiet(d) == \A k \in Kinds : pc[d][k] = "idle"

(* A request ends well only at an endpoint that answers.                   *)
Lost(e) ==
    \/ e \notin up /\ UNCHANGED faults
    \/ e \in up /\ faults < MaxFaults /\ faults' = faults + 1

\* The endpoints of a UUID are not configured as different devices.
OneDevicePerUuid ==
    \A d, c \in Devices : \A e \in EidsOf[d], f \in EidsOf[c] : UuidOf[e] = UuidOf[f] => d = c

-----------------------------------------------------------------------------
(***************************************************************************)
(* Signals.                                                                *)
(***************************************************************************)

\* InterfacesAdded, or Enabled became TRUE; also what the constructor finds.
EndpointUp(e) ==
    /\ e \notin up
    /\ changes < MaxChanges /\ changes' = changes + 1
    /\ Len(queue) < MaxQueue
    /\ up' = up \union {e}
    /\ queue' = Append(queue, e)
    /\ reached' = IF queue = <<>> THEN TRUE ELSE reached   \* sends the ping
    /\ raced' = raced \ {e}
    /\ UNCHANGED <<stage, listVars, updateVars, deviceVars, eventVars, failed, faults>>

(* An answer of e is in use: one that identifies it may be on its way, or  *)
(* its device is about to be called online.                                *)
InUse(e) ==
    \/ queue # <<>> /\ Head(queue) = e /\ stage = "identify" /\ reached
    \/ \E d \in Devices : pc[d]["activation"] # "idle" /\ target[d]["activation"] = e

\* Mutant of TakenOffline: compares with the EID the device came online with.
TakenOfflineByEid(e) == {d \in active : eid[d] = e /\ Head(eidTable[UuidOf[e]]) = e}

(* offlineMctpEndpoint finds the device by its UUID: setOffline.           *)
TakenOffline(e) == FindByUuid(UuidOf[e])

(* Enabled became FALSE.  A device without endpoints forgets who           *)
(* subscribed to its events.                                               *)
EndpointDown(e) ==
    /\ e \in up
    /\ changes < MaxChanges /\ changes' = changes + 1
    /\ up' = up \ {e}
    /\ discovered' = [discovered EXCEPT ![e] = IF @ = "unknown" THEN @ ELSE "inactive"]
    /\ active' = active \ TakenOffline(e)
    /\ raced' = IF InUse(e) THEN raced \union {e} ELSE raced \ {e}
    /\ subscribed' = IF \E f \in up' : UuidOf[f] = UuidOf[e]
                     THEN subscribed ELSE subscribed \ {UuidOf[e]}
    /\ UNCHANGED <<taskVars, eidTable, updateVars, eid, uuid, matrix, unsent, failed, faults>>

-----------------------------------------------------------------------------
(***************************************************************************)
(* discoverNsmDeviceTask.  An answer that was on its way is handed over    *)
(* even if the endpoint has been disabled since.                           *)
(***************************************************************************)

NextEndpoint ==
    /\ queue' = Tail(queue)
    /\ stage' = "ping"
    /\ reached' = (Len(queue) > 1 /\ queue[2] \in up)

PingAnswered ==
    /\ queue # <<>> /\ stage = "ping"
    /\ reached \/ Head(queue) \in up
    /\ stage' = "identify"
    /\ reached' = (Head(queue) \in up)
    /\ UNCHANGED <<up, queue, listVars, updateVars, deviceVars, eventVars, raced, failed, changes,
                   faults>>

Identified ==
    /\ queue # <<>> /\ stage = "identify"
    /\ reached \/ Head(queue) \in up
    /\ LET e == Head(queue) IN
        /\ discovered' = [discovered EXCEPT ![e] = "active"]
        /\ eidTable' = [eidTable EXCEPT ![UuidOf[e]] = IF Known(e) THEN @ ELSE Append(@, e)]
    /\ NextEndpoint
    /\ UNCHANGED <<up, updateVars, deviceVars, eventVars, raced, failed, changes, faults>>

NotIdentified ==
    /\ queue # <<>>
    /\ Lost(Head(queue))
    /\ NextEndpoint
    /\ UNCHANGED <<up, listVars, updateVars, deviceVars, eventVars, raced, failed, changes>>

-----------------------------------------------------------------------------
(***************************************************************************)
(* updateNsmDevice, run by the polling coroutine (activation) or detached  *)
(* (rediscovery).                                                          *)
(***************************************************************************)

StartUpdate(d, k, e) ==
    /\ matrix' = [matrix EXCEPT ![d] = {}]
    /\ pc' = [pc EXCEPT ![d][k] = "types"]
    /\ target' = [target EXCEPT ![d][k] = e]
    /\ left' = [left EXCEPT ![d][k] = {}]
    /\ failed' = IF Quiet(d) THEN failed \ {d} ELSE failed

(* The return of updateNsmDevice; whatever it returns, the polling         *)
(* coroutine calls setOnline.                                              *)
Finish(d, k) ==
    /\ pc' = [pc EXCEPT ![d][k] = "idle"]
    /\ active' = IF k = "activation" THEN active \union {d} ELSE active

\* Mutant of Activate: takes the EID that polling uses.
ActivateWithPolledEid(d) ==
    /\ pc[d]["activation"] = "idle" /\ d \notin active
    /\ SearchEid(d) # NoEid
    /\ eid' = [eid EXCEPT ![d] = SearchEid(d)]
    /\ StartUpdate(d, "activation", GetEid(d))
    /\ UNCHANGED <<up, taskVars, listVars, active, uuid, eventVars, raced, changes, faults>>

Activate(d) ==
    /\ pc[d]["activation"] = "idle" /\ d \notin active
    /\ SearchEid(d) # NoEid
    /\ eid' = [eid EXCEPT ![d] = SearchEid(d)]
    /\ StartUpdate(d, "activation", SearchEid(d))
    /\ UNCHANGED <<up, taskVars, listVars, active, uuid, eventVars, raced, changes, faults>>

(* A rediscovery event is delegated to the device with the UUID of its     *)
(* endpoint.  At most one such update at a time is modelled.               *)
Rediscover(e, d) ==
    /\ e \in up /\ Known(e) /\ d \in FindByUuid(UuidOf[e])
    /\ pc[d]["rediscovery"] = "idle"
    /\ changes < MaxChanges /\ changes' = changes + 1
    /\ StartUpdate(d, "rediscovery", e)
    /\ UNCHANGED <<up, taskVars, listVars, active, eid, uuid, eventVars, raced, faults>>

(* getSupportedNvidiaMessageType.                                          *)
TypesAnswered(d, k) ==
    /\ pc[d][k] = "types" /\ target[d][k] \in up
    /\ pc' = [pc EXCEPT ![d][k] = "codes"]
    /\ left' = [left EXCEPT ![d][k] = MsgTypes]
    /\ UNCHANGED <<up, taskVars, listVars, target, deviceVars, eventVars, raced, failed, changes,
                   faults>>

TypesFailed(d, k) ==
    /\ pc[d][k] = "types" /\ Lost(target[d][k])
    /\ failed' = failed \union {d}
    /\ Finish(d, k)
    /\ UNCHANGED <<up, taskVars, listVars, target, left, eid, uuid, matrix, eventVars, raced,
                   changes>>

(* SensorManagerImpl::SendRecvNsmMsg sends nothing to a device that is not *)
(* online or does not have the command.                                    *)
MaySend(d, type, supported) == d \in active /\ type \in supported

(* The end of updateFruDeviceIntf, then the capabilityRefreshSensors, here *)
(* the one that sets the event subscription.                               *)
AfterInventory(d, k, supported) ==
    /\ uuid' = [uuid EXCEPT ![d] = IF Known(target[d][k]) THEN UuidOf[target[d][k]] ELSE @]
    /\ \/ /\ MaySend(d, EventType, supported)
          /\ pc' = [pc EXCEPT ![d][k] = "refresh"]
          /\ UNCHANGED active
       \/ /\ ~MaySend(d, EventType, supported)
          /\ Finish(d, k)

\* Mutant of AddCodes: each message type starts from an empty matrix.
AddCodesAfterReset(d, type) == {type}

AddCodes(d, type) == matrix[d] \union {type}

(* getSupportedCommandCodes of one message type; after the last one the    *)
(* inventory is read if the device has the command.                        *)
CodesDone(d, k, type, supported) ==
    /\ pc[d][k] = "codes"
    /\ type \in left[d][k] /\ \A t \in left[d][k] : type <= t
    /\ matrix' = [matrix EXCEPT ![d] = supported]
    /\ left' = [left EXCEPT ![d][k] = @ \ {type}]
    /\ \/ left[d][k] # {type} /\ UNCHANGED <<pc, active, uuid>>
       \/ /\ left[d][k] = {type} /\ InventoryType \in supported
          /\ pc' = [pc EXCEPT ![d][k] = "inventory"]
          /\ UNCHANGED <<active, uuid>>
       \/ /\ left[d][k] = {type} /\ InventoryType \notin supported
          /\ AfterInventory(d, k, supported)
    /\ UNCHANGED <<up, taskVars, listVars, target, eid, eventVars, raced, changes>>

CodesAnswered(d, k) ==
    /\ target[d][k] \in up
    /\ \E type \in left[d][k] : CodesDone(d, k, type, AddCodes(d, type))
    /\ UNCHANGED <<failed, faults>>

CodesFailed(d, k) ==
    /\ Lost(target[d][k])
    /\ \E type \in left[d][k] : CodesDone(d, k, type, matrix[d])
    /\ failed' = failed \union {d}

(* getFRU reads what it can; its failures are not reported.                *)
InventoryRead(d, k) ==
    /\ pc[d][k] = "inventory"
    /\ AfterInventory(d, k, matrix[d])
    /\ UNCHANGED <<up, taskVars, listVars, target, left, eid, matrix, eventVars, raced, failed,
                   changes, faults>>

RefreshAnswered(d, k) ==
    /\ pc[d][k] = "refresh" /\ target[d][k] \in up
    /\ subscribed' = subscribed \union {UuidOf[target[d][k]]}
    /\ Finish(d, k)
    /\ UNCHANGED <<up, taskVars, listVars, target, left, eid, uuid, matrix, unsent, raced, failed,
                   changes, faults>>

RefreshFailed(d, k) ==
    /\ pc[d][k] = "refresh" /\ Lost(target[d][k])
    /\ Finish(d, k)
    /\ UNCHANGED <<up, taskVars, listVars, target, left, eid, uuid, matrix, eventVars, raced,
                   failed, changes>>

(* The polling loop updates the static event sensor, which leaves the      *)
(* round-robin queue when it succeeds.  A failure changes nothing.         *)
PollEventSensor(d) ==
    /\ d \in unsent /\ pc[d]["activation"] = "idle"
    /\ MaySend(d, EventType, matrix[d])
    /\ GetEid(d) \in up
    /\ unsent' = unsent \ {d}
    /\ subscribed' = subscribed \union {uuid[d]}
    /\ UNCHANGED <<up, taskVars, listVars, updateVars, deviceVars, raced, failed, changes, faults>>

-----------------------------------------------------------------------------
TaskStep == PingAnswered \/ Identified \/ NotIdentified

UpdateStep(d, k) ==
    \/ TypesAnswered(d, k) \/ TypesFailed(d, k)
    \/ CodesAnswered(d, k) \/ CodesFailed(d, k)
    \/ InventoryRead(d, k)
    \/ RefreshAnswered(d, k) \/ RefreshFailed(d, k)

\* The polling coroutine of a device.
PollingStep(d) == Activate(d) \/ UpdateStep(d, "activation") \/ PollEventSensor(d)

Next ==
    \/ \E e \in Eids : EndpointUp(e) \/ EndpointDown(e)
    \/ TaskStep
    \/ \E d \in Devices :
          \/ PollingStep(d)
          \/ \E e \in Eids : Rediscover(e, d)
          \/ UpdateStep(d, "rediscovery")

Spec == Init /\ [][Next]_vars

(* Every request ends (Requester!EveryRequestEnds), so the coroutines go   *)
(* on.  Nothing is assumed of endpoints and events.                        *)
FairSpec ==
    /\ Spec
    /\ WF_vars(TaskStep)
    /\ \A d \in Devices :
          WF_vars(PollingStep(d)) /\ WF_vars(UpdateStep(d, "rediscovery"))

-----------------------------------------------------------------------------
TypeOK ==
    /\ up \subseteq Eids /\ raced \subseteq Eids
    /\ queue \in Seq(Eids) /\ Len(queue) <= MaxQueue
    /\ stage \in {"ping", "identify"}
    /\ reached \in BOOLEAN
    /\ discovered \in [Eids -> {"unknown", "active", "inactive"}]
    /\ eidTable \in [Uuids -> Seq(Eids)]
    /\ active \subseteq Devices /\ unsent \subseteq Devices /\ failed \subseteq Devices
    /\ eid \in [Devices -> Eids \union {0}]
    /\ uuid \in [Devices -> Uuids \union {NoUuid}]
    /\ matrix \in [Devices -> SUBSET MsgTypes]
    /\ pc \in [Devices -> [Kinds -> {"idle", "types", "codes", "inventory", "refresh"}]]
    /\ target \in [Devices -> [Kinds -> Eids \union {NoEid}]]
    /\ \A d \in Devices, k \in Kinds : pc[d][k] # "idle" => target[d][k] # NoEid
    /\ left \in [Devices -> [Kinds -> SUBSET MsgTypes]]
    /\ subscribed \subseteq Uuids
    /\ changes \in 0 .. MaxChanges /\ faults \in 0 .. MaxFaults

(* A device is online only while the endpoint it came online with is       *)
(* enabled.  There are two ways around that: the endpoint was disabled     *)
(* while its answer was in use (setOnline does not look again), or the     *)
(* device never learnt its UUID, by which offlineMctpEndpoint finds it.    *)
OnlineIsEnabled ==
    \A d \in active : eid[d] \in up \union raced \/ uuid[d] = NoUuid

(* When no update is under way, a device that is online has all its        *)
(* commands and its UUID, unless a query failed since the first of the     *)
(* last overlapping updates began: two updates that overlap do not undo    *)
(* each other.                                                             *)
UsableUnlessFailed ==
    \A d \in active \ failed : Quiet(d) => matrix[d] = MsgTypes /\ uuid[d] # NoUuid

(* A device whose first endpoint was identified and stays listed as active *)
(* comes online, whatever fails on the way.                                *)
FirstIsActive(d) ==
    \E e \in Listed(d) :
        /\ discovered[e] = "active"
        /\ \A f \in Listed(d) : e <= f /\ UuidOf[f] = UuidOf[e]

IdentifiedGetsOnline ==
    \A d \in Devices : FirstIsActive(d) ~> (d \in active \/ ~FirstIsActive(d))

(* A device that is online and reachable sends its events to nsmd again:   *)
(* the capabilityRefreshSensors are updated whenever the capabilities are. *)
(* The code does not do that: see the README and Discovery_events.cfg.     *)
SubscribedAgain ==
    \A d \in Devices :
        LET Reachable == d \in active \ failed /\ eid[d] \in up
        IN  Reachable ~> (uuid[d] \in subscribed \/ ~Reachable)
=============================================================================
