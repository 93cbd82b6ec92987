-------------------------- MODULE Discovery_proofs --------------------------
(***************************************************************************)
(* Proofs about Discovery, for any endpoints, devices and tables, and any  *)
(* number of signals, events and failures.                                 *)
(***************************************************************************)
EXTENDS Discovery, SequenceTheorems, WellFoundedInduction, TLAPS

Assumptions ==
    /\ EidAssumption /\ UuidAssumption /\ IdentityAssumption /\ OneDevicePerUuid
    /\ DiscoveryBounds

(* An answer that identifies an endpoint comes from one that is enabled,   *)
(* or from one whose disabling it raced.                                   *)
TaskInv ==
    /\ queue = <<>> => stage = "ping"
    /\ queue # <<>> /\ stage = "identify" /\ reached => Head(queue) \in up \union raced

(* The same holds of what is listed as active; what is listed is known.    *)
ListInv ==
    \A e \in Eids :
        /\ discovered[e] = "active" => e \in up \union raced
        /\ discovered[e] # "unknown" => Known(e)

(* The endpoints that are listed for a device, the one it came online with *)
(* and those its updates were called with are of one physical device.      *)
SameDevice(d) ==
    /\ uuid[d] # NoUuid => eid[d] \in Listed(d) /\ uuid[d] = UuidOf[eid[d]]
    /\ \A k \in Kinds : pc[d][k] # "idle" =>
          eid[d] \in Listed(d) /\ UuidOf[target[d][k]] = UuidOf[eid[d]]
    /\ pc[d]["rediscovery"] # "idle" => uuid[d] # NoUuid

(* A device that is about to come online, or is.                           *)
OnlineAt(d) ==
    /\ pc[d]["activation"] # "idle" =>
          d \notin active /\ target[d]["activation"] = eid[d] /\ eid[d] \in up \union raced
    /\ pc[d]["activation"] # "refresh"
    /\ d \in active => eid[d] \in up \union raced \/ uuid[d] = NoUuid

(* The commands that the matrix lacks are still to be asked for.           *)
Pending(d, k, t) == pc[d][k] = "types" \/ (pc[d][k] = "codes" /\ t \in left[d][k])

UsableAt(d) ==
    d \notin failed =>
        /\ d \in active => uuid[d] # NoUuid
        /\ d \in active \/ ~Quiet(d) =>
              \A t \in MsgTypes : t \in matrix[d] \/ \E k \in Kinds : Pending(d, k, t)

DeviceInv == \A d \in Devices : SameDevice(d) /\ OnlineAt(d) /\ UsableAt(d)

IInv == TypeOK /\ TaskInv /\ ListInv /\ DeviceInv

-----------------------------------------------------------------------------
(***************************************************************************)
(* Which endpoints are of one device.                                      *)
(***************************************************************************)

(* Endpoints have a first one.                                             *)
LEMMA FirstEid ==
    ASSUME NEW S \in SUBSET Nat, S # {}
    PROVE  \E e \in S : \A f \in S : e <= f
  <1> DEFINE Less == {p \in Nat \X Nat : p[1] < p[2]}
  <1>1. IsWellFoundedOn(Less, Nat)
    BY NatLessThanWellFounded, Zenon DEF OpToRel
  <1>2. PICK e \in S : \A f \in S : ~(<<f, e>> \in Less)
    <2> HIDE DEF Less
    <2> QED
      BY <1>1, WFMin
  <1>3. \A f \in S : ~(f < e)
    BY <1>2
  <1> QED
    BY <1>2, <1>3

(* The endpoint that searchEID returns is active, and every endpoint that  *)
(* is listed for the device is one of the same physical device.            *)
LEMMA SearchFacts ==
    ASSUME EidAssumption, NEW d \in Devices, SearchEid(d) # NoEid
    PROVE  /\ SearchEid(d) \in Listed(d) /\ SearchEid(d) \in Eids
           /\ discovered[SearchEid(d)] = "active"
           /\ \A f \in Listed(d) : UuidOf[f] = UuidOf[SearchEid(d)]
  <1> DEFINE e == SearchEid(d)
             Others == {f \in Listed(d) : UuidOf[f] # UuidOf[e]}
  <1>1. Matched(d) = {e} /\ discovered[e] = "active"
    BY DEF SearchEid
  <1>2. Listed(d) \subseteq Eids /\ Matched(d) \subseteq Listed(d)
    BY DEF Listed, Matched, EidsOf
  <1>3. Eids \subseteq Nat
    BY DEF EidAssumption
  <1>4. ASSUME Others # {}
        PROVE  FALSE
    <2>1. PICK f \in Others : \A g \in Others : f <= g
      BY <1>2, <1>3, <1>4, FirstEid
    <2>2. \A g \in Listed(d) : g < f => UuidOf[g] = UuidOf[e]
      <3>1. \A g \in Listed(d) : g \in Nat /\ (g \in Others => f <= g)
        BY <1>2, <1>3, <2>1
      <3>2. f \in Nat
        BY <3>1
      <3>3. \A g \in Listed(d) : g < f => g \notin Others
        BY <3>1, <3>2
      <3> QED
        BY <3>3
    <2>3. f \in Matched(d)
      BY <2>1, <2>2 DEF Matched
    <2> QED
      BY <1>1, <2>1, <2>3
  <1> QED
    BY <1>1, <1>2, <1>4

-----------------------------------------------------------------------------
(***************************************************************************)
(* Types.                                                                  *)
(***************************************************************************)

LEMMA InitIInv ==
    ASSUME Assumptions, Init
    PROVE  IInv
  <1> USE DEF Assumptions, EidAssumption, UuidAssumption, IdentityAssumption, DiscoveryBounds
  <1>1. TypeOK
    <2>1. queue \in Seq(Eids) /\ Len(queue) <= MaxQueue
      BY DEF Init
    <2>2. eidTable \in [Uuids -> Seq(Eids)]
      BY DEF Init
    <2>3. \A d \in Devices, k \in Kinds : pc[d][k] = "idle"
      BY DEF Init
    <2>4. /\ pc \in [Devices -> [Kinds -> {"idle", "types", "codes", "inventory", "refresh"}]]
          /\ target \in [Devices -> [Kinds -> Eids \union {NoEid}]]
          /\ left \in [Devices -> [Kinds -> SUBSET MsgTypes]]
      BY DEF Init
    <2>5. /\ eid \in [Devices -> Eids \union {0}]
          /\ uuid \in [Devices -> Uuids \union {NoUuid}]
          /\ matrix \in [Devices -> SUBSET MsgTypes]
      BY DEF Init
    <2>6. changes \in 0 .. MaxChanges /\ faults \in 0 .. MaxFaults
      BY DEF Init
    <2> QED
      BY <2>1, <2>2, <2>3, <2>4, <2>5, <2>6 DEF Init, TypeOK
  <1>2. TaskInv /\ ListInv
    BY DEF Init, TaskInv, ListInv
  <1>3. DeviceInv
    BY DEF Init, DeviceInv, SameDevice, OnlineAt, UsableAt, Quiet, Kinds
  <1> QED
    BY <1>1, <1>2, <1>3 DEF IInv

(* The types of what an update of a device changes.                        *)
UpdateTypes ==
    /\ active \subseteq Devices /\ failed \subseteq Devices
    /\ uuid \in [Devices -> Uuids \union {NoUuid}]
    /\ matrix \in [Devices -> SUBSET MsgTypes]
    /\ pc \in [Devices -> [Kinds -> {"idle", "types", "codes", "inventory", "refresh"}]]
    /\ target \in [Devices -> [Kinds -> Eids \union {NoEid}]]
    /\ \A d \in Devices, k \in Kinds : pc[d][k] # "idle" => target[d][k] # NoEid
    /\ left \in [Devices -> [Kinds -> SUBSET MsgTypes]]

LEMMA LostCounts ==
    ASSUME Assumptions, faults \in 0 .. MaxFaults, NEW e, Lost(e)
    PROVE  faults' \in 0 .. MaxFaults
  BY DEF Assumptions, DiscoveryBounds, Lost

LEMMA StartUpdateTypes ==
    ASSUME Assumptions, TypeOK, NEW d \in Devices, NEW k \in Kinds, NEW e \in Eids,
           StartUpdate(d, k, e), UNCHANGED <<active, uuid>>
    PROVE  UpdateTypes'
  <1>1. e # NoEid
    BY DEF NoEid, Assumptions, EidAssumption
  <1>2. matrix' \in [Devices -> SUBSET MsgTypes] /\ failed' \subseteq Devices
    BY DEF TypeOK, StartUpdate
  <1>3. pc' \in [Devices -> [Kinds -> {"idle", "types", "codes", "inventory", "refresh"}]]
    BY DEF TypeOK, StartUpdate
  <1>4. target' \in [Devices -> [Kinds -> Eids \union {NoEid}]]
    BY DEF TypeOK, StartUpdate
  <1>5. left' \in [Devices -> [Kinds -> SUBSET MsgTypes]]
    BY DEF TypeOK, StartUpdate
  <1>6. \A c \in Devices, j \in Kinds : pc'[c][j] # "idle" => target'[c][j] # NoEid
    BY <1>1 DEF TypeOK, StartUpdate
  <1> QED
    BY <1>2, <1>3, <1>4, <1>5, <1>6 DEF TypeOK, UpdateTypes

LEMMA AfterInventoryTypes ==
    ASSUME Assumptions, TypeOK, NEW d \in Devices, NEW k \in Kinds, NEW supported,
           pc[d][k] # "idle", AfterInventory(d, k, supported)
    PROVE  /\ active' \subseteq Devices
           /\ uuid' \in [Devices -> Uuids \union {NoUuid}]
           /\ pc' \in [Devices -> [Kinds -> {"idle", "types", "codes", "inventory", "refresh"}]]
           /\ \A c \in Devices, j \in Kinds : pc'[c][j] # "idle" => target[c][j] # NoEid
  <1>1. target[d][k] \in Eids
    BY DEF TypeOK
  <1>2. uuid' \in [Devices -> Uuids \union {NoUuid}]
    BY <1>1 DEF TypeOK, AfterInventory, Assumptions, UuidAssumption
  <1>3. CASE pc' = [pc EXCEPT ![d][k] = "refresh"] /\ UNCHANGED active
    BY <1>2, <1>3 DEF TypeOK
  <1>4. CASE Finish(d, k)
    BY <1>2, <1>4 DEF TypeOK, Finish
  <1> QED
    BY <1>3, <1>4 DEF AfterInventory

LEMMA FinishTypes ==
    ASSUME TypeOK, NEW d \in Devices, NEW k \in Kinds, Finish(d, k)
    PROVE  /\ active' \subseteq Devices
           /\ pc' \in [Devices -> [Kinds -> {"idle", "types", "codes", "inventory", "refresh"}]]
           /\ \A c \in Devices, j \in Kinds : pc'[c][j] # "idle" => target[c][j] # NoEid
  BY DEF TypeOK, Finish

LEMMA CodesDoneTypes ==
    ASSUME Assumptions, TypeOK, NEW d \in Devices, NEW k \in Kinds, NEW type,
           NEW supported \in SUBSET MsgTypes, CodesDone(d, k, type, supported),
           failed' \subseteq Devices
    PROVE  UpdateTypes'
  <1>1. /\ matrix' \in [Devices -> SUBSET MsgTypes]
        /\ left' \in [Devices -> [Kinds -> SUBSET MsgTypes]]
        /\ target' = target
    BY DEF TypeOK, CodesDone
  <1>2. /\ active' \subseteq Devices
        /\ uuid' \in [Devices -> Uuids \union {NoUuid}]
        /\ pc' \in [Devices -> [Kinds -> {"idle", "types", "codes", "inventory", "refresh"}]]
        /\ \A c \in Devices, j \in Kinds : pc'[c][j] # "idle" => target[c][j] # NoEid
    <2>1. CASE UNCHANGED <<pc, active, uuid>>
      BY <2>1 DEF TypeOK
    <2>2. CASE pc' = [pc EXCEPT ![d][k] = "inventory"] /\ UNCHANGED <<active, uuid>>
      BY <2>2 DEF TypeOK, CodesDone
    <2>3. CASE AfterInventory(d, k, supported)
      BY <2>3, AfterInventoryTypes DEF CodesDone
    <2> QED
      BY <2>1, <2>2, <2>3 DEF CodesDone
  <1> QED
    BY <1>1, <1>2 DEF TypeOK, UpdateTypes

LEMMA AddCodesTypes ==
    ASSUME TypeOK, NEW d \in Devices, NEW k \in Kinds
    PROVE  \A type \in left[d][k] : AddCodes(d, type) \in SUBSET MsgTypes /\ matrix[d] \in SUBSET MsgTypes
  BY DEF TypeOK, AddCodes

LEMMA UpdateStepTypes ==
    ASSUME Assumptions, TypeOK, NEW d \in Devices, NEW k \in Kinds, UpdateStep(d, k)
    PROVE  TypeOK'
  <1>1. CASE TypesAnswered(d, k)
    <2>1. /\ pc' \in [Devices -> [Kinds -> {"idle", "types", "codes", "inventory", "refresh"}]]
          /\ \A c \in Devices, j \in Kinds : pc'[c][j] # "idle" => target'[c][j] # NoEid
      BY <1>1 DEF TypesAnswered, TypeOK
    <2>2. left' \in [Devices -> [Kinds -> SUBSET MsgTypes]]
      BY <1>1 DEF TypesAnswered, TypeOK
    <2> QED
      BY <1>1, <2>1, <2>2 DEF TypesAnswered, TypeOK, taskVars, listVars, deviceVars, eventVars
  <1>2. CASE TypesFailed(d, k)
    <2>1. faults' \in 0 .. MaxFaults
      BY <1>2, LostCounts DEF TypesFailed, TypeOK
    <2> QED
      BY <1>2, <2>1, FinishTypes DEF TypesFailed, TypeOK, taskVars, listVars, eventVars
  <1>3. CASE CodesAnswered(d, k)
    <2>1. PICK type \in left[d][k] : CodesDone(d, k, type, AddCodes(d, type))
      BY <1>3 DEF CodesAnswered
    <2>2. UpdateTypes' /\ UNCHANGED <<failed, faults>>
      BY <1>3, <2>1, AddCodesTypes, CodesDoneTypes DEF CodesAnswered, TypeOK
    <2> QED
      BY <2>1, <2>2 DEF CodesDone, TypeOK, UpdateTypes, taskVars, listVars, eventVars
  <1>4. CASE CodesFailed(d, k)
    <2>1. PICK type \in left[d][k] : CodesDone(d, k, type, matrix[d])
      BY <1>4 DEF CodesFailed
    <2>2. UpdateTypes'
      BY <1>4, <2>1, AddCodesTypes, CodesDoneTypes DEF CodesFailed, TypeOK
    <2>3. faults' \in 0 .. MaxFaults
      BY <1>4, LostCounts DEF CodesFailed, TypeOK
    <2> QED
      BY <2>1, <2>2, <2>3 DEF CodesDone, TypeOK, UpdateTypes, taskVars, listVars, eventVars
  <1>5. CASE InventoryRead(d, k)
    <2>1. pc[d][k] # "idle" /\ AfterInventory(d, k, matrix[d])
      BY <1>5 DEF InventoryRead
    <2> QED
      BY <1>5, <2>1, AfterInventoryTypes
      DEF InventoryRead, TypeOK, taskVars, listVars, eventVars
  <1>6. CASE RefreshAnswered(d, k)
    <2>1. target[d][k] \in Eids
      BY <1>6 DEF RefreshAnswered, TypeOK
    <2>2. subscribed' \subseteq Uuids
      BY <1>6, <2>1 DEF RefreshAnswered, TypeOK, Assumptions, UuidAssumption
    <2> QED
      BY <1>6, <2>2, FinishTypes DEF RefreshAnswered, TypeOK, taskVars, listVars
  <1>7. CASE RefreshFailed(d, k)
    <2>1. faults' \in 0 .. MaxFaults
      BY <1>7, LostCounts DEF RefreshFailed, TypeOK
    <2> QED
      BY <1>7, <2>1, FinishTypes DEF RefreshFailed, TypeOK, taskVars, listVars, eventVars
  <1> QED
    BY <1>1, <1>2, <1>3, <1>4, <1>5, <1>6, <1>7 DEF UpdateStep

LEMMA NextEndpointTypes ==
    ASSUME Assumptions, TypeOK, queue # <<>>, NextEndpoint
    PROVE  /\ queue' \in Seq(Eids) /\ Len(queue') <= MaxQueue /\ Head(queue) \in Eids
           /\ stage' = "ping" /\ reached' \in BOOLEAN
  <1>1. queue \in Seq(Eids) /\ Len(queue) \in Nat /\ Len(queue) <= MaxQueue
    BY LenProperties DEF TypeOK
  <1>2. /\ Tail(queue) \in Seq(Eids) /\ Head(queue) \in Eids
        /\ Len(Tail(queue)) = Len(queue) - 1
    BY <1>1, HeadTailProperties
  <1>3. Len(queue') <= MaxQueue
    BY <1>1, <1>2 DEF NextEndpoint, Assumptions, DiscoveryBounds
  <1>4. reached' \in BOOLEAN
    BY DEF NextEndpoint
  <1> QED
    BY <1>2, <1>3, <1>4 DEF NextEndpoint

LEMMA TaskTypes ==
    ASSUME Assumptions, TypeOK, TaskStep
    PROVE  TypeOK'
  <1>1. CASE PingAnswered
    <2>1. reached' \in BOOLEAN /\ stage' = "identify"
      BY <1>1 DEF PingAnswered
    <2> QED
      BY <1>1, <2>1 DEF PingAnswered, TypeOK, listVars, updateVars, deviceVars, eventVars
  <1>2. CASE Identified
    <2> DEFINE e == Head(queue)
    <2>1. /\ queue' \in Seq(Eids) /\ Len(queue') <= MaxQueue /\ e \in Eids
          /\ stage' = "ping" /\ reached' \in BOOLEAN
      BY <1>2, NextEndpointTypes DEF Identified
    <2> HIDE DEF e
    <2>2. discovered' = [discovered EXCEPT ![e] = "active"]
      BY <1>2 DEF Identified, e
    <2>3. eidTable' = [eidTable EXCEPT ![UuidOf[e]] = IF Known(e) THEN @ ELSE Append(@, e)]
      BY <1>2 DEF Identified, e
    <2>4. UuidOf[e] \in Uuids /\ eidTable[UuidOf[e]] \in Seq(Eids)
      BY <2>1 DEF Assumptions, UuidAssumption, TypeOK
    <2>5. Append(eidTable[UuidOf[e]], e) \in Seq(Eids)
      BY <2>1, <2>4
    <2>6. eidTable' \in [Uuids -> Seq(Eids)]
      BY <2>3, <2>4, <2>5 DEF TypeOK
    <2>7. discovered' \in [Eids -> {"unknown", "active", "inactive"}]
      BY <2>2 DEF TypeOK
    <2> QED
      BY <1>2, <2>1, <2>6, <2>7 DEF Identified, TypeOK, updateVars, deviceVars, eventVars
  <1>3. CASE NotIdentified
    <2>1. /\ queue' \in Seq(Eids) /\ Len(queue') <= MaxQueue
          /\ stage' = "ping" /\ reached' \in BOOLEAN
      BY <1>3, NextEndpointTypes DEF NotIdentified
    <2>2. faults' \in 0 .. MaxFaults
      BY <1>3, LostCounts DEF NotIdentified, TypeOK
    <2> QED
      BY <1>3, <2>1, <2>2
      DEF NotIdentified, TypeOK, listVars, updateVars, deviceVars, eventVars
  <1> QED
    BY <1>1, <1>2, <1>3 DEF TaskStep

LEMMA SignalTypes ==
    ASSUME Assumptions, TypeOK, NEW e \in Eids, EndpointUp(e) \/ EndpointDown(e)
    PROVE  TypeOK'
  <1>1. changes' \in 0 .. MaxChanges
    <2>1. changes < MaxChanges /\ changes' = changes + 1
      BY DEF EndpointUp, EndpointDown
    <2> QED
      BY <2>1 DEF TypeOK, Assumptions, DiscoveryBounds
  <1>2. up' \subseteq Eids /\ raced' \subseteq Eids
    BY DEF EndpointUp, EndpointDown, TypeOK
  <1>3. CASE EndpointUp(e)
    <2>1. queue \in Seq(Eids) /\ Len(queue) \in Nat
      BY LenProperties DEF TypeOK
    <2>2. Append(queue, e) \in Seq(Eids) /\ Len(Append(queue, e)) = Len(queue) + 1
      BY <2>1, AppendProperties
    <2>3. queue' \in Seq(Eids) /\ Len(queue') <= MaxQueue
      BY <1>3, <2>1, <2>2 DEF EndpointUp, Assumptions, DiscoveryBounds
    <2>4. reached' \in BOOLEAN
      BY <1>3 DEF EndpointUp, TypeOK
    <2> QED
      BY <1>1, <1>2, <1>3, <2>3, <2>4
      DEF EndpointUp, TypeOK, listVars, updateVars, deviceVars, eventVars
  <1>4. CASE EndpointDown(e)
    <2>1. discovered' \in [Eids -> {"unknown", "active", "inactive"}]
      BY <1>4 DEF EndpointDown, TypeOK
    <2>2. active' \subseteq Devices /\ subscribed' \subseteq Uuids
      BY <1>4 DEF EndpointDown, TypeOK
    <2> QED
      BY <1>1, <1>2, <1>4, <2>1, <2>2 DEF EndpointDown, TypeOK, taskVars, updateVars
  <1> QED
    BY <1>3, <1>4

LEMMA PollingTypes ==
    ASSUME Assumptions, TypeOK, NEW d \in Devices, Activate(d) \/ PollEventSensor(d)
    PROVE  TypeOK'
  <1>1. CASE Activate(d)
    <2>1. SearchEid(d) \in Eids
      BY <1>1, SearchFacts DEF Activate, Assumptions
    <2>2. UpdateTypes'
      BY <1>1, <2>1, StartUpdateTypes DEF Activate, Kinds
    <2>3. eid' \in [Devices -> Eids \union {0}]
      BY <1>1, <2>1 DEF Activate, TypeOK
    <2> QED
      BY <1>1, <2>2, <2>3 DEF Activate, TypeOK, UpdateTypes, taskVars, listVars, eventVars
  <1>2. CASE PollEventSensor(d)
    <2>1. GetEid(d) # NoEid
      BY <1>2 DEF PollEventSensor, TypeOK, NoEid, Assumptions, EidAssumption
    <2>2. uuid[d] \in Uuids
      BY <2>1 DEF GetEid, TypeOK
    <2>3. subscribed' \subseteq Uuids /\ unsent' \subseteq Devices
      BY <1>2, <2>2 DEF PollEventSensor, TypeOK
    <2> QED
      BY <1>2, <2>3
      DEF PollEventSensor, TypeOK, taskVars, listVars, updateVars, deviceVars
  <1> QED
    BY <1>1, <1>2

LEMMA RediscoverTypes ==
    ASSUME Assumptions, TypeOK, NEW d \in Devices, NEW e \in Eids, Rediscover(e, d)
    PROVE  TypeOK'
  <1>1. UpdateTypes'
    BY StartUpdateTypes DEF Rediscover, Kinds
  <1>2. changes' \in 0 .. MaxChanges
    BY DEF Rediscover, TypeOK, Assumptions, DiscoveryBounds
  <1> QED
    BY <1>1, <1>2 DEF Rediscover, TypeOK, UpdateTypes, taskVars, listVars, eventVars

-----------------------------------------------------------------------------
(***************************************************************************)
(* The list of endpoints and the task that fills it.                       *)
(***************************************************************************)

(* What the steps of the devices leave alone.                              *)
TaskAndList == <<up, raced, taskVars, listVars>>

LEMMA TaskAndListKept ==
    ASSUME TaskInv, ListInv, UNCHANGED TaskAndList
    PROVE  TaskInv' /\ ListInv'
  BY DEF TaskInv, ListInv, Known, TaskAndList, taskVars, listVars

LEMMA EndpointUpLists ==
    ASSUME Assumptions, TypeOK, TaskInv, ListInv, NEW e \in Eids, EndpointUp(e)
    PROVE  TaskInv' /\ ListInv'
  <1>1. up \union raced \subseteq (up \union raced)'
    BY DEF EndpointUp
  <1>2. ListInv'
    BY <1>1 DEF EndpointUp, ListInv, Known, listVars
  <1>3. queue \in Seq(Eids) /\ queue' = Append(queue, e)
    BY DEF EndpointUp, TypeOK
  <1>4. queue' # <<>> /\ (queue # <<>> => Head(queue') = Head(queue))
    BY <1>3, AppendProperties
  <1>5. TaskInv'
    BY <1>1, <1>4 DEF EndpointUp, TaskInv
  <1> QED
    BY <1>2, <1>5

LEMMA EndpointDownLists ==
    ASSUME Assumptions, TypeOK, TaskInv, ListInv, NEW e \in Eids, EndpointDown(e)
    PROVE  TaskInv' /\ ListInv'
  <1>1. \A f : f # e /\ f \in up \union raced => f \in (up \union raced)'
    BY DEF EndpointDown
  <1>2. InUse(e) => e \in (up \union raced)'
    BY DEF EndpointDown
  <1>3. UNCHANGED <<queue, stage, reached, eidTable>>
    BY DEF EndpointDown, taskVars
  <1>4. TaskInv'
    BY <1>1, <1>2, <1>3 DEF TaskInv, InUse
  <1>5. \A f \in Eids : /\ discovered'[f] = "active" => f # e /\ discovered[f] = "active"
                        /\ discovered'[f] # "unknown" => discovered[f] # "unknown"
    BY DEF EndpointDown, TypeOK
  <1>6. ListInv'
    BY <1>1, <1>3, <1>5 DEF ListInv, Known
  <1> QED
    BY <1>4, <1>6

LEMMA IdentifiedLists ==
    ASSUME Assumptions, TypeOK, TaskInv, ListInv, Identified
    PROVE  /\ TaskInv' /\ ListInv'
           /\ \A f \in Eids : discovered[f] # "unknown" => discovered'[f] # "unknown"
  <1>0. Head(queue) \in Eids
    BY NextEndpointTypes DEF Identified
  <1> PICK e \in Eids : e = Head(queue)
    BY <1>0
  <1> DEFINE w == UuidOf[e]
  <1>1. /\ queue' \in Seq(Eids) /\ Len(queue') <= MaxQueue /\ e \in Eids
        /\ stage' = "ping" /\ reached' \in BOOLEAN
    BY NextEndpointTypes DEF Identified
  <1>2. /\ discovered' = [discovered EXCEPT ![e] = "active"]
        /\ eidTable' = [eidTable EXCEPT ![w] = IF Known(e) THEN @ ELSE Append(@, e)]
        /\ stage = "identify" /\ queue # <<>> /\ (reached \/ e \in up)
        /\ UNCHANGED <<up, raced>>
    BY DEF Identified
  <1>3. e \in up \union raced
    BY <1>2 DEF TaskInv
  <1>4. w \in Uuids /\ eidTable[w] \in Seq(Eids)
    BY <1>1 DEF Assumptions, UuidAssumption, TypeOK
  <1> HIDE DEF w
  <1>5. /\ Append(eidTable[w], e) \in Seq(Eids) /\ Len(eidTable[w]) \in Nat
        /\ Len(Append(eidTable[w], e)) = Len(eidTable[w]) + 1
        /\ \A i \in 1 .. Len(eidTable[w]) : Append(eidTable[w], e)[i] = eidTable[w][i]
        /\ Append(eidTable[w], e)[Len(eidTable[w]) + 1] = e
    BY <1>1, <1>4, AppendProperties, LenProperties
  <1>6. /\ DOMAIN eidTable[w] = 1 .. Len(eidTable[w])
        /\ DOMAIN Append(eidTable[w], e) = 1 .. Len(eidTable[w]) + 1
    BY <1>4, <1>5, LenProperties
  <1>7. \A v : v # w => eidTable'[v] = eidTable[v]
    BY <1>2 DEF TypeOK
  <1>8. eidTable'[w] = IF Known(e) THEN eidTable[w] ELSE Append(eidTable[w], e)
    BY <1>2, <1>4 DEF TypeOK
  <1>9. \A f \in Eids : Known(f) => Known(f)'
    <2> SUFFICES ASSUME NEW f \in Eids, Known(f)
                 PROVE  \E i \in DOMAIN eidTable'[UuidOf[f]] : eidTable'[UuidOf[f]][i] = f
      BY DEF Known
    <2>1. PICK i \in DOMAIN eidTable[UuidOf[f]] : eidTable[UuidOf[f]][i] = f
      BY DEF Known
    <2>2. CASE UuidOf[f] # w
      BY <1>7, <2>1, <2>2
    <2>3. CASE UuidOf[f] = w /\ Known(e)
      BY <1>8, <2>1, <2>3
    <2>4. CASE UuidOf[f] = w /\ ~Known(e)
      <3>1. eidTable'[w] = Append(eidTable[w], e)
        BY <1>8, <2>4
      <3>2. i \in 1 .. Len(eidTable[w]) /\ i \in 1 .. Len(eidTable[w]) + 1
        BY <1>5, <1>6, <2>1, <2>4
      <3> QED
        BY <1>5, <1>6, <2>1, <2>4, <3>1, <3>2
    <2> QED
      BY <2>2, <2>3, <2>4
  <1>10. Known(e)'
    <2>1. CASE Known(e)
      BY <1>1, <1>9, <2>1
    <2>2. CASE ~Known(e)
      <3>1. eidTable'[w] = Append(eidTable[w], e)
        BY <1>8, <2>2
      <3>2. Len(eidTable[w]) + 1 \in 1 .. Len(eidTable[w]) + 1
        BY <1>5
      <3>3. \E i \in DOMAIN eidTable'[w] : eidTable'[w][i] = e
        BY <1>5, <1>6, <3>1, <3>2
      <3> QED
        BY <3>3 DEF Known, w
    <2> QED
      BY <2>1, <2>2
  <1>11. \A f \in Eids : /\ f = e => discovered'[f] = "active"
                         /\ f # e => discovered'[f] = discovered[f]
    BY <1>2 DEF TypeOK
  <1>12. ListInv'
    <2> SUFFICES ASSUME NEW f \in Eids
                 PROVE  /\ discovered'[f] = "active" => f \in up' \union raced'
                        /\ discovered'[f] # "unknown" => Known(f)'
      BY DEF ListInv
    <2>1. CASE f = e
      BY <1>2, <1>3, <1>10, <2>1
    <2>2. CASE f # e
      BY <1>2, <1>9, <1>11, <2>2 DEF ListInv
    <2> QED
      BY <2>1, <2>2
  <1>13. TaskInv'
    BY <1>1 DEF TaskInv
  <1> QED
    BY <1>11, <1>12, <1>13

LEMMA OtherTaskLists ==
    ASSUME Assumptions, TypeOK, TaskInv, ListInv, PingAnswered \/ NotIdentified
    PROVE  TaskInv' /\ ListInv' /\ UNCHANGED discovered
  <1>1. UNCHANGED <<up, raced, discovered, eidTable>>
    BY DEF PingAnswered, NotIdentified, listVars
  <1>2. ListInv'
    BY <1>1 DEF ListInv, Known
  <1>3. CASE PingAnswered
    BY <1>1, <1>2, <1>3 DEF PingAnswered, TaskInv
  <1>4. CASE NotIdentified
    BY <1>1, <1>2, <1>4 DEF NotIdentified, NextEndpoint, TaskInv
  <1> QED
    BY <1>1, <1>2, <1>3, <1>4

-----------------------------------------------------------------------------
(***************************************************************************)
(* Devices.                                                                *)
(***************************************************************************)

(* Steps that leave the updates of a device alone.                         *)
LEMMA DeviceLeftAlone ==
    ASSUME NEW d \in Devices, SameDevice(d), OnlineAt(d), UsableAt(d),
           pc'[d] = pc[d], target'[d] = target[d], left'[d] = left[d],
           eid'[d] = eid[d], uuid'[d] = uuid[d], matrix'[d] = matrix[d],
           d \in active' => d \in active, d \in failed => d \in failed',
           \A f \in Eids : discovered[f] # "unknown" => discovered'[f] # "unknown",
           pc[d]["activation"] # "idle" /\ eid[d] \in up \union raced
               => eid[d] \in up' \union raced',
           d \in active' /\ eid[d] \in up \union raced
               => eid[d] \in up' \union raced' \/ uuid[d] = NoUuid
    PROVE  SameDevice(d)' /\ OnlineAt(d)' /\ UsableAt(d)'
  <1>1. Listed(d) \subseteq Listed(d)'
    BY DEF Listed, EidsOf
  <1>2. SameDevice(d)'
    BY <1>1 DEF SameDevice
  <1>3. OnlineAt(d)'
    BY DEF OnlineAt
  <1>4. UsableAt(d)'
    BY DEF UsableAt, Pending, Quiet
  <1> QED
    BY <1>2, <1>3, <1>4

LEMMA SignalDevices ==
    ASSUME Assumptions, IInv, NEW e \in Eids, EndpointUp(e) \/ EndpointDown(e)
    PROVE  DeviceInv'
  <1> SUFFICES ASSUME NEW d \in Devices
               PROVE  SameDevice(d)' /\ OnlineAt(d)' /\ UsableAt(d)'
    BY DEF DeviceInv
  <1>1. SameDevice(d) /\ OnlineAt(d) /\ UsableAt(d)
    BY DEF IInv, DeviceInv
  <1>2. UNCHANGED <<pc, target, left, eid, uuid, matrix, failed>>
    BY DEF EndpointUp, EndpointDown, updateVars, deviceVars
  <1>3. CASE EndpointUp(e)
    <2>1. up \union raced \subseteq up' \union raced' /\ UNCHANGED <<active, discovered>>
      BY <1>3 DEF EndpointUp, listVars, deviceVars
    <2> QED
      BY <1>1, <1>2, <2>1, DeviceLeftAlone
  <1>4. CASE EndpointDown(e)
    <2>1. active' = active \ TakenOffline(e)
      BY <1>4 DEF EndpointDown
    <2>2. \A f \in Eids : discovered[f] # "unknown" => discovered'[f] # "unknown"
      BY <1>4 DEF EndpointDown, IInv, TypeOK
    <2>3. \A f : f # e /\ f \in up \union raced => f \in up' \union raced'
      BY <1>4 DEF EndpointDown
    <2>4. pc[d]["activation"] # "idle" /\ eid[d] = e => e \in raced'
      BY <1>1, <1>4 DEF EndpointDown, InUse, OnlineAt
    <2>5. d \in active' /\ eid[d] = e => uuid[d] = NoUuid
      <3> SUFFICES ASSUME d \in active', eid[d] = e, uuid[d] # NoUuid PROVE FALSE
        OBVIOUS
      <3>1. d \in WithUuid(UuidOf[e]) /\ e \in EidsOf[d]
        BY <1>1 DEF WithUuid, SameDevice, Listed
      <3>2. ASSUME NEW c \in WithUuid(UuidOf[e])
            PROVE  c = d
        <4>1. c \in Devices /\ uuid[c] = UuidOf[e] /\ uuid[c] # NoUuid
          BY DEF WithUuid, Assumptions, UuidAssumption
        <4>2. eid[c] \in EidsOf[c] /\ UuidOf[eid[c]] = UuidOf[e]
          BY <4>1 DEF IInv, DeviceInv, SameDevice, Listed
        <4> QED
          BY <3>1, <4>1, <4>2 DEF Assumptions, OneDevicePerUuid
      <3>3. d \in TakenOffline(e)
        BY <3>1, <3>2 DEF TakenOffline, FindByUuid
      <3> QED
        BY <2>1, <3>3
    <2> QED
      BY <1>1, <1>2, <2>1, <2>2, <2>3, <2>4, <2>5, DeviceLeftAlone
  <1> QED
    BY <1>3, <1>4

LEMMA TaskDevices ==
    ASSUME Assumptions, IInv, TaskStep
    PROVE  DeviceInv'
  <1> SUFFICES ASSUME NEW d \in Devices
               PROVE  SameDevice(d)' /\ OnlineAt(d)' /\ UsableAt(d)'
    BY DEF DeviceInv
  <1>1. SameDevice(d) /\ OnlineAt(d) /\ UsableAt(d)
    BY DEF IInv, DeviceInv
  <1>2. UNCHANGED <<up, raced, pc, target, left, active, eid, uuid, matrix, failed>>
    BY DEF TaskStep, PingAnswered, Identified, NotIdentified, updateVars, deviceVars
  <1>3. \A f \in Eids : discovered[f] # "unknown" => discovered'[f] # "unknown"
    BY IdentifiedLists, OtherTaskLists DEF TaskStep, IInv
  <1> QED
    BY <1>1, <1>2, <1>3, DeviceLeftAlone

(* An update starts.                                                       *)
LEMMA ActivateDevice ==
    ASSUME Assumptions, IInv, NEW d \in Devices, Activate(d)
    PROVE  SameDevice(d)' /\ OnlineAt(d)' /\ UsableAt(d)'
  <1> PICK e \in Eids : e = SearchEid(d)
    BY SearchFacts DEF Activate, Assumptions
  <1>1. /\ e \in Listed(d) /\ discovered[e] = "active"
        /\ \A f \in Listed(d) : UuidOf[f] = UuidOf[e]
    BY SearchFacts DEF Activate, Assumptions
  <1>2. SameDevice(d) /\ OnlineAt(d) /\ UsableAt(d)
    BY DEF IInv, DeviceInv
  <1>3. /\ pc[d]["activation"] = "idle" /\ d \notin active
        /\ eid'[d] = e /\ UNCHANGED <<up, raced, discovered, active, uuid>>
    BY DEF Activate, IInv, TypeOK, listVars
  <1>4. StartUpdate(d, "activation", e)
    BY DEF Activate
  <1>5. /\ pc'[d]["activation"] = "types" /\ pc'[d]["rediscovery"] = pc[d]["rediscovery"]
        /\ target'[d]["activation"] = e
        /\ target'[d]["rediscovery"] = target[d]["rediscovery"]
    BY <1>4 DEF StartUpdate, IInv, TypeOK, Kinds
  <1>6. Listed(d)' = Listed(d)
    BY <1>3 DEF Listed
  <1>7. SameDevice(d)'
    BY <1>1, <1>2, <1>3, <1>5, <1>6 DEF SameDevice, Kinds
  <1>8. OnlineAt(d)'
    BY <1>1, <1>3, <1>5 DEF OnlineAt, IInv, ListInv
  <1>9. UsableAt(d)'
    BY <1>3, <1>5 DEF UsableAt, Pending, Kinds
  <1> QED
    BY <1>7, <1>8, <1>9

LEMMA RediscoverDevice ==
    ASSUME Assumptions, IInv, NEW d \in Devices, NEW e \in Eids, Rediscover(e, d)
    PROVE  SameDevice(d)' /\ OnlineAt(d)' /\ UsableAt(d)'
  <1>1. SameDevice(d) /\ OnlineAt(d) /\ UsableAt(d)
    BY DEF IInv, DeviceInv
  <1>2. uuid[d] = UuidOf[e] /\ uuid[d] # NoUuid
    BY DEF Rediscover, FindByUuid, WithUuid, Assumptions, UuidAssumption
  <1>3. UNCHANGED <<up, raced, discovered, active, eid, uuid>>
    BY DEF Rediscover, listVars
  <1>4. StartUpdate(d, "rediscovery", e)
    BY DEF Rediscover
  <1>5. /\ pc'[d]["rediscovery"] = "types" /\ pc'[d]["activation"] = pc[d]["activation"]
        /\ target'[d]["rediscovery"] = e
        /\ target'[d]["activation"] = target[d]["activation"]
    BY <1>4 DEF StartUpdate, IInv, TypeOK, Kinds
  <1>6. Listed(d)' = Listed(d)
    BY <1>3 DEF Listed
  <1>7. SameDevice(d)'
    BY <1>1, <1>2, <1>3, <1>5, <1>6 DEF SameDevice, Kinds
  <1>8. OnlineAt(d)'
    BY <1>1, <1>3, <1>5 DEF OnlineAt
  <1>9. UsableAt(d)'
    BY <1>2, <1>3, <1>5 DEF UsableAt, Pending, Kinds
  <1> QED
    BY <1>7, <1>8, <1>9

(* A step of an update of kind k of device d, by what it may change.       *)
UpdateEffect(d, k) ==
    /\ UNCHANGED <<up, raced, discovered, target, eid>>
    /\ pc[d][k] # "idle"
    /\ \A j \in Kinds : j # k => pc'[d][j] = pc[d][j] /\ left'[d][j] = left[d][j]
    /\ pc'[d]["activation"] # "refresh"
    /\ d \in active' => d \in active \/ (k = "activation" /\ pc'[d][k] = "idle")
    /\ uuid'[d] = uuid[d] \/ uuid'[d] = UuidOf[eid[d]]
    /\ d \notin failed' =>
          /\ d \notin failed
          /\ d \in active' => d \in active \/ uuid'[d] # NoUuid
          /\ \A t \in MsgTypes : t \in matrix[d] \/ Pending(d, k, t)
                => t \in matrix'[d] \/ Pending(d, k, t)'

LEMMA UpdateKeeps ==
    ASSUME Assumptions, IInv, NEW d \in Devices, NEW k \in Kinds, UpdateEffect(d, k)
    PROVE  SameDevice(d)' /\ OnlineAt(d)' /\ UsableAt(d)'
  <1>1. SameDevice(d) /\ OnlineAt(d) /\ UsableAt(d)
    BY DEF IInv, DeviceInv
  <1>2. /\ UNCHANGED <<up, raced, discovered, target, eid>>
        /\ pc[d][k] # "idle" /\ pc'[d]["activation"] # "refresh"
        /\ \A j \in Kinds : j # k => pc'[d][j] = pc[d][j] /\ left'[d][j] = left[d][j]
        /\ d \in active' => d \in active \/ (k = "activation" /\ pc'[d][k] = "idle")
        /\ uuid'[d] = uuid[d] \/ uuid'[d] = UuidOf[eid[d]]
    BY DEF UpdateEffect
  <1>3. eid[d] \in Listed(d) /\ UuidOf[target[d][k]] = UuidOf[eid[d]]
    BY <1>1, <1>2 DEF SameDevice
  <1>4. UuidOf[eid[d]] \in Uuids /\ UuidOf[eid[d]] # NoUuid
    BY <1>3 DEF Listed, EidsOf, Assumptions, UuidAssumption
  <1>5. \A j \in Kinds : pc'[d][j] # "idle" => pc[d][j] # "idle"
    BY <1>2
  <1>6. Listed(d)' = Listed(d)
    BY <1>2 DEF Listed
  <1>7. uuid[d] # NoUuid => uuid'[d] = uuid[d]
    BY <1>1, <1>2 DEF SameDevice
  <1>8. SameDevice(d)'
    BY <1>1, <1>2, <1>3, <1>4, <1>5, <1>6, <1>7 DEF SameDevice, Kinds
  <1>9. OnlineAt(d)'
    <2>1. /\ pc'[d]["activation"] # "idle" => pc[d]["activation"] # "idle" /\ d \notin active'
          /\ pc[d]["activation"] # "idle" => d \notin active /\ eid[d] \in up \union raced
      BY <1>1, <1>2, <1>5 DEF OnlineAt, Kinds
    <2>2. ASSUME d \in active'
          PROVE  eid[d] \in up \union raced \/ uuid'[d] = NoUuid
      <3>1. CASE k = "activation"
        BY <1>2, <2>1, <3>1
      <3>2. CASE k = "rediscovery"
        <4>1. uuid[d] # NoUuid
          BY <1>1, <1>2, <3>2 DEF SameDevice
        <4>2. d \in active
          BY <1>2, <2>2, <3>2
        <4> QED
          BY <1>1, <4>1, <4>2 DEF OnlineAt
      <3> QED
        BY <3>1, <3>2 DEF Kinds
    <2> QED
      BY <1>1, <1>2, <2>1, <2>2 DEF OnlineAt
  <1>10. UsableAt(d)'
    <2> SUFFICES ASSUME d \notin failed'
                 PROVE  /\ d \in active' => uuid'[d] # NoUuid
                        /\ \A t \in MsgTypes : t \in matrix'[d] \/ \E j \in Kinds : Pending(d, j, t)'
      BY DEF UsableAt
    <2>1. /\ d \notin failed
          /\ d \in active' => d \in active \/ uuid'[d] # NoUuid
          /\ \A t \in MsgTypes : t \in matrix[d] \/ Pending(d, k, t)
                => t \in matrix'[d] \/ Pending(d, k, t)'
      BY DEF UpdateEffect
    <2>2. ~Quiet(d)
      BY <1>2 DEF Quiet
    <2>3. /\ d \in active => uuid[d] # NoUuid
          /\ \A t \in MsgTypes : t \in matrix[d] \/ \E j \in Kinds : Pending(d, j, t)
      BY <1>1, <2>1, <2>2 DEF UsableAt
    <2>4. \A j \in Kinds, t \in MsgTypes : j # k /\ Pending(d, j, t) => Pending(d, j, t)'
      BY <1>2 DEF Pending
    <2>5. d \in active' => uuid'[d] # NoUuid
      BY <1>7, <2>1, <2>3
    <2>6. \A t \in MsgTypes : t \in matrix'[d] \/ \E j \in Kinds : Pending(d, j, t)'
      BY <2>1, <2>3, <2>4
    <2> QED
      BY <2>5, <2>6
  <1> QED
    BY <1>8, <1>9, <1>10

(* The end of updateFruDeviceIntf gives the device the UUID that it has    *)
(* already, or the one of the endpoint it comes online with.               *)
LEMMA AfterInventoryEffect ==
    ASSUME Assumptions, IInv, NEW d \in Devices, NEW k \in Kinds, NEW supported,
           pc[d][k] # "idle", AfterInventory(d, k, supported)
    PROVE  /\ uuid'[d] = UuidOf[eid[d]] /\ uuid'[d] # NoUuid
           /\ \A j \in Kinds : j # k => pc'[d][j] = pc[d][j]
           /\ pc'[d]["activation"] # "refresh"
           /\ d \in active' => d \in active \/ (k = "activation" /\ pc'[d][k] = "idle")
           /\ pc'[d][k] \in {"refresh", "idle"}
  <1>1. SameDevice(d) /\ OnlineAt(d)
    BY DEF IInv, DeviceInv
  <1>2. eid[d] \in Listed(d) /\ UuidOf[target[d][k]] = UuidOf[eid[d]]
    BY <1>1 DEF SameDevice
  <1>3. eid[d] \in Eids /\ Known(eid[d]) /\ UuidOf[eid[d]] # NoUuid
    BY <1>2 DEF Listed, EidsOf, IInv, ListInv, Assumptions, UuidAssumption
  <1>4. uuid'[d] = IF Known(target[d][k]) THEN UuidOf[target[d][k]] ELSE uuid[d]
    BY DEF AfterInventory, IInv, TypeOK
  <1>5. CASE k = "activation"
    <2>1. target[d][k] = eid[d] /\ d \notin active
      BY <1>1, <1>5 DEF OnlineAt
    <2>2. Finish(d, k)
      BY <2>1 DEF AfterInventory, MaySend
    <2>3. /\ pc'[d]["activation"] = "idle" /\ pc'[d]["rediscovery"] = pc[d]["rediscovery"]
      BY <1>5, <2>2 DEF Finish, IInv, TypeOK, Kinds
    <2> QED
      BY <1>3, <1>4, <1>5, <2>1, <2>3 DEF Kinds
  <1>6. CASE k = "rediscovery"
    <2>1. uuid[d] = UuidOf[eid[d]]
      BY <1>1, <1>6 DEF SameDevice
    <2>2. active' = active
      BY <1>6 DEF AfterInventory, Finish
    <2>3. /\ pc'[d]["activation"] = pc[d]["activation"]
          /\ pc'[d]["rediscovery"] \in {"refresh", "idle"}
      BY <1>6 DEF AfterInventory, Finish, IInv, TypeOK, Kinds
    <2> QED
      BY <1>1, <1>2, <1>3, <1>4, <1>6, <2>1, <2>2, <2>3 DEF Kinds, OnlineAt
  <1> QED
    BY <1>5, <1>6 DEF Kinds

LEMMA FinishEffect ==
    ASSUME IInv, NEW d \in Devices, NEW k \in Kinds, pc[d][k] # "idle", Finish(d, k)
    PROVE  /\ \A j \in Kinds : j # k => pc'[d][j] = pc[d][j]
           /\ pc'[d][k] = "idle" /\ pc'[d]["activation"] # "refresh"
           /\ d \in active' => d \in active \/ k = "activation"
  <1>1. pc'[d][k] = "idle" /\ \A j \in Kinds : j # k => pc'[d][j] = pc[d][j]
    BY DEF Finish, IInv, TypeOK
  <1>2. pc[d]["activation"] # "refresh"
    BY DEF IInv, DeviceInv, OnlineAt
  <1>3. pc'[d]["activation"] # "refresh"
    BY <1>1, <1>2 DEF Kinds
  <1>4. d \in active' => d \in active \/ k = "activation"
    BY DEF Finish
  <1> QED
    BY <1>1, <1>3, <1>4

LEMMA CodesEffect ==
    ASSUME Assumptions, IInv, NEW d \in Devices, NEW k \in Kinds, NEW type, NEW supported,
           CodesDone(d, k, type, supported), UNCHANGED discovered,
           d \notin failed' => d \notin failed /\ supported = AddCodes(d, type)
    PROVE  UpdateEffect(d, k)
  <1>1. /\ pc[d][k] = "codes" /\ type \in left[d][k]
        /\ UNCHANGED <<up, raced, discovered, target, eid>>
    BY DEF CodesDone
  <1>2. matrix'[d] = supported /\ left'[d][k] = left[d][k] \ {type}
    BY DEF CodesDone, IInv, TypeOK
  <1>3. \A j \in Kinds : j # k => left'[d][j] = left[d][j]
    BY DEF CodesDone, IInv, TypeOK
  <1>4. /\ \A j \in Kinds : j # k => pc'[d][j] = pc[d][j]
        /\ pc'[d]["activation"] # "refresh"
        /\ d \in active' => d \in active \/ (k = "activation" /\ pc'[d][k] = "idle")
        /\ uuid'[d] = uuid[d] \/ uuid'[d] = UuidOf[eid[d]]
        /\ d \in active' => d \in active \/ uuid'[d] # NoUuid
        /\ pc'[d][k] = "codes" \/ left[d][k] = {type}
    <2>0. pc[d]["activation"] # "refresh"
      BY DEF IInv, DeviceInv, OnlineAt
    <2>1. CASE left[d][k] # {type} /\ UNCHANGED <<pc, active, uuid>>
      BY <1>1, <2>0, <2>1
    <2>2. CASE /\ left[d][k] = {type} /\ pc' = [pc EXCEPT ![d][k] = "inventory"]
               /\ UNCHANGED <<active, uuid>>
      <3>1. pc'[d][k] = "inventory" /\ \A j \in Kinds : j # k => pc'[d][j] = pc[d][j]
        BY <2>2 DEF IInv, TypeOK
      <3> QED
        BY <2>0, <2>2, <3>1 DEF Kinds
    <2>3. CASE left[d][k] = {type} /\ AfterInventory(d, k, supported)
      BY <1>1, <2>3, AfterInventoryEffect
    <2> QED
      BY <2>1, <2>2, <2>3 DEF CodesDone
  <1>5. ASSUME d \notin failed', NEW t \in MsgTypes, t \in matrix[d] \/ Pending(d, k, t)
        PROVE  t \in matrix'[d] \/ Pending(d, k, t)'
    <2>1. matrix'[d] = matrix[d] \union {type}
      BY <1>2, <1>5 DEF AddCodes
    <2>2. t \in matrix[d] \/ t \in left[d][k]
      BY <1>1, <1>5 DEF Pending
    <2>3. t = type \/ t \in matrix[d] \/ (t \in left'[d][k] /\ left[d][k] # {type})
      BY <1>2, <2>2
    <2> QED
      BY <1>4, <2>1, <2>3 DEF Pending
  <1> QED
    BY <1>1, <1>3, <1>4, <1>5 DEF UpdateEffect

LEMMA UpdateStepEffect ==
    ASSUME Assumptions, IInv, NEW d \in Devices, NEW k \in Kinds, UpdateStep(d, k)
    PROVE  UpdateEffect(d, k)
  <1>0. pc[d]["activation"] # "refresh"
    BY DEF IInv, DeviceInv, OnlineAt
  <1>1. CASE TypesAnswered(d, k)
    <2>1. /\ pc[d][k] = "types" /\ pc'[d][k] = "codes" /\ left'[d][k] = MsgTypes
          /\ \A j \in Kinds : j # k => pc'[d][j] = pc[d][j] /\ left'[d][j] = left[d][j]
      BY <1>1 DEF TypesAnswered, IInv, TypeOK
    <2>2. UNCHANGED <<up, raced, discovered, target, eid, active, uuid, matrix, failed>>
      BY <1>1 DEF TypesAnswered, listVars, deviceVars
    <2> QED
      BY <1>0, <2>1, <2>2 DEF UpdateEffect, Pending, Kinds
  <1>2. CASE TypesFailed(d, k)
    <2>1. pc[d][k] = "types" /\ Finish(d, k) /\ d \in failed'
      BY <1>2 DEF TypesFailed
    <2>2. UNCHANGED <<up, raced, discovered, target, eid, left, uuid>>
      BY <1>2 DEF TypesFailed, listVars
    <2> QED
      BY <2>1, <2>2, FinishEffect DEF UpdateEffect
  <1>3. CASE CodesAnswered(d, k)
    <2>1. PICK type \in left[d][k] : CodesDone(d, k, type, AddCodes(d, type))
      BY <1>3 DEF CodesAnswered
    <2>2. UNCHANGED <<failed, discovered>>
      BY <1>3, <2>1 DEF CodesAnswered, CodesDone, listVars
    <2> QED
      BY <2>1, <2>2, CodesEffect
  <1>4. CASE CodesFailed(d, k)
    <2>1. PICK type \in left[d][k] : CodesDone(d, k, type, matrix[d])
      BY <1>4 DEF CodesFailed
    <2>2. d \in failed' /\ UNCHANGED discovered
      BY <1>4, <2>1 DEF CodesFailed, CodesDone, listVars
    <2> QED
      BY <2>1, <2>2, CodesEffect
  <1>5. CASE InventoryRead(d, k)
    <2>1. pc[d][k] = "inventory" /\ AfterInventory(d, k, matrix[d])
      BY <1>5 DEF InventoryRead
    <2>2. UNCHANGED <<up, raced, discovered, target, eid, left, matrix, failed>>
      BY <1>5 DEF InventoryRead, listVars
    <2>3. \A t \in MsgTypes : ~Pending(d, k, t)
      BY <2>1 DEF Pending
    <2>4. /\ uuid'[d] = UuidOf[eid[d]] /\ uuid'[d] # NoUuid
          /\ \A j \in Kinds : j # k => pc'[d][j] = pc[d][j]
          /\ pc'[d]["activation"] # "refresh"
          /\ d \in active' => d \in active \/ (k = "activation" /\ pc'[d][k] = "idle")
      BY <2>1, AfterInventoryEffect
    <2> QED
      BY <2>1, <2>2, <2>3, <2>4 DEF UpdateEffect
  <1>6. CASE RefreshAnswered(d, k) \/ RefreshFailed(d, k)
    <2>1. pc[d][k] = "refresh" /\ Finish(d, k) /\ k # "activation"
      BY <1>0, <1>6 DEF RefreshAnswered, RefreshFailed
    <2>2. UNCHANGED <<up, raced, discovered, target, eid, left, uuid, matrix, failed>>
      BY <1>6 DEF RefreshAnswered, RefreshFailed, listVars
    <2>3. \A t \in MsgTypes : ~Pending(d, k, t)
      BY <2>1 DEF Pending
    <2> QED
      BY <2>1, <2>2, <2>3, FinishEffect DEF UpdateEffect
  <1> QED
    BY <1>1, <1>2, <1>3, <1>4, <1>5, <1>6 DEF UpdateStep

(* A step of one device leaves the others alone.                           *)
LEMMA OtherDevices ==
    ASSUME IInv, NEW d \in Devices, UNCHANGED TaskAndList,
           SameDevice(d)' /\ OnlineAt(d)' /\ UsableAt(d)',
           \A c \in Devices : c # d =>
               /\ pc'[c] = pc[c] /\ target'[c] = target[c] /\ left'[c] = left[c]
               /\ eid'[c] = eid[c] /\ uuid'[c] = uuid[c] /\ matrix'[c] = matrix[c]
               /\ c \in active' => c \in active
               /\ c \in failed => c \in failed'
    PROVE  DeviceInv'
  <1> SUFFICES ASSUME NEW c \in Devices, c # d
               PROVE  SameDevice(c)' /\ OnlineAt(c)' /\ UsableAt(c)'
    BY DEF DeviceInv
  <1>1. SameDevice(c) /\ OnlineAt(c) /\ UsableAt(c)
    BY DEF IInv, DeviceInv
  <1>2. UNCHANGED <<up, raced, discovered>>
    BY DEF TaskAndList, listVars
  <1> QED
    BY <1>1, <1>2, DeviceLeftAlone

LEMMA CodesOthers ==
    ASSUME TypeOK, NEW d \in Devices, NEW k \in Kinds, NEW type, NEW supported,
           CodesDone(d, k, type, supported)
    PROVE  \A c \in Devices : c # d =>
               /\ pc'[c] = pc[c] /\ uuid'[c] = uuid[c] /\ matrix'[c] = matrix[c]
               /\ left'[c] = left[c]
               /\ c \in active' => c \in active
  <1>1. \A c \in Devices : c # d => matrix'[c] = matrix[c] /\ left'[c] = left[c]
    BY DEF CodesDone, TypeOK
  <1>2. CASE UNCHANGED <<pc, active, uuid>>
    BY <1>1, <1>2
  <1>3. CASE pc' = [pc EXCEPT ![d][k] = "inventory"] /\ UNCHANGED <<active, uuid>>
    BY <1>1, <1>3 DEF TypeOK
  <1>4. CASE AfterInventory(d, k, supported)
    BY <1>1, <1>4 DEF AfterInventory, Finish, TypeOK
  <1> QED
    BY <1>2, <1>3, <1>4 DEF CodesDone

LEMMA UpdateStepOthers ==
    ASSUME TypeOK, NEW d \in Devices, NEW k \in Kinds, UpdateStep(d, k)
    PROVE  /\ UNCHANGED TaskAndList
           /\ \A c \in Devices : c # d =>
               /\ pc'[c] = pc[c] /\ target'[c] = target[c] /\ left'[c] = left[c]
               /\ eid'[c] = eid[c] /\ uuid'[c] = uuid[c] /\ matrix'[c] = matrix[c]
               /\ c \in active' => c \in active
               /\ c \in failed => c \in failed'
  <1>1. CASE TypesAnswered(d, k)
    BY <1>1 DEF TypesAnswered, TypeOK, TaskAndList, deviceVars
  <1>2. CASE TypesFailed(d, k)
    BY <1>2 DEF TypesFailed, Finish, TypeOK, TaskAndList
  <1>3. CASE CodesAnswered(d, k)
    <2>1. PICK type \in left[d][k] : CodesDone(d, k, type, AddCodes(d, type))
      BY <1>3 DEF CodesAnswered
    <2>2. UNCHANGED <<TaskAndList, target, eid, failed>>
      BY <1>3, <2>1 DEF CodesAnswered, CodesDone, TaskAndList
    <2> QED
      BY <2>1, <2>2, CodesOthers
  <1>4. CASE CodesFailed(d, k)
    <2>1. PICK type \in left[d][k] : CodesDone(d, k, type, matrix[d])
      BY <1>4 DEF CodesFailed
    <2>2. UNCHANGED <<TaskAndList, target, eid>> /\ failed \subseteq failed'
      BY <1>4, <2>1 DEF CodesFailed, CodesDone, TaskAndList
    <2> QED
      BY <2>1, <2>2, CodesOthers
  <1>5. CASE InventoryRead(d, k)
    BY <1>5 DEF InventoryRead, AfterInventory, Finish, TypeOK, TaskAndList
  <1>6. CASE RefreshAnswered(d, k) \/ RefreshFailed(d, k)
    BY <1>6 DEF RefreshAnswered, RefreshFailed, Finish, TypeOK, TaskAndList
  <1> QED
    BY <1>1, <1>2, <1>3, <1>4, <1>5, <1>6 DEF UpdateStep

LEMMA UpdateStepKeeps ==
    ASSUME Assumptions, IInv, NEW d \in Devices, NEW k \in Kinds, UpdateStep(d, k)
    PROVE  IInv'
  <1>1. TypeOK'
    BY UpdateStepTypes DEF IInv
  <1>2. UpdateEffect(d, k)
    BY UpdateStepEffect
  <1>3. SameDevice(d)' /\ OnlineAt(d)' /\ UsableAt(d)'
    BY <1>2, UpdateKeeps
  <1>4. /\ UNCHANGED TaskAndList
        /\ \A c \in Devices : c # d =>
               /\ pc'[c] = pc[c] /\ target'[c] = target[c] /\ left'[c] = left[c]
               /\ eid'[c] = eid[c] /\ uuid'[c] = uuid[c] /\ matrix'[c] = matrix[c]
               /\ c \in active' => c \in active
               /\ c \in failed => c \in failed'
    BY UpdateStepOthers DEF IInv
  <1>5. DeviceInv'
    BY <1>3, <1>4, OtherDevices
  <1> QED
    BY <1>1, <1>4, <1>5, TaskAndListKept DEF IInv

LEMMA StartKeeps ==
    ASSUME Assumptions, IInv, NEW d \in Devices,
           Activate(d) \/ \E e \in Eids : Rediscover(e, d)
    PROVE  IInv'
  <1>1. TypeOK'
    BY PollingTypes, RediscoverTypes DEF IInv
  <1>2. SameDevice(d)' /\ OnlineAt(d)' /\ UsableAt(d)'
    BY ActivateDevice, RediscoverDevice
  <1>3. UNCHANGED TaskAndList
    BY DEF Activate, Rediscover, TaskAndList
  <1>4. ASSUME NEW c \in Devices, c # d
        PROVE  /\ pc'[c] = pc[c] /\ target'[c] = target[c] /\ left'[c] = left[c]
               /\ eid'[c] = eid[c] /\ uuid'[c] = uuid[c] /\ matrix'[c] = matrix[c]
               /\ c \in active' => c \in active
               /\ c \in failed => c \in failed'
    <2>1. CASE Activate(d)
      BY <1>4, <2>1 DEF Activate, StartUpdate, IInv, TypeOK
    <2>2. CASE \E e \in Eids : Rediscover(e, d)
      BY <1>4, <2>2 DEF Rediscover, StartUpdate, IInv, TypeOK
    <2> QED
      BY <2>1, <2>2
  <1>5. DeviceInv'
    BY <1>2, <1>3, <1>4, OtherDevices
  <1> QED
    BY <1>1, <1>3, <1>5, TaskAndListKept DEF IInv

LEMMA IInvStep ==
    ASSUME Assumptions, IInv, [Next]_vars
    PROVE  IInv'
  <1>1. CASE \E e \in Eids : EndpointUp(e) \/ EndpointDown(e)
    BY <1>1, SignalTypes, SignalDevices, EndpointUpLists, EndpointDownLists DEF IInv
  <1>2. CASE TaskStep
    BY <1>2, TaskTypes, TaskDevices, IdentifiedLists, OtherTaskLists DEF IInv, TaskStep
  <1>3. ASSUME NEW d \in Devices, Activate(d) \/ \E e \in Eids : Rediscover(e, d)
        PROVE  IInv'
    BY <1>3, StartKeeps
  <1>4. ASSUME NEW d \in Devices, NEW k \in Kinds, UpdateStep(d, k)
        PROVE  IInv'
    BY <1>4, UpdateStepKeeps
  <1>5. ASSUME NEW d \in Devices, PollEventSensor(d)
        PROVE  IInv'
    <2>1. TypeOK'
      BY <1>5, PollingTypes DEF IInv
    <2>2. UNCHANGED <<TaskAndList, updateVars, deviceVars, failed>>
      BY <1>5 DEF PollEventSensor, TaskAndList
    <2>3. TaskInv' /\ ListInv'
      BY <2>2, TaskAndListKept DEF IInv
    <2>4. DeviceInv'
      BY <2>2, DeviceLeftAlone
      DEF IInv, DeviceInv, TaskAndList, updateVars, deviceVars, listVars
    <2> QED
      BY <2>1, <2>3, <2>4 DEF IInv
  <1>6. CASE UNCHANGED vars
    <2>1. TypeOK'
      BY <1>6 DEF IInv, TypeOK, vars, taskVars, listVars, updateVars, deviceVars, eventVars
    <2>2. UNCHANGED <<TaskAndList, updateVars, deviceVars, failed>>
      BY <1>6 DEF vars, TaskAndList
    <2>3. TaskInv' /\ ListInv'
      BY <2>2, TaskAndListKept DEF IInv
    <2>4. DeviceInv'
      BY <2>2, DeviceLeftAlone
      DEF IInv, DeviceInv, TaskAndList, updateVars, deviceVars, listVars
    <2> QED
      BY <2>1, <2>3, <2>4 DEF IInv
  <1> QED
    BY <1>1, <1>2, <1>3, <1>4, <1>5, <1>6 DEF Next, PollingStep, Kinds

-----------------------------------------------------------------------------
(***************************************************************************)
(* Theorems.                                                               *)
(***************************************************************************)

LEMMA Invariance ==
    ASSUME Assumptions
    PROVE  Spec => []IInv
  <1>1. Init => IInv
    BY InitIInv
  <1>2. IInv /\ [Next]_vars => IInv'
    BY IInvStep
  <1> QED
    BY <1>1, <1>2, PTL DEF Spec

(* The variables of the discovery task, of the list of endpoints and of    *)
(* the devices keep their types; an update that is under way was called    *)
(* with an endpoint that exists, never with searchEID's failure value.     *)
THEOREM TypeCorrect ==
    ASSUME Assumptions
    PROVE  Spec => []TypeOK
  <1>1. IInv => TypeOK
    BY DEF IInv
  <1> QED
    BY <1>1, Invariance, PTL

(* A device is online only while the endpoint that doPollingTask brought   *)
(* it online with is enabled, up to the two ways around offlineMctpEndpoint*)
(* that OnlineIsEnabled names.                                             *)
THEOREM Online ==
    ASSUME Assumptions
    PROVE  Spec => []OnlineIsEnabled
  <1>1. IInv => OnlineIsEnabled
    BY DEF IInv, TypeOK, DeviceInv, OnlineAt, OnlineIsEnabled
  <1> QED
    BY <1>1, Invariance, PTL

(* An online device whose updates are over and none of whose queries       *)
(* failed has all its commands and its UUID, however the updates of the    *)
(* polling coroutine and of rediscovery events overlapped.                 *)
THEOREM Usable ==
    ASSUME Assumptions
    PROVE  Spec => []UsableUnlessFailed
  <1>1. IInv => UsableUnlessFailed
    <2> SUFFICES ASSUME IInv, NEW d \in active \ failed, Quiet(d)
                 PROVE  matrix[d] = MsgTypes /\ uuid[d] # NoUuid
      BY DEF UsableUnlessFailed
    <2>1. UsableAt(d) /\ matrix[d] \subseteq MsgTypes
      BY DEF IInv, TypeOK, DeviceInv
    <2>2. \A t \in MsgTypes, k \in Kinds : ~Pending(d, k, t)
      BY DEF Quiet, Pending
    <2> QED
      BY <2>1, <2>2 DEF UsableAt
  <1> QED
    BY <1>1, Invariance, PTL

(* updateNsmDevice gives a device the UUID of the endpoint it was called   *)
(* with, which may be any that is listed for the device.  No sequence of   *)
(* activations and events makes a device change the UUID that it learnt:   *)
(* searchEID returns nothing as soon as two UUIDs are listed for it.       *)
UuidIsKept == \A d \in Devices : uuid[d] # NoUuid => uuid'[d] = uuid[d]

LEMMA UuidStep ==
    ASSUME Assumptions, IInv, [Next]_vars
    PROVE  UuidIsKept
  <1>1. ASSUME NEW d \in Devices, NEW k \in Kinds, UpdateStep(d, k)
        PROVE  UuidIsKept
    <2>1. SameDevice(d)
      BY DEF IInv, DeviceInv
    <2>2. UpdateEffect(d, k)
      BY <1>1, UpdateStepEffect
    <2>3. uuid[d] # NoUuid => uuid'[d] = uuid[d]
      BY <2>1, <2>2 DEF UpdateEffect, SameDevice
    <2>4. \A c \in Devices : c # d => uuid'[c] = uuid[c]
      BY <1>1, UpdateStepOthers DEF IInv
    <2> QED
      BY <2>3, <2>4 DEF UuidIsKept
  <1>2. CASE UNCHANGED uuid
    BY <1>2 DEF UuidIsKept
  <1>3. CASE TaskStep \/ \E e \in Eids : EndpointUp(e) \/ EndpointDown(e)
    BY <1>2, <1>3
    DEF TaskStep, PingAnswered, Identified, NotIdentified, EndpointUp, EndpointDown, deviceVars
  <1>4. ASSUME NEW d \in Devices,
               Activate(d) \/ PollEventSensor(d) \/ \E e \in Eids : Rediscover(e, d)
        PROVE  UuidIsKept
    BY <1>2, <1>4 DEF Activate, PollEventSensor, Rediscover, deviceVars
  <1>5. CASE UNCHANGED vars
    BY <1>2, <1>5 DEF vars, deviceVars
  <1> QED
    BY <1>1, <1>3, <1>4, <1>5 DEF Next, PollingStep, Kinds

THEOREM UuidKept ==
    ASSUME Assumptions
    PROVE  Spec => [][UuidIsKept]_vars
  <1>1. IInv /\ [Next]_vars => [UuidIsKept]_vars
    BY UuidStep
  <1> QED
    BY <1>1, Invariance, PTL DEF Spec
=============================================================================
