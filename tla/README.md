# A TLA+ verification of nsmd

nsmd is the daemon of a baseboard management controller that talks NVIDIA
System Management (NSM) messages over MCTP to GPUs, switches and bridges, and
puts what it learns on D-Bus. This directory holds TLA+ models of its core,
configurations that check them with TLC, and theorems about them that TLAPS
checks.

nsmd is one process with one thread: an `sd_event` loop runs callbacks, and
C++20 coroutines suspend on awaitables that callbacks resume. There are no data
races. The hard parts are what may happen while a coroutine is suspended, what
a callback may do to the state of the callback that called it, messages that are
late, repeated or lost, calls to the event loop and the kernel that fail, and a
lock file that nsmd shares with other processes.

## The system

| Part | State | Operations | Talks to |
| --- | --- | --- | --- |
| Instance ID database (`libnsm/instance-id.c`, `nsmd/instance_id.hpp`) | file of lock bytes; per process and endpoint the last ID and a bit set of allocated IDs | open, close, allocate, free | other processes, through `fcntl` locks |
| Requester (`requester/handler.hpp`, `request.hpp`, `request_timeout_tracker.cpp`) | per endpoint a queue of requests, two timers per request, a deferred removal, a timeout log | register, run, response, retry, expiry, removal | coroutines (resumes them), sockets, instance IDs |
| MCTP sockets (`nsmd/socket_handler.cpp`, `socket_manager.hpp`) | descriptors, buffers | send, receive, dispatch | requester, event manager |
| Coroutines (`common/coroutine.hpp`, `coroutineSemaphore.hpp`, `timer.hpp`, `sleep.hpp`) | frames, semaphore queue, event sources | suspend, resume, acquire, release, start, stop | everything |
| Long-running commands (`nsmd/nsmLongRunning`, `nsmEvent/nsmLongRunning*`, `nsmRawCommand`, the handler registry in `nsmDevice.cpp`) | registered handler, accepted instance ID, a timer per handler, a semaphore per device | update, accept, event, timeout | requester, event manager |
| Async sets and calls (`nsmd/nsmSetAsync`) | ring of 32 result objects; value and status pointers per sensor | set, call, finish | D-Bus clients, long-running commands |
| Discovery (`nsmd/deviceManager.cpp`, `requester/mctp_endpoint_discovery.cpp`) | device table, discovery queue | endpoint added, online, offline, ping, identify | requester, polling |
| Polling and readiness (`nsmd/sensorManager.cpp`, `nsmSensor.cpp`, `nsmReady`) | sensor queues per device, readiness flags | start, poll, requeue, ready | requester, long-running commands |
| Events (`nsmd/eventManager.hpp`, `eventTypeHandlers.cpp`, `nsmEvent*`, `nsmEventConfig`) | handlers by type and ID, subscription masks | dispatch, acknowledge, subscribe | sensors, long-running commands |
| Codecs (`libnsm/*.c`) | none | encode, decode of requests, answers and events | everything |
| Device objects (`nsmd/nsmChassis`, `nsmProcessor`, `nsmPort`, `nsmMemory`, `nsmNumericSensor`, ...) | last value of each property | handle a response, set a property | polling, D-Bus |
| Mockup responder (`mockupResponder`) | values it makes up | a handler per command | stands for a device |
| nsmtool (`nsmtool`) | none | a request, its answer printed | devices, instance IDs |
| Tools, unit files, examples | | | |

What makes the modelled parts correct:

* **Instance IDs**: no two users of the database have one ID of an endpoint at
  once; an ID does not come back at once; calls end.
* **Requester**: a request holds an ID exactly while it runs; one request at a
  time, in order; an answer goes to the request it answers; every suspended
  coroutine is resumed, once; no timer outlives its request.
* **Long-running commands**: one update at a time and in order; an event goes
  to the update under way; an update that says it succeeded has a result, and
  its own; every update ends.
* **Async sets**: a result object is not given out again while its operation
  runs; overlapping sets of a property share a sensor object without following
  a dead pointer or losing the last value; every operation ends and its result
  object says so.

* **Discovery**: a device is online only while its endpoint is enabled; it then
  has its UUID and its commands, whatever updates overlapped; a device that was
  identified comes online, whatever fails on the way.
* **Polling**: no sensor is lost from the circular queue while others are added,
  reset or finished; a ready device has no queued sensor whose last update is older
  than its coming online by more than the refresh limit; the service is
  enabled only while every online device is ready; an online device gets ready.
* **Codecs and their users**: what one side of libnsm writes the other side
  reads; an object or command that reports success has the value of the last
  answer, all of it.

What makes the others correct, for the plan below: an event is acknowledged when
asked for and reaches the handler of its type and ID.

## The modules

| Module | Models | Used by |
| --- | --- | --- |
| `InstanceId` | allocator, with each system call a step, several processes | `InstanceId_proofs`, `MC_InstanceId` |
| `IdPool` | what a user of the allocator relies on: IDs are taken and dropped, never shared | refined by `InstanceId` |
| `Requester` | request queue of one endpoint | `Requester_proofs`, `MC_Requester` |
| `SerialService` | one request at a time, first come first served | refined by `Requester` |
| `LongRunning` | long-running protocol of one device | `LongRunning_proofs`, `MC_LongRunning` |
| `FifoLock` | a lock whose users get their turn in the order in which they ask | refined by `LongRunning` |
| `AsyncOperations` | result objects and sets of properties of one device | `AsyncOperations_proofs`, `MC_AsyncOperations` |
| `ResultPool` | a result object is about one operation until that ends | refined by `AsyncOperations` |
| `Discovery` | endpoints, the discovery task, updates of devices | `Discovery_proofs`, `MC_Discovery`, `Nsmd` |
| `Polling` | polling coroutines, circular queues, readiness | `Polling_proofs`, `MC_Polling`, `Nsmd` |
| `Nsmd` | `Discovery`, `Polling` and `Exchange` side by side | `Nsmd_proofs`, `MC_Nsmd` |
| `Commands` | libnsm's codecs: lengths and refusals of each command | the next four |
| `Readers` | objects of nsmd: the command each sends, what it makes of the answer | `Exchange`, `Tool` |
| `Tool` | the same for nsmtool | `Exchange` |
| `Responder` | handlers of the mockup | `Exchange` |
| `Exchange` | requests of a client one after the other, and their answers | `Exchange_proofs`, `Nsmd` |

`MC_*` modules hold the model values, and `*_proofs` the theorems. Operators
marked as mutants in the modules are plausible bugs of the definition they
precede; each property is violated under one of them.

### InstanceId

`pc[p]` says where process `p` is inside `instance_id_alloc` or
`instance_id_free`, `cur` is `l_iid`, `prev` and `allocations` are the fields of
`struct eid_state`, `rdlck` is the kernel's view of the shared locks. The loop of
`instance_id_alloc` is cut at its two `fcntl` calls: `SkipOwn` (line 141),
`Reserve` (F_OFD_SETLK), then `Claim` or `TryNext` (F_OFD_GETLK), `ScanExhausted`
(loop condition). `instance_id_free` is `Unlock` then `ClearBit`. `FcntlFails`
covers the error returns, `Restart` a process that ends anywhere and is started
again. Bytes of different endpoints do not interact, so one endpoint is modelled.

`FailedScanReservesAll` states what the code really does on exhaustion: a scan
keeps the shared locks it took on IDs it could not claim. The run
`instance_id_again` shows the consequence: two processes whose scans met leave
shared locks of both on every byte, after which both get `-EAGAIN` with nothing
in use. `nsmd/instance_id.hpp` documents `-EAGAIN` as "no available instance IDs".

### Requester

`queue`, `iid`, `tries`, `timers` are `handlers[eid]` and its entries; `prev`,
`allocations` and `foreign` are this endpoint's row of the database, `foreign`
being what other processes hold (`OthersMove`); `wire` holds the answers the
device may still deliver, any number of times; `awaiting` is what each coroutine
is suspended on; `removal` is the deferred `removeRequestEntry`; `frame` is the
event handler on the stack. Handlers resume a coroutine on their own stack, so
`HandleResponse` and `ExpiryTimerFires` are split at that point:
while `frame` is not `"loop"`, only `RegisterRequest` and the handler's return are
possible. `broken` records that the code left defined behaviour (an exception
out of a callback or out of a `noexcept` function, a failed assertion, a resume
of an awaitable that is gone).

Settings: `QuietRemoval` excludes an answer between the expiry of a request and
its deferred removal, `ForeignSets` says what other processes may hold,
`MaxFaults` how many calls fail, `Lifetime` how many later requests an answer in
flight outlives. `OwnDatabase` is no other process and no failing call; `SoleUser`
adds a quiet removal and a `Lifetime` below the number of IDs, and nothing goes wrong
in it.

What goes wrong outside it, each step of it in the model:

* `requester_failed`: a registration that fails leaves the request queued; it
  runs later and resumes an awaitable that no longer exists.
* `requester_late`: after an expiry the next request is at the head of the queue
  and not yet started; its message still has instance ID 0, and a late answer
  with ID 0 matches it. Freeing the ID it does not have throws.
* `NoStall` and `EveryRequestEnds` fail if the last `runRegisteredRequest` of a
  handler fails: nobody tries again. They are checked without faults.
* A failed send is taken for a success (`Start`), as both socket handlers return
  a positive code: the request runs until its timers end it.

### LongRunning

`pc[u]` is where a coroutine's update is: queued at the semaphore, waiting for
the response, or asleep on the timer. `taken`, `suspended`, `scheduled` are the
semaphore: its binary semaphore, its queue, and the coroutines whose deferred
resumption is pending. `active` is the handler registered at the device;
`acceptId`, `longRunning`, `timer`, `expired` are fields of the handler objects.
A sensor object may serve two coroutines (the polling loop, and the refresh
after a set, `asyncOperationManager.cpp:228`); a raw command makes a new object
each time (`Raw`). `calls`, `mine` and `data` are history: which call an update made,
and the call whose result it handled. The response is one step
(`RequestFails`, `ResponseIsResult`, `Rejected`, `Accepted`), as the requester
delivers it once or reports an error. Events need no sending: any event
of a call made may come, before the response, twice, or after later calls
(`Lifetime`), and no event has to come.

`NsmLongRunningSensor`, `NsmAsyncLongRunningSensor` and the raw command handler
follow the same steps; `handler \in Raw` marks the differences.
`PromptDevice` says that while a call of a command is under way, the only event
of that command that comes is the one it awaits: none of an earlier call, and
none before the response. Without it, `long_running_late` shows that an event
that `validateEvent` refuses still stops the timer, and the update reports success
with no result. Raw commands do not need it: their handler is new and reports
what `validateEvent` said, so they only need that no event outlives all
instance IDs (`RawCommandsAreSafe`). Nor does `AwaitedResultIsOwn`: a result that an
update takes while it waits is that of its own call, though events of earlier calls
of the same command come late and the instance ID comes round again. Before the
response a kept handler still has the ID of its previous call and may take that
call's event once more; that is outside the property.

The event-loop calls that may fail: `sd_event_add_time` in `TimerAwaiter::start`
(reported) and `stop` (timer `"lost"`: the coroutine is never resumed), and
`sd_event_add_defer` in `release` (the coroutine is in no queue any more and the
semaphore stays taken). So `NobodyForgotten`, `ImplementsFifoLock` and
`EveryUpdateEnds` are claimed without faults only.

### AsyncOperations

`status` and `currentObjectCount` are the ring of `AsyncOperationManager`
(`"none"`: the object has not been made yet), `slot[o]` the object of an
operation, `localStatus[o]` the variable `status` in the frame of `setImpl`.
`valueOf` and `statusOf` are the pointers of `NsmAsyncSensor`, given as the set
into whose frame they lead. An operation is a call like the raw command
(`Call`), a set whose property nobody registered (`SetUnknown`), a set by a
function such as `setEgmModeEnabled` (`SetByFunction`), or a set by an
`NsmAsyncLongRunningSensor` such as `NsmSetEccMode` (`SetBySensor`); the sets by
the sensor are all of one property. Such a set takes the pointers, waits for
the semaphore (`holder`, `line`), sends the value that `valueOf` names by
then, ends, and refreshes the sensor of the property, for which it asks for the
semaphore again. The semaphore is the one that `LongRunning` proves to be a fair
lock, reduced to that; `Others` stands for the polling loop and raw commands.
Values are told apart by the set that brought them; `IllTyped` sets bring a value
of the wrong type.

The second of two overlapping sets redirects the pointers the first still
uses. That does not break the sensor (`PointersAlive`): the sets get the
semaphore in the order in which they took the pointers, so the owner of the
pointers is the last to need them. This rests on the semaphore being fair, and
on no suspension between taking the pointers and asking for it. The last value
wins (`LastSetWins`), but an earlier set may send the value of a later one and
leave its own failure in the later one's status: `OwnOutcome` is claimed only for sets
that met no other.

What the code does not report, each a step of the model: a set that the device
rejects, one whose event never comes, and a value of the wrong type all end with
`Success`, which is the status `setImpl` begins with. An unknown property is
worse: its result object stays `InProgress` for ever. `async_refused` shows that
operations are then refused although fewer than `maxObjectCount` are under
way.

### Discovery

`up` are the endpoints that are enabled, `queue` and `stage` are
`queuedMctpInfos` and the request that `discoverNsmDeviceTask` awaits, `discovered`
and `eidTable` the lists it fills. `pc[d][k]` is what an update of device `d` awaits;
`k` is `"activation"` (from the polling coroutine) or `"rediscovery"` (from an
event, in a coroutine of its own), so the two overlap. `target` is the EID the
update was called with, `left` the message types still to be asked for, `matrix`
those with entries in the command code matrix. Each request is two steps, so
`EndpointUp` and `EndpointDown` (signals of the MCTP control daemon), `Rediscover`
and the other update fall between sending and using the answer.
`SearchEid` is the lookup by instance number, UUID or EID
with the three mapping tables (`RemapInstanceNumber`). `FindByUuid` is the first
device with a UUID: going offline and rediscovery reach that one only. So it is assumed
(`OneDevicePerUuid`) that endpoints of one UUID are not configured as different
devices; of two such devices the second would stay online without an endpoint.

`OnlineIsEnabled` has two exceptions, both of the code: `setOnline` does not look
again whether the endpoint was disabled while its answer was in use (`raced`), and
a device whose UUID was never learnt is not found by `offlineMctpEndpoint`.
`UsableUnlessFailed` excepts devices one of whose queries failed.

A promise the code does not keep is `SubscribedAgain`: a device that came back
is to be subscribed to events again. `updateNsmDevice` updates the
`capabilityRefreshSensors` (line 349) before `setOnline`, and
`SensorManagerImpl::SendRecvNsmMsg` refuses requests to a device that is not active;
the static event sensor has left the polling queue by then.
`tlc -config Discovery_events.cfg MC_Discovery` shows it.

### Polling

`pc[d]` is where `doPollingTask` of a device is suspended, `long[d]` the same for
`doPollingTaskLongRunning`. `queue`, `cur`, `due` are `roundRobinSensors`, the sensor
taken from it, and `toBeUpdated`; `refreshed` and `read` are fields of the sensor objects, `young` tells which
of their time stamps may be within the refresh limit;
`active`, `ready`, `checkable` and `service` are the flags of devices and service,
`atPriority` the devices in `POLL_PRIORITY`. An update is two steps, and
while it is under way an endpoint may come or go (`EndpointUp`, `EndpointDown`,
which takes the device offline), a sensor be added (`AddSensor`) or the GPIO say that
power is good (`PowerGood`, which puts static sensors back into the queue). How
much fits into an interval is a choice at each place where the code looks at the
clock.

The code takes the first refreshed sensor that it meets for the end of a round
("A complete iteration of the circular queue", `sensorManager.cpp:762`), and the
device for ready. The loop also passes over every sensor whose time stamp is within
the refresh limit (`needsUpdate`, `nsmObject.hpp:68`; one limit for all sensors, 30 s
by `meson_options.txt`), and a device whose sensors were all passed over is ready, too
(`sensorManager.cpp:727-735`). Neither `setOnline` ("Mark all the sensors as
unrefreshed") nor the GPIO handler touches the time stamps. So what ready means is
`ReadyMeansRenewed`: each sensor that is queued was updated since the device came
online and since power returned, **or at most the refresh limit before that**. Time is not
modelled: `young` holds the sensors that were updated, each new round chooses which of
them are beyond the limit by now, and any sensor in `young` may be passed over or
not. The history variable `renewed` takes at each new round the sensors that are
still young for renewed, and adds each one that is updated.

What that is weaker than, and the code does not promise:

* Not every sensor has been updated since the device came online, contrary to the
  comment at `sensorManager.cpp:727` ("able to succesfully update all sensors in one
  iteration"): a device that is back within the limit is ready with what it had
  before. `tlc -config Polling_skipped.cfg MC_Polling` (`ReadyMeansRefreshed`).
* A static sensor that was read shortly before power returned is put back into the
  queue and passed over: the device is ready with the standby value. The same run.
* Time stamps begin with 0, the time of the boot: an nsmd that begins to poll within
  the limit after it may pass over sensors that were never updated (`EarlyStart`). The
  property is claimed for one that starts later.
  `tlc -config Polling_early.cfg MC_Polling` shows the other case.

Excepted are also sensors that are added later and the devices in `disturbed`. A
device is put
there by a GPIO signal that finds its coroutine at the queue, or that leaves it with
a sensor that is in the queue twice (the signal puts back a static sensor that is
just then out of the queue to be updated, and whose failed update puts it back once
more), and leaves it when its next interval begins with each sensor queued
once. For these the claim does fail (`RoundMeansRenewed`): a sensor that is queued
twice is met again before the others had their turn, and a signal that arrives
during an interval marks sensors as not refreshed behind the back of a loop that has
already counted them. The device, and with it the service, is then called ready with
a static sensor not read since power returned.
`tlc -config Polling_rounds.cfg MC_Polling` shows it.

`ServiceSettles` does not hold:
`checkAllDevicesReady` (`sensorManager.cpp:461`) runs only when a
device becomes ready, so when the last one that is not ready goes offline the
service stays in `Starting`. `tlc -config Polling_stuck.cfg MC_Polling` shows it.

### Commands, Readers, Tool, Responder, Exchange

Most of nsmd is some 150 objects that each send a command and make something of
the answer, and most of libnsm the pairs of encoders and decoders these use. One
at a time they are trivial; what matters is that the definitions in four places
(encoder, decoder, object or nsmtool command, mockup handler) agree. So the four
modules hold one definition for each, and `Exchange` combines them.

`Commands`: a message is its number of bytes. `sends` and `answers` are what the
encoders write, `takes` and `accepts` the lengths the decoders let through. `refusal` is
how a decoder reads a completion code: `decode_reason_code_and_cc` knows the code
whatever the length but succeeds only for a nine-byte refusal (`"reason"`), other
decoders look at the length first, or take any code. Tables have one sample. A
payload of variable length has a usual size of more bytes than the decoder's least
(the string of a driver's version, the words of a permission map); inventory properties,
which all clients read with one pair of codecs, have four: a byte, four bytes, eight, and a string
(`GetInventoryNvU8` to `GetInventoryString`). So an answer that is cut short can be one
that the decoder takes.
`Readers` and `Tool`: the command of each object, how it concludes that it
succeeded, what becomes of its value on an error and on a refusal, and whether it
compares the payload's size, as the header of the answer gives it, with its value's
(`compares`, `nsmCommon.cpp:275`). A header that survives the cut passes that test.
`Responder`: which requests a handler answers and with how many bytes.

In `Exchange`, `program` and `client` choose who asks; `Ask` is a request with the
answer that is on its way: from the device, complete, one byte longer, cut short
by a byte or to the least length the decoder lets through, refused in either of the two
encodings libnsm has, or lost; or what the mockup's handler makes of the request.
`HandleResponseMsg` and `GiveUp` are the client's turn. A value is `"stale"` once
a new request is out, for the device has moved on, and `"partial"` when the decoder
took an answer that was cut short. Where a decoder looks behind such an answer
(`LooksBehind`, the string of `GetDriverInfo`), what it finds there is a choice.

What the two properties except, by name, is what TLC found:

* The mockup never answers `ProvideToken` (its request decoder asks for the longest
  token, `debugToken.cpp:106`), has buffers that leave out the header of the
  payload for `GetHistogramData` (`mockupResponder.cpp:5950`) and
  `GetNetworkDeviceLogInfo` (4966), so the encoder writes more than is sent, and
  answers for an unknown inventory property with an empty one, which no client
  decodes (`MockupFallsShort`).
* Eight objects return the decoder's result after a refusal, which is a success
  (`ReturnsRc`); three event set-ups return a completion code that starts as
  success, though the decoder failed, and one check of a port returns nothing
  (`IgnoresRc`).
* The decoders of 26 commands ask for fewer bytes than they read (`AsksForLess`), so
  that an answer that was cut short is reported as a success with a partial value. They ask
  for the first byte of the payload and copy as many as its header says (inventory
  information, `platform-environmental.c:474`; debug and log information,
  `diagnostics.c:414`, `677`; clearable data sources), for the fixed part or a first
  element (histogram format and data, `base.c:1274`, `1424`; driver information, preset and
  workload profiles, port telemetry), or leave the header of
  the answer or more out of the sum (scalar groups, firmware). The list is complete: `Sound` in
  `Exchange_proofs` shows that every other decoder refuses every shorter answer.
* The decoders of tables look at the header of the table alone, and their users
  skip a sample that is not whole (`TakesWhatIsThere`).

In `nsm_telemetry_cmd.cpp:1258` the header length is added to a length that
already has it; with the answers of the model that changes nothing.

## The runs

| Run | Setting | Shows |
| --- | --- | --- |
| `instance_id` | 2 processes, 3 IDs | safety, call termination, refinement of `IdPool` |
| `instance_id_again` | same | violated: `-EAGAIN` means that IDs are in use |
| `requester` | 3 coroutines, 4 IDs, 2 retries, 9 requests, `SoleUser` | no cross-talk, no stall, defined behaviour, the timeout log, every request ends |
| `requester_faults` | 2 coroutines, 3 IDs, 1 retry, 3 requests, 2 faults, other processes | ID bookkeeping, timers and order survive everything that fails |
| `requester_failed`, `requester_late` | as above, one cause each | violated: a failed request stays failed; a matching answer is handed over |
| `long_running` | 3 coroutines, 3 handlers, 3 IDs, 4 updates, no faults, any events that do not outlive all IDs | an awaited result is of the own call, fairness of the semaphore, nobody forgotten, no timer left running, every update ends |
| `long_running_faults` | same with 2 IDs, 1 fault, prompt events | no success without result, no timeout with one, handler of the busy update |
| `long_running_late` | 3 updates, late events | violated: success means there was a result |
| `async_operations` | 4 operations, 3 of them sets by the sensor, one ill-typed; 3 result objects | refinement of `ResultPool`, live pointers, last value wins, own outcome when alone, every operation ends |
| `async_refused` | same | violated: a refusal means that all result objects are in use by operations under way |
| `nsmd` | one of three components, chosen by the initial state. Discovery: 3 endpoints of 2 devices, 4 signals or events, 1 failed request. Polling: 2 devices, 4 sensors, 2 changes. Exchange: every client, any number of exchanges | who is online is enabled and usable; an identified device comes online; no sensor is lost, ready and enabled are true, an online device becomes ready; what is encoded is decoded; success means the last answer's value |

The components of `nsmd` share no variable: each models what it needs of the
others (`Polling!Activated`, `Discovery!PollEventSensor`, and in both the result of
an update). Module `Nsmd` lets all three interleave, and that is
what `Nsmd_proofs` is about. The run explores them one at a time (`MCSpec`): a step
of one leaves the others where they began, as the product would only multiply
states. `Discovery.cfg` and `Polling.cfg` check one component alone with one more
change.

Two properties are conjunctions: `QueueIsServed` of `NoStall` and `QueueIsAwaited`,
`ReadinessIsTrue` of `EnabledMeansReady` and `ReadyMeansRenewed`.
`NoImmediateReuse`, `InUseIsLocked` and `TimerIsAwaited` are in no run, as a
theorem proves each of them.

**Bounds.** Two processes suffice for `InstanceId`: the answer of F_OFD_GETLK
depends on whether anybody else has a lock. Three IDs give a scan that skips,
one that claims after a foreign ID and one that is exhausted. With 9 requests and
4 IDs the round robin goes around twice. `Lifetime` equals the number of IDs, the
largest value for which an answer in flight cannot meet its own ID again. In
`LongRunning` 3 IDs make the fourth call carry the ID of the first, whose event can no
longer come with `Lifetime` 3, while those of the second and third can; with 4 the run
violates `AwaitedResultIsOwn`. 4 updates by 3 coroutines are needed to have one that runs, one that
is promised the semaphore, one that waits, and one that comes late. In `AsyncOperations`
4 operations on 3 result objects make the ring go around, be searched and be
exhausted, with one, two or three sets overlapping. In `Discovery` 4 changes let an
endpoint come, go and come back while the other update runs; in
`Polling` 2 (endpoints that come, sensors added, power that returns; endpoints that go
are not counted) let power return or a sensor be added while a device comes or goes.
`MaxLength` (400) is longer than any message of `Commands`. In `Exchange` clients are
independent, and a value depends on the last answer and what was held before:
three exchanges reach every state. Requests, updates and
operations are bounded (`MaxRequests`, `MaxCalls`, one call per operation), so behaviours of these models
end and deadlock is not checked there; `InstanceId` is unbounded and its
deadlocks are checked.

**Fairness.** `InstanceId!FairSpec`: a process in a library call goes on; the calls
never block (F_OFD_SETLK, not SETLKW). `Requester!Fairness`: an armed expiry timer
fires, deferred calls run, handlers return; nothing is assumed of the network,
nor that coroutines issue requests. `LongRunning!FairSpec`: a request ends, which is
`Requester!EveryRequestEnds`; timers fire and deferred calls run; nothing is
assumed of events. `Discovery!FairSpec`: the discovery task, the polling coroutines
and updates go on, for requests end; nothing is assumed of signals.
`Polling!FairSpec`: the polling coroutines go on, and infinitely many
intervals of a device leave time for a sensor of the queue (strong fairness of
`RoundBegins`, the queue's turn beginning with time left); if the priority sensors
always used up the interval the queue would indeed never go around.
`Exchange` states none: it checks no liveness. `AsyncOperations!FairSpec`: requests and updates end, which are
`EveryRequestEnds` and `EveryUpdateEnds`, and deferred calls run; nobody has to start
an operation.

## The proofs

TLAPS proves, for any number of processes, coroutines, IDs, requests, retries
and faults:

* `InstanceId_proofs`: `TypeCorrect`, `MutualExclusion`, `UseIsLocked`,
  `SuccessiveIdsDiffer`, `PoolRefinement`. The inductive invariant `LockDiscipline`
  says that every ID in use carries its process's shared lock, that a process
  about to ask about an ID already has its lock and has not allocated it, and
  that no ID is used twice. The order (lock first, then ask) is what makes it
  inductive: a claim finds nobody else's lock, and every user has one.
  `FailedScanKeepsAll` proves the behaviour that `instance_id_again` is about: the
  scan walks the ring from `prev` and leaves its lock on every ID it has passed
  (`ScanLocks`), so a scan that is back at `prev` has locked the whole endpoint.
* `Requester_proofs`: `TypeCorrect`, `NoIdLeaks`, `TimersBelongToHead`,
  `ServesInOrder` in every setting. The theorems named `...Alone` assume
  `OwnDatabase` and share the inductive invariant `Alone`. `QueueIsServedAlone` and
  `FailedStaysFailedAlone` need no more: whenever answers come and however old they
  are, no request is forgotten and none reported as failed is completed. (The run
  `requester_failed` shows the second violated when other processes hold all IDs.)
  `SoundAlone` also needs `QuietRemoval`, the cause of `requester_late`, and
  `NoCrossTalkAlone` all of `SoleUser`. `NoIdLeaks` and `TimersBelongToHead` are inductive together:
  whether an ID is held is decided by the expiry timer of the head. Cross-talk
  is excluded by counting: an answer that is `k` starts old carries the ID `k`
  places before `prev`, and `Lifetime` keeps `k` below the number of IDs.
  `ResendsUnderItsId` assumes only `MaxFaults = 0`: whatever other processes and
  late answers do, a request that does not run has all its retries (`RetriesLeft`),
  so it starts with the counter full and the counter never wraps; a timer that fails
  to start would break that. `NoneForgotten` and `TimeoutLog` need no assumption:
  requests are numbered as they register and leave from the front, so the queue
  always is the last `Len(queue)` numbers (`QueueIsRecent`); hence the request that a
  coroutine awaits is in it, and the last message of the log is the number before
  the head (`LastLeft`).
* `LongRunning_proofs`: `TypeCorrect`, `HandlerOfTheBusyOne`, `TimersAreAwaited` in every
  setting; `NobodyIsForgotten` and `FairLock` (refinement of `FifoLock`) assume
  `MaxFaults = 0`. The inductive invariant `IInv` adds that whoever is in a queue
  of the semaphore is there once and is not under way, that at most one
  resumption is pending, and that nobody is under way while one is; `Promised`
  adds that the semaphore is taken only for somebody. The proof of the
  refinement first reduces every action to one of five effects on the
  semaphore (`LockSteps`). `OkMeansItsResult` and `TimeoutMeansNone`
  assume `PromptDevice`, and hold with faults. Their invariant `Results` follows the
  update under way: its handler carries its call's ID and is not expired; while the
  timer is armed nothing was handled, and once it is being stopped, the result was.
  Without `PromptDevice`, for events that come early, late or twice,
  `AwaitedResults` proves of every handler that a result taken while waiting is of the
  own call (`AwaitedResultIsOwn`), and `RawCommandsAreSafe` the facts of success and
  timeout of raw commands, if `Lifetime` is at most the
  number of IDs (an event does not outlive a full turn of the instance IDs, 32 in the
  code) and `NoId` is not an ID. Both rest on `IdsApart`: calls less than a turn apart
  have different IDs. With `Lifetime` one larger TLC finds a counterexample.
* `AsyncOperations_proofs`: `TypeCorrect`, `OnlyUnknownLeaks`, `PoolRefinement`,
  `PointersStayAlive`, `SetsConverge`, `AloneIsOwn`, with no assumption beyond the
  constants' types. `SlotDiscipline` says that objects are made in order and that one
  in progress has exactly one operation that holds it; `SlotSteps` reduces every
  action to giving out, ending or neither. `SetDiscipline` says who is in the
  line and that whoever is behind the newest set in it has ended its update:
  that order keeps the pointers alive, and with it the value sent last is
  the newest (`LastIsNewest`) and a set alone keeps its own books (`OwnAccounts`).
* `Polling_proofs`: `TypeCorrect`, `Readiness`, `SensorsKept`, for any devices, any
  finite set of sensors and any number of signals. `Kept` says that every sensor has
  a place (in the queue, being updated, or static and read) and one that is not
  static only one: each step that takes a sensor puts it back, and `PowerGood` adds
  static ones only. `Round` is what makes the first refreshed sensor the end of a
  round: behind a refreshed sensor there are only renewed ones, or ones added later
  (`Sorted`), because the loop moves sensors from the front to the back one by one, each
  either updated or passed over; and what is passed over is renewed, too (`Dated`: no
  sensor is within the refresh limit that was not updated since, or within the limit
  before, the device came online). `Readiness` assumes that nsmd starts later than the
  limit after the boot (`~EarlyStart`). The loop, which skips and rotates in one step, is handled by lemmas
  about sequences (`Rotated`).
* `Discovery_proofs`: `TypeCorrect`, `Online`, `Usable`, and `UuidKept`, which is in
  no run: no sequence of activations and rediscovery events changes a UUID that a
  device has learnt. `SameDevice` says that the endpoints listed for a device, the
  one it came online with and those its updates were called with are of one physical
  device; `OnlineAt` that a device about to come online has an endpoint that was
  enabled when last looked at; `UsableAt` that whatever the matrix lacks, some update
  under way will still ask for. The last is why overlapping updates do no harm: an
  update only clears what it then asks for again.
* `Exchange_proofs`: `TypeCorrect`, `CleanExchange`, `SuccessIsCurrent`. `Exchange` has no
  parameters and TLC goes through every command and client there is, so the runs
  already decide the two properties; what the proof adds is why they hold. A short
  argument about the steps (`Concluded`: outcome and value are what the decoder and the
  client made of the answer) needs three facts of the tables, and these are what a
  new command or client has to meet: `Sound` of every command (the whole answer is
  decoded and nothing shorter is, but for the decoders named), `Concludes` of every
  client (success is a decoded answer that is not a refusal, but for the clients named)
  and `Suits` of every handler (it takes what libnsm encodes and answers what libnsm
  decodes, but for those named). The lemmas that show them follow the files of
  libnsm, nsmd, nsmtool and the mockup. `Commands` is instantiated by each of the
  modules that use it; that the copies are equal is a step of each
  (`Nsmd!C!Ping = C!Ping`).
* `Nsmd_proofs`: the theorems of the three hold of them side by side. Each component's
  specification follows from the composed one (`Components`), and its theorems are
  cited through the instances.

Assumptions about constants are the `ASSUME`s of the modules; TLC evaluates them on the
values of each run. `OwnDatabase`, `QuietRemoval`, `SoleUser`, `PromptDevice`,
`MaxFaults = 0`, `Lifetime <= INST_ID_MAX` and `~EarlyStart` are settings, named where a theorem needs
one. They are needed: without its setting TLC finds each of `QueueIsServed`,
`NoCrossTalk`, `NeverBroken`, `ResendsUnderOwnId` (`Requester_faults.cfg` with the
property added; `Requester.cfg` with `QuietRemoval` or `Lifetime` alone changed breaks
`NeverBroken` and `NoCrossTalk`, or `NoCrossTalk` only), `NobodyForgotten`,
`OkMeansResult` and `TimeoutMeansNoResult` (`LongRunning_faults.cfg`,
`PromptDevice = FALSE` for the last two), and `ReadyMeansRenewed` (`Polling_early.cfg`)
violated. `OneDevicePerUuid` is an assumption about the configuration of the
platform that the theorems of `Discovery_proofs` share.

Only model-checked: liveness (`CallsReturn`, `EveryRequestEnds`, `EveryUpdateEnds`,
`EveryOperationEnds`, `IdentifiedGetsOnline`, `OnlineGetsReady`), which is out of the
prover's reach. Every other property of a passing run is a theorem.

## Not modelled, and why

* The fields of payloads, and with them units, scaling, bit masks, D-Bus
  interfaces, properties and associations: what an object does with the fields of
  an answer is a straight assignment that a unit test reaches.
* Codecs of events and of commands that no client and no handler uses; raw
  commands of nsmtool and the payloads of the mockup's state.
* The order of the requests of one sequence (SPI transactions with their cache, token
  installation, log dumps, the system GUID): each request is a client of its own.
* A table with several samples, answers that lie about the number of bytes that follow.
* Object factories: wiring at start-up, without state of their own.
* Sockets, descriptors and buffers: I/O. The requester model assumes that a send
  may fail and that any answer to a sent message may be delivered.
* Several endpoints or devices at once: the tables are keyed by endpoint, and
  one model stands for each entry.
* Undecodable messages, and events of types with no handler: they are dropped
  before they reach the modelled state.
* Scripts, unit files and examples.

## Plan

1. Proofs: an abstract specification of a round (every sensor of a queue once, then
   ready) and of being online (within an endpoint's enabled time), and that
   `Polling` and `Discovery` implement them.
2. `Events`: dispatch and acknowledgement; subscription masks as checked operators
   (`convertIdsToMask`).
3. Sequences of requests: SPI transactions and token installation over `Exchange`.

## Running

    tlc -config InstanceId.cfg MC_InstanceId
    tlc -config Nsmd.cfg MC_Nsmd                      (two minutes)
    tlc -config Discovery_events.cfg MC_Discovery     (counterexample)
    tlc -config Polling_stuck.cfg MC_Polling          (counterexample)
    tlc -config Polling_rounds.cfg MC_Polling         (counterexample)
    tlc -config Polling_skipped.cfg MC_Polling        (counterexample)
    tlc -config Polling_early.cfg MC_Polling          (counterexample)
    tlapm InstanceId_proofs.tla

The runs, the correspondence of definitions to source lines, mutants, findings
and hazards are listed in `PROJECT.json`.
