---------------------------- MODULE LongRunning ----------------------------
(***************************************************************************)
(* Long-running commands of one device (nsmd/nsmLongRunning, nsmEvent,     *)
(* nsmRawCommand, nsmDevice.cpp, common/coroutineSemaphore.hpp and         *)
(* common/timer.hpp).                                                      *)
(*                                                                         *)
(* A long-running command is answered twice: the response accepts it, and  *)
(* an event with the same instance ID brings the result.  The device runs  *)
(* one at a time, so the coroutines that issue them take turns with a      *)
(* semaphore.  The one whose turn it is registers its handler for the      *)
(* event, sends its request, and when that is accepted sleeps on a timer,  *)
(* which the event stops.                                                  *)
(*                                                                         *)
(* Several coroutines may use one handler object: the polling loop and the *)
(* refresh after a set both update a sensor.  A raw command makes a new    *)
(* handler object for each call.                                           *)
(***************************************************************************)
EXTENDS Integers, Sequences

CONSTANTS
    Updaters,      \* coroutines that issue long-running commands
    Handlers,      \* handler objects (NsmLongRunningEvent)
    Uses,          \* Uses[u]: the handler objects coroutine u works with
    Raw,           \* the handler objects that are made anew for each call
    Command,       \* Command[h]: message type and command code of a handler
    NoOne,         \* no coroutine, no handler
    INST_ID_MAX,   \* instance IDs; 32 in the code
    PromptDevice,  \* TRUE: while a call of a command is under way, the only
                   \* event of that command that comes is the one it awaits
    Lifetime,      \* how many later calls an event in flight outlives
    MaxCalls,      \* bound: updates in a behaviour
    MaxFaults      \* bound: event-loop calls that fail

ASSUME UsesAssumption == Uses \in [Updaters -> SUBSET Handlers]
ASSUME RawAssumption == Raw \subseteq Handlers
ASSUME NoOneAssumption == NoOne \notin Updaters /\ NoOne \notin Handlers
ASSUME InstIdMaxAssumption == INST_ID_MAX \in Nat /\ INST_ID_MAX >= 2
ASSUME SettingAssumption == PromptDevice \in BOOLEAN /\ Lifetime \in Nat
ASSUME BoundsAssumption == MaxCalls \in Nat /\ MaxFaults \in Nat

Ids == 0 .. INST_ID_MAX - 1
NoId == 255          \* acceptInstanceId = 0xFF

VARIABLES
    pc,           \* "idle", "queued", "sending" or "waiting"
    handler,      \* the handler object of the coroutine's running update
    taken,        \* binarySem is 0
    suspended,    \* suspendedQueue of the semaphore
    scheduled,    \* coroutines whose deferred resumption is pending
    active,       \* device->longRunningHandler
    acceptId,     \* acceptInstanceId of each handler
    longRunning,  \* isLongRunning of each handler
    timer,        \* its timer: "off", "armed", "stopping" or "lost"
    expired,      \* isExpired of its timer
    eventRc,      \* rc of each raw handler: what validateEvent said last
    asked,        \* updates asked for so far
    calls,        \* calls sent so far; names each call
    mine,         \* the call of each coroutine's last update
    data,         \* the call whose result that update handled; 0 for none
    result,       \* how it ended: "none" yet, "ok", "error" or "timeout"
    events,       \* calls whose event the device may deliver
    faults        \* faults so far

lockVars == <<taken, suspended, scheduled>>
handlerVars == <<active, acceptId, longRunning, timer, expired, eventRc>>
updateVars == <<pc, handler, mine, data, result>>
vars == <<lockVars, handlerVars, updateVars, asked, calls, events, faults>>

Init ==
    /\ pc = [u \in Updaters |-> "idle"]
    /\ handler = [u \in Updaters |-> NoOne]
    /\ taken = FALSE
    /\ suspended = <<>>
    /\ scheduled = <<>>
    /\ active = NoOne
    /\ acceptId = [h \in Handlers |-> NoId]
    /\ longRunning = [h \in Handlers |-> TRUE]
    /\ timer = [h \in Handlers |-> "off"]
    /\ expired = [h \in Handlers |-> FALSE]
    /\ eventRc = [h \in Handlers |-> "ok"]
    /\ asked = 0
    /\ calls = 0
    /\ mine = [u \in Updaters |-> 0]
    /\ data = [u \in Updaters |-> 0]
    /\ result = [u \in Updaters |-> "none"]
    /\ events = {}
    /\ faults = 0

\* Mutant of IdOf: never wraps around.
IdOfUnbounded(k) == k

(* Instance IDs are dealt round robin (InstanceId!iid_next).               *)
IdOf(k) == k % INST_ID_MAX

(* The update of u has the semaphore.                                      *)
Busy(u) == pc[u] \in {"sending", "waiting"}

(* An event carries the command of its call, and its instance ID.          *)
Event(k, h) == [call |-> k, command |-> Command[h]]

-----------------------------------------------------------------------------
(***************************************************************************)
(* The update of a handler: NsmLongRunningSensor::update,                  *)
(* NsmAsyncLongRunningSensor::update and doSendLongRunningRequest.         *)
(***************************************************************************)

\* The coroutine has the semaphore: it registers its handler and sends.
Begin(u, h) ==
    /\ active' = h
    /\ longRunning' = [longRunning EXCEPT ![h] = TRUE]
    /\ \/ h \notin Raw /\ UNCHANGED <<acceptId, timer, expired, eventRc>>
       \/ /\ h \in Raw                          \* make_shared
          /\ acceptId' = [acceptId EXCEPT ![h] = NoId]
          /\ timer' = [timer EXCEPT ![h] = "off"]
          /\ expired' = [expired EXCEPT ![h] = FALSE]
          /\ eventRc' = [eventRc EXCEPT ![h] = "ok"]
    /\ calls' = calls + 1
    /\ mine' = [mine EXCEPT ![u] = calls + 1]
    /\ data' = [data EXCEPT ![u] = 0]
    /\ result' = [result EXCEPT ![u] = "none"]
    /\ events' = events \union {Event(calls + 1, h)}
    /\ pc' = [pc EXCEPT ![u] = "sending"]

Acquire(u, h) ==
    /\ pc[u] = "idle"
    /\ asked < MaxCalls
    /\ asked' = asked + 1
    /\ handler' = [handler EXCEPT ![u] = h]
    /\ \/ /\ ~taken
          /\ taken' = TRUE
          /\ Begin(u, h)
          /\ UNCHANGED suspended
       \/ /\ taken
          /\ suspended' = Append(suspended, u)
          /\ pc' = [pc EXCEPT ![u] = "queued"]
          /\ UNCHANGED <<taken, handlerVars, mine, data, result, calls, events>>
    /\ UNCHANGED <<scheduled, faults>>

\* The deferred callback of release runs.
ResumeDeferred ==
    /\ scheduled # <<>>
    /\ scheduled' = Tail(scheduled)
    /\ Begin(Head(scheduled), handler[Head(scheduled)])
    /\ UNCHANGED <<taken, suspended, handler, asked, faults>>

\* Mutants of Release: the semaphore is freed although a coroutine was
\* promised it; it is only freed; the newest coroutine goes first.
ReleaseFreesToo(n) ==
    /\ taken' = FALSE
    /\ faults' = faults + n
    /\ \/ suspended = <<>> /\ UNCHANGED <<suspended, scheduled>>
       \/ /\ suspended # <<>>
          /\ suspended' = Tail(suspended)
          /\ scheduled' = Append(scheduled, Head(suspended))

ReleaseOnlyFrees(n) ==
    /\ taken' = FALSE
    /\ faults' = faults + n
    /\ UNCHANGED <<suspended, scheduled>>

ReleaseNewest(n) ==
    \/ /\ suspended = <<>>
       /\ taken' = FALSE
       /\ faults' = faults + n
       /\ UNCHANGED <<suspended, scheduled>>
    \/ /\ suspended # <<>>
       /\ suspended' = SubSeq(suspended, 1, Len(suspended) - 1)
       /\ scheduled' = Append(scheduled, suspended[Len(suspended)])
       /\ faults' = faults + n
       /\ UNCHANGED taken

(* release: the first suspended coroutine is scheduled; the semaphore      *)
(* stays taken on its behalf.  sd_event_add_defer may fail; n counts what  *)
(* failed in this step before.                                             *)
Release(n) ==
    \/ /\ suspended = <<>>
       /\ taken' = FALSE
       /\ faults' = faults + n
       /\ UNCHANGED <<suspended, scheduled>>
    \/ /\ suspended # <<>>
       /\ suspended' = Tail(suspended)
       /\ scheduled' = Append(scheduled, Head(suspended))
       /\ faults' = faults + n
       /\ UNCHANGED taken
    \/ /\ suspended # <<>>
       /\ faults + n < MaxFaults
       /\ suspended' = Tail(suspended)
       /\ faults' = faults + n + 1
       /\ UNCHANGED <<taken, scheduled>>

\* The end of an update: the handler is cleared, the semaphore released.
Finish(u, r, n) ==
    /\ pc' = [pc EXCEPT ![u] = "idle"]
    /\ result' = [result EXCEPT ![u] = r]
    /\ active' = NoOne
    /\ Release(n)

\* No request was sent, or no response came.
RequestFails(u) ==
    /\ pc[u] = "sending"
    /\ Finish(u, "error", 0)
    /\ UNCHANGED <<acceptId, longRunning, timer, expired, eventRc, handler, mine, data, asked,
                   calls, events>>

\* The response already is the result, good or bad.
ResponseIsResult(u) ==
    /\ pc[u] = "sending"
    /\ longRunning' = [longRunning EXCEPT ![handler[u]] = FALSE]
    /\ data' = [data EXCEPT ![u] = mine[u]]
    /\ \E r \in {"ok", "error"} : Finish(u, r, 0)
    /\ UNCHANGED <<acceptId, timer, expired, eventRc, handler, mine, asked, calls, events>>

\* The response turns the command down; to a raw command that is a result.
Rejected(u) ==
    /\ pc[u] = "sending"
    /\ acceptId' = [acceptId EXCEPT ![handler[u]] = NoId]
    /\ \/ handler[u] \notin Raw /\ Finish(u, "error", 0) /\ UNCHANGED data
       \/ handler[u] \in Raw /\ Finish(u, "ok", 0) /\ data' = [data EXCEPT ![u] = mine[u]]
    /\ UNCHANGED <<longRunning, timer, expired, eventRc, handler, mine, asked, calls, events>>

\* Mutant of Accepted: the timer still counts as expired from before.
AcceptedStillExpired(u) ==
    /\ pc[u] = "sending"
    /\ acceptId' = [acceptId EXCEPT ![handler[u]] = IdOf(mine[u])]
    /\ timer' = [timer EXCEPT ![handler[u]] = "armed"]
    /\ pc' = [pc EXCEPT ![u] = "waiting"]
    /\ UNCHANGED <<lockVars, active, result, faults, expired, longRunning, eventRc, handler, mine,
                   data, asked, calls, events>>

\* The response accepts the command; the coroutine awaits the timer, unless
\* it cannot be added to the event loop.
Accepted(u) ==
    /\ pc[u] = "sending"
    /\ acceptId' = [acceptId EXCEPT ![handler[u]] = IdOf(mine[u])]
    /\ expired' = [expired EXCEPT ![handler[u]] = FALSE]
    /\ \/ /\ timer' = [timer EXCEPT ![handler[u]] = "armed"]
          /\ pc' = [pc EXCEPT ![u] = "waiting"]
          /\ UNCHANGED <<lockVars, active, result, faults>>
       \/ /\ faults < MaxFaults
          /\ Finish(u, "error", 1)
          /\ UNCHANGED timer
    /\ UNCHANGED <<longRunning, eventRc, handler, mine, data, asked, calls, events>>

\* Nothing stopped the timer in time.
TimerFires(u) ==
    /\ pc[u] = "waiting"
    /\ timer[handler[u]] = "armed"
    /\ timer' = [timer EXCEPT ![handler[u]] = "off"]
    /\ expired' = [expired EXCEPT ![handler[u]] = TRUE]
    /\ Finish(u, "timeout", 0)
    /\ UNCHANGED <<acceptId, longRunning, eventRc, handler, mine, data, asked, calls, events>>

\* The event that stop put in its place: due at time 0, so not expired.
TimerStopped(u) ==
    /\ pc[u] = "waiting"
    /\ timer[handler[u]] = "stopping"
    /\ timer' = [timer EXCEPT ![handler[u]] = "off"]
    /\ expired' = [expired EXCEPT ![handler[u]] = FALSE]
    /\ Finish(u, IF handler[u] \in Raw THEN eventRc[handler[u]] ELSE "ok", 0)
    /\ UNCHANGED <<acceptId, longRunning, eventRc, handler, mine, data, asked, calls, events>>

-----------------------------------------------------------------------------
(***************************************************************************)
(* The event: invokeLongRunningHandler and the handler's handle.           *)
(***************************************************************************)
Awaited(e) == \E u \in Updaters : pc[u] = "waiting" /\ mine[u] = e.call

\* invokeLongRunningHandler passes on what is for the registered handler.
IsForHandler(e) == active # NoOne /\ e.command = Command[active]

Deliverable(e) ==
    /\ calls - e.call < Lifetime
    /\ PromptDevice => Awaited(e) \/ e.command # Command[active]

\* Mutant of Valid: the instance ID is not compared.
ValidWhateverId(e, h) == ~expired[h] /\ longRunning[h]

\* validateEvent
Valid(e, h) == ~expired[h] /\ longRunning[h] /\ acceptId[h] = IdOf(e.call)

\* Mutant of StopTimer: does nothing.
StopTimerNever(h) == UNCHANGED <<timer, faults>>

(* TimerAwaiter::stop.  The timer is replaced by one that is due at once,  *)
(* or, if that cannot be added, by nothing.  A second stop may still add   *)
(* one: isRunning stays set.                                               *)
StopTimer(h) ==
    \/ /\ timer[h] = "off"
       /\ UNCHANGED <<timer, faults>>
    \/ /\ timer[h] # "off"
       /\ timer' = [timer EXCEPT ![h] = "stopping"]
       /\ UNCHANGED faults
    \/ /\ timer[h] # "off"
       /\ faults < MaxFaults
       /\ timer' = [timer EXCEPT ![h] = "lost"]
       /\ faults' = faults + 1

HandleEvent(u, e) ==
    /\ Busy(u) /\ active = handler[u]
    /\ e \in events /\ Deliverable(e)
    /\ IsForHandler(e)
    /\ \/ /\ Valid(e, active)
          /\ data' = [data EXCEPT ![u] = e.call]
          /\ eventRc' = [eventRc EXCEPT ![active] = "ok"]
       \/ /\ ~Valid(e, active)
          /\ eventRc' = [eventRc EXCEPT ![active] = "error"]
          /\ UNCHANGED data
    /\ StopTimer(active)
    /\ UNCHANGED <<lockVars, active, acceptId, longRunning, expired, pc, handler, mine, result,
                   asked, calls, events>>

-----------------------------------------------------------------------------
Respond(u) == RequestFails(u) \/ ResponseIsResult(u) \/ Rejected(u) \/ Accepted(u)

Wake(u) == TimerFires(u) \/ TimerStopped(u)

Next ==
    \/ \E u \in Updaters :
          \/ \E h \in Uses[u] : Acquire(u, h)
          \/ Respond(u)
          \/ Wake(u)
          \/ \E e \in events : HandleEvent(u, e)
    \/ ResumeDeferred

Spec == Init /\ [][Next]_vars

(* Every request ends (Requester!EveryRequestEnds), and the event loop     *)
(* runs deferred calls and due timers.  Nothing is assumed of events.      *)
FairSpec ==
    /\ Spec
    /\ \A u \in Updaters : WF_vars(Respond(u)) /\ WF_vars(Wake(u))
    /\ WF_vars(ResumeDeferred)

-----------------------------------------------------------------------------
TypeOK ==
    /\ pc \in [Updaters -> {"idle", "queued", "sending", "waiting"}]
    /\ handler \in [Updaters -> Handlers \union {NoOne}]
    /\ taken \in BOOLEAN
    /\ suspended \in Seq(Updaters)
    /\ scheduled \in Seq(Updaters)
    /\ active \in Handlers \union {NoOne}
    /\ acceptId \in [Handlers -> Ids \union {NoId}]
    /\ longRunning \in [Handlers -> BOOLEAN]
    /\ timer \in [Handlers -> {"off", "armed", "stopping", "lost"}]
    /\ expired \in [Handlers -> BOOLEAN]
    /\ eventRc \in [Handlers -> {"ok", "error"}]
    /\ asked \in 0 .. MaxCalls
    /\ calls \in 0 .. MaxCalls
    /\ mine \in [Updaters -> 0 .. MaxCalls]
    /\ data \in [Updaters -> 0 .. MaxCalls]
    /\ result \in [Updaters -> {"none", "ok", "error", "timeout"}]
    /\ events \subseteq [call : 1 .. MaxCalls, command : {Command[h] : h \in Handlers}]
    /\ faults \in 0 .. MaxFaults

(* The registered handler is the one of the update that is under way, and  *)
(* there is never more than one: an event never goes to another update.    *)
HandlerIsTheBusyOne ==
    /\ \A u, v \in Updaters : Busy(u) /\ Busy(v) => u = v
    /\ \A u \in Updaters : Busy(u) => active = handler[u] /\ taken
    /\ active # NoOne => \E u \in Updaters : Busy(u)

(* The semaphore is free exactly when nobody uses it, has been promised it *)
(* or waits for it; a coroutine that waits stands in line.                 *)
Line == scheduled \o suspended

NobodyForgotten ==
    /\ taken <=> (\E u \in Updaters : Busy(u)) \/ scheduled # <<>>
    /\ \A u \in Updaters : pc[u] = "queued" <=> \E i \in DOMAIN Line : Line[i] = u
    /\ ~taken => suspended = <<>>

(* A timer runs only for the update that awaits it.                        *)
TimerIsAwaited ==
    \A h \in Handlers :
        timer[h] # "off" => \E u \in Updaters : pc[u] = "waiting" /\ handler[u] = h

(* An update that reports a timeout has not handled the result of its      *)
(* call: no result is taken and then reported as missing.                  *)
TimeoutMeansNoResult ==
    \A u \in Updaters : result[u] = "timeout" => data[u] # mine[u]

(* A result that an update takes while it waits is that of its own call,   *)
(* although a late event of an earlier call may have the same command, and *)
(* an instance ID that came round again.  Before its response is there, a  *)
(* kept handler still has the instance ID of its previous call, and may    *)
(* take that call's event once more.                                       *)
AwaitedResultIsOwn ==
    [][\A u \in Updaters :
          pc[u] = "waiting" /\ data'[u] # data[u] => data'[u] = mine[u]]_vars

(* An update that ends well has handled the result of its call.            *)
OkMeansResult == \A u \in Updaters : result[u] = "ok" => data[u] = mine[u]

(* The semaphore is a fair lock.                                           *)
Holder == IF active = NoOne THEN NoOne ELSE CHOOSE u \in Updaters : Busy(u)

Lock == INSTANCE FifoLock
          WITH Users <- Updaters, Nobody <- NoOne, line <- Line, holder <- Holder

ImplementsFifoLock == Lock!Spec

(* Every update ends.                                                      *)
EveryUpdateEnds == \A u \in Updaters : pc[u] # "idle" ~> pc[u] = "idle"
=============================================================================
