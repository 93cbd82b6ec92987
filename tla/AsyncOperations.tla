--------------------------- MODULE AsyncOperations ---------------------------
(***************************************************************************)
(* Operations that D-Bus clients start and whose outcome they read later   *)
(* from a result object (nsmd/nsmSetAsync).                                *)
(*                                                                         *)
(* AsyncOperationManager deals out result objects round robin.  A set of a *)
(* property is carried out by a function with a status of its own, or by   *)
(* one NsmAsyncLongRunningSensor, the same for all sets of the property.   *)
(* The sensor keeps a pointer to the value and to the status of the set    *)
(* that called it last, and waits for the semaphore of the device between  *)
(* taking the pointers and using them.  After that setImpl refreshes the   *)
(* sensor of the property, which takes the semaphore once more.            *)
(*                                                                         *)
(* The value of an operation is the operation itself: all values differ.   *)
(* The semaphore is the one of LongRunning, here without failing calls.    *)
(***************************************************************************)
EXTENDS Integers, Sequences

CONSTANTS
    Operations,      \* the D-Bus calls; each is made at most once
    SensorSets,      \* those that are sets by the sensor
    IllTyped,        \* the sets whose value has the wrong type
    Others,          \* the other users of the semaphore, as one
    Nobody,          \* no operation, no user
    maxObjectCount   \* result objects; 32 in the code

ASSUME NobodyAssumption == Nobody \notin Operations \union {Others}
ASSUME SetsAssumption == SensorSets \subseteq Operations /\ IllTyped \subseteq Operations
ASSUME OthersAssumption == Others \notin Operations
ASSUME CountAssumption == maxObjectCount \in Nat \ {0}

Slots == 0 .. maxObjectCount - 1

VARIABLES
    status,              \* of each result object; "none" before it is made
    currentObjectCount,  \* the object to begin with the next time
    pc,                  \* where each operation is
    slot,                \* its result object
    localStatus,         \* the status in the frame of setImpl
    valueOf, statusOf,   \* the set whose value and status the sensor points to
    holder,              \* who has the semaphore
    line,                \* who waits for it or was promised it
    sent,                \* the value each set by the sensor sent to the device
    lastSent,            \* the value sent last
    failed,              \* the sets by the sensor whose request failed
    newest,              \* the set by the sensor that was asked for last
    overlapped           \* the sets by the sensor that met another one

ringVars == <<status, currentObjectCount, slot>>
sensorVars == <<valueOf, statusOf>>
lockVars == <<holder, line>>
sentVars == <<sent, lastSent, failed>>
setVars == <<newest, overlapped>>
vars == <<ringVars, pc, localStatus, sensorVars, lockVars, sentVars, setVars>>

Init ==
    /\ status = [s \in Slots |-> "none"]
    /\ currentObjectCount = 0
    /\ pc = [o \in Operations |-> "idle"]
    /\ slot = [o \in Operations |-> 0]
    /\ localStatus = [o \in Operations |-> "Success"]
    /\ valueOf = Nobody
    /\ statusOf = Nobody
    /\ holder = Nobody
    /\ line = <<>>
    /\ sent = [o \in Operations |-> Nobody]
    /\ lastSent = Nobody
    /\ failed = {}
    /\ newest = Nobody
    /\ overlapped = {}

-----------------------------------------------------------------------------
(***************************************************************************)
(* The result objects                                                      *)
(***************************************************************************)

(* How far the search goes to come to s.                                   *)
Distance(s) == (s - currentObjectCount) % maxObjectCount

AllMade == \A s \in Slots : status[s] # "none"

\* Mutant of Available: the object at hand is taken, in progress or not.
AvailableUnchecked(s) == s = currentObjectCount

(* getCurrentObjectCount returns s: while there are fewer than             *)
(* maxObjectCount objects a new one, then the next one not in progress.    *)
Available(s) ==
    \/ ~AllMade /\ s = currentObjectCount
    \/ /\ AllMade
       /\ status[s] # "InProgress"
       /\ \A t \in Slots : Distance(t) < Distance(s) => status[t] = "InProgress"

\* Mutant of GiveOut: the index is not taken back to 0.
GiveOutUnwrapped(o, s) ==
    /\ Available(s)
    /\ slot' = [slot EXCEPT ![o] = s]
    /\ status' = [status EXCEPT ![s] = "InProgress"]
    /\ currentObjectCount' = s + 1

(* getNewStatusInterface and getNewStatusValueInterface                    *)
GiveOut(o, s) ==
    /\ Available(s)
    /\ slot' = [slot EXCEPT ![o] = s]
    /\ status' = [status EXCEPT ![s] = "InProgress"]
    /\ currentObjectCount' = (s + 1) % maxObjectCount

(* The call throws: no object is available.                                *)
Refuse(o) ==
    /\ pc[o] = "idle"
    /\ \A s \in Slots : ~Available(s)
    /\ pc' = [pc EXCEPT ![o] = "refused"]
    /\ UNCHANGED <<ringVars, localStatus, sensorVars, lockVars, sentVars, setVars>>

\* Mutant of Conclude: only a failure is written.
ConcludeFailure(o, r) ==
    /\ pc' = [pc EXCEPT ![o] = "done"]
    /\ status' = IF r = "WriteFailure" THEN [status EXCEPT ![slot[o]] = r] ELSE status
    /\ UNCHANGED <<slot, currentObjectCount>>

\* The operation is over and its result object says so.
Conclude(o, r) ==
    /\ pc' = [pc EXCEPT ![o] = "done"]
    /\ status' = [status EXCEPT ![slot[o]] = r]
    /\ UNCHANGED <<slot, currentObjectCount>>

-----------------------------------------------------------------------------
(***************************************************************************)
(* The semaphore (common/coroutineSemaphore.hpp)                           *)
(***************************************************************************)

\* Mutant of Ask: the newest goes first.
AskNewestFirst(u) ==
    \/ /\ holder = Nobody /\ line = <<>>
       /\ holder' = u
       /\ UNCHANGED line
    \/ /\ ~(holder = Nobody /\ line = <<>>)
       /\ line' = <<u>> \o line
       /\ UNCHANGED holder

(* acquire: u has it at once, or waits.                                    *)
Ask(u) ==
    \/ /\ holder = Nobody /\ line = <<>>
       /\ holder' = u
       /\ UNCHANGED line
    \/ /\ ~(holder = Nobody /\ line = <<>>)
       /\ line' = Append(line, u)
       /\ UNCHANGED holder

\* Mutant of ReleaseAndAsk: the semaphore is asked for before it is released.
AskBeforeRelease(u) == line' = Append(line, u) /\ UNCHANGED holder

(* release, and acquire again before anybody else can.                     *)
ReleaseAndAsk(u) ==
    \/ line = <<>> /\ UNCHANGED lockVars
    \/ line # <<>> /\ holder' = Nobody /\ line' = Append(line, u)

\* The polling loop and raw commands use the semaphore too.
OthersAsk ==
    /\ holder # Others
    /\ \A i \in DOMAIN line : line[i] # Others
    /\ Ask(Others)
    /\ UNCHANGED <<ringVars, pc, localStatus, sensorVars, sentVars, setVars>>

OthersRelease ==
    /\ holder = Others
    /\ holder' = Nobody
    /\ UNCHANGED <<ringVars, pc, localStatus, sensorVars, line, sentVars, setVars>>

-----------------------------------------------------------------------------
(***************************************************************************)
(* Operations that need no semaphore                                       *)
(***************************************************************************)

(* A call that reports to a result object, as the raw command does.        *)
Call(o) ==
    /\ pc[o] = "idle"
    /\ \E s \in Slots : GiveOut(o, s)
    /\ pc' = [pc EXCEPT ![o] = "calling"]
    /\ UNCHANGED <<localStatus, sensorVars, lockVars, sentVars, setVars>>

CallEnds(o) ==
    /\ pc[o] = "calling"
    /\ \E r \in {"Success", "WriteFailure"} : Conclude(o, r)
    /\ UNCHANGED <<localStatus, sensorVars, lockVars, sentVars, setVars>>

(* setImpl does not know the property: it throws before its try block.     *)
SetUnknown(o) ==
    /\ pc[o] = "idle"
    /\ \E s \in Slots : GiveOut(o, s)
    /\ pc' = [pc EXCEPT ![o] = "lost"]
    /\ UNCHANGED <<localStatus, sensorVars, lockVars, sentVars, setVars>>

(* The handler of the property is a function.                              *)
SetByFunction(o) ==
    /\ pc[o] = "idle"
    /\ \E s \in Slots : GiveOut(o, s)
    /\ pc' = [pc EXCEPT ![o] = "handling"]
    /\ UNCHANGED <<localStatus, sensorVars, lockVars, sentVars, setVars>>

\* The function and the refresh after it are over.  A wrong value makes the
\* function throw; its coroutine swallows that, and the status stays.
FunctionEnds(o) ==
    /\ pc[o] = "handling"
    /\ \/ UNCHANGED localStatus
       \/ o \notin IllTyped /\ localStatus' = [localStatus EXCEPT ![o] = "WriteFailure"]
    /\ Conclude(o, localStatus'[o])
    /\ UNCHANGED <<sensorVars, lockVars, sentVars, setVars>>

-----------------------------------------------------------------------------
(***************************************************************************)
(* Sets by the sensor                                                      *)
(***************************************************************************)

(* o is between taking the pointers and its last use of them.              *)
Updating(o) == pc[o] \in {"queued", "sending"}

\* Mutant of TakePointers: a set under way keeps the sensor's pointers.
TakePointersIfFree(o) ==
    IF \E p \in Operations : Updating(p)
    THEN UNCHANGED sensorVars
    ELSE valueOf' = o /\ statusOf' = o

(* NsmAsyncSensor::set                                                     *)
TakePointers(o) == valueOf' = o /\ statusOf' = o

(* genRequestMsg: the request has the value the sensor points to now; with *)
(* a value of the wrong type there is no request.                          *)
Send(o, v) ==
    /\ pc' = [pc EXCEPT ![o] = "sending"]
    /\ \/ v \notin IllTyped /\ sent' = [sent EXCEPT ![o] = v] /\ lastSent' = v
       \/ v \in IllTyped /\ UNCHANGED <<sent, lastSent>>
    /\ UNCHANGED failed

SetBySensor(o) ==
    /\ pc[o] = "idle"
    /\ \E s \in Slots : GiveOut(o, s)
    /\ TakePointers(o)
    /\ Ask(o)
    /\ \/ holder' = o /\ Send(o, valueOf')
       \/ holder' # o /\ pc' = [pc EXCEPT ![o] = "queued"] /\ UNCHANGED sentVars
    /\ newest' = o
    /\ overlapped' = LET met == {p \in Operations : Updating(p)}
                     IN  overlapped \union met \union {p \in {o} : met # {}}
    /\ UNCHANGED localStatus

\* The deferred resumption of the first in line.
Resume ==
    /\ holder = Nobody /\ line # <<>>
    /\ holder' = Head(line)
    /\ line' = Tail(line)
    /\ \/ Head(line) = Others /\ UNCHANGED <<pc, sentVars>>
       \/ \E o \in Operations :
             /\ o = Head(line)
             /\ \/ pc[o] = "queued" /\ Send(o, valueOf)
                \/ /\ pc[o] = "refreshQueued"
                   /\ pc' = [pc EXCEPT ![o] = "refreshing"]
                   /\ UNCHANGED sentVars
    /\ UNCHANGED <<ringVars, localStatus, sensorVars, setVars>>

\* The update returned: setImpl refreshes the sensor of the property, or
\* ends if the device is not active.
AfterUpdate(o) ==
    \/ /\ ReleaseAndAsk(o)
       /\ pc' = [pc EXCEPT ![o] = IF holder' = o THEN "refreshing" ELSE "refreshQueued"]
       /\ UNCHANGED ringVars
    \/ /\ holder' = Nobody
       /\ UNCHANGED line
       /\ Conclude(o, localStatus'[o])

\* Mutant of Failure: the status in the frame is forgotten.
FailureIgnored(o) == failed' = failed \union {o} /\ UNCHANGED localStatus

(* SendRecvNsmMsg failed: *status = WriteFailure                           *)
Failure(o) ==
    /\ failed' = failed \union {o}
    /\ localStatus' = [localStatus EXCEPT ![statusOf] = "WriteFailure"]

\* An answer, a rejection, an event, the timeout, or the exception of a
\* wrong value ends the update: none of them is reported in the status.
UpdateEnds(o) ==
    /\ pc[o] = "sending"
    /\ \/ UNCHANGED <<failed, localStatus>>
       \/ sent[o] # Nobody /\ Failure(o)
    /\ AfterUpdate(o)
    /\ UNCHANGED <<sensorVars, sent, lastSent, setVars>>

RefreshEnds(o) ==
    /\ pc[o] = "refreshing"
    /\ holder' = Nobody
    /\ Conclude(o, localStatus[o])
    /\ UNCHANGED <<localStatus, sensorVars, line, sentVars, setVars>>

-----------------------------------------------------------------------------
Start(o) ==
    \/ o \in SensorSets /\ SetBySensor(o)
    \/ o \notin SensorSets /\ (Call(o) \/ SetUnknown(o) \/ SetByFunction(o))
    \/ Refuse(o)

Proceed(o) == CallEnds(o) \/ FunctionEnds(o) \/ UpdateEnds(o) \/ RefreshEnds(o)

Next ==
    \/ \E o \in Operations : Start(o) \/ Proceed(o)
    \/ OthersAsk
    \/ OthersRelease
    \/ Resume

Spec == Init /\ [][Next]_vars

(* Requests and updates end (Requester!EveryRequestEnds and                *)
(* LongRunning!EveryUpdateEnds), and deferred calls run.                   *)
FairSpec ==
    /\ Spec
    /\ \A o \in Operations : WF_vars(Proceed(o))
    /\ WF_vars(OthersRelease)
    /\ WF_vars(Resume)

-----------------------------------------------------------------------------
Outcomes == {"none", "InProgress", "Success", "WriteFailure"}

TypeOK ==
    /\ status \in [Slots -> Outcomes]
    /\ currentObjectCount \in Slots
    /\ pc \in [Operations -> {"idle", "calling", "handling", "queued", "sending", "refreshQueued",
                              "refreshing", "done", "lost", "refused"}]
    /\ slot \in [Operations -> Slots]
    /\ localStatus \in [Operations -> {"Success", "WriteFailure"}]
    /\ valueOf \in Operations \union {Nobody}
    /\ statusOf \in Operations \union {Nobody}
    /\ holder \in Operations \union {Others, Nobody}
    /\ line \in Seq(Operations \union {Others})
    /\ sent \in [Operations -> Operations \union {Nobody}]
    /\ lastSent \in Operations \union {Nobody}
    /\ failed \subseteq Operations
    /\ newest \in Operations \union {Nobody}
    /\ overlapped \subseteq Operations

Running(o) == pc[o] \in {"calling", "handling", "queued", "sending", "refreshQueued", "refreshing"}

Holding(o) == Running(o) \/ pc[o] = "lost"

(* The sensor never follows a pointer into a frame that is gone: while a   *)
(* set may still use the pointers, the set they point to has not ended,    *)
(* though each new set redirects them and ends on its own.                 *)
PointersAlive ==
    \A o \in Operations :
        Updating(o) => valueOf # Nobody /\ Updating(valueOf) /\ statusOf = valueOf

(* Sets may send each other's values, but when all are over the last value *)
(* sent is the one asked for last, unless it has the wrong type.           *)
LastSetWins ==
    newest # Nobody /\ (\A o \in Operations : ~Updating(o)) =>
        lastSent = newest \/ newest \in IllTyped

(* A set that meets no other set of the property sends its own value, and  *)
(* reports a failure if and only if its own request failed.                *)
OwnOutcome ==
    \A o \in Operations :
        pc[o] = "done" /\ o \notin overlapped /\ sent[o] # Nobody =>
            /\ sent[o] = o
            /\ o \in failed <=> localStatus[o] = "WriteFailure"

(* A result object stays in progress only while its operation runs; only a *)
(* set of an unknown property leaves it so.                                *)
OnlyUnknownIsLost ==
    \A s \in Slots : status[s] = "InProgress" => \E o \in Operations : slot[o] = s /\ Holding(o)

(* A result object is about one operation, and what it shows at its end    *)
(* stays until it is given out again.                                      *)
Owner(s) ==
    IF \E o \in Operations : slot[o] = s /\ Holding(o)
    THEN CHOOSE o \in Operations : slot[o] = s /\ Holding(o)
    ELSE Nobody

Pool == INSTANCE ResultPool
          WITH NoOperation <- Nobody, owner <- [s \in Slots |-> Owner(s)], result <- status

ImplementsResultPool == Pool!Spec

(* A call is refused only while maxObjectCount operations are under way:   *)
(* what asyncOperationManager.hpp says of MaxAsyncOperationResultObjectCount. *)
RefusedOnlyWhenAllRun ==
    [][\A o \in Operations : Refuse(o) =>
          \A s \in Slots : \E p \in Operations : Running(p) /\ slot[p] = s]_vars

(* Every operation of a known property ends.                               *)
EveryOperationEnds == \A o \in Operations : Running(o) ~> pc[o] = "done"
=============================================================================
