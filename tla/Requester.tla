----------------------------- MODULE Requester -----------------------------
(***************************************************************************)
(* The request handler of nsmd (requester/handler.hpp, request.hpp and     *)
(* request_timeout_tracker.cpp): requests queue per endpoint, the head of  *)
(* the queue is sent under a fresh instance ID and resent by a retry       *)
(* timer, and it leaves the queue when an answer with its instance ID      *)
(* arrives or when its instance-ID expiry timer fires.  Either event       *)
(* resumes the coroutine that awaits the request, on the stack of the      *)
(* event handler; `frame' says which handler that is, and until it         *)
(* returns only coroutines run, which may register further requests.       *)
(*                                                                         *)
(* Every table of the handler is keyed by endpoint and no endpoint reads   *)
(* another's entries, so the module models one endpoint.                   *)
(*                                                                         *)
(* The network delays and repeats answers at will: an answer to a message  *)
(* that was sent stays deliverable until Lifetime later requests have      *)
(* been started.                                                           *)
(***************************************************************************)
EXTENDS Integers, Sequences

CONSTANTS
    Callers,       \* coroutines that await requests to this endpoint
    INST_ID_MAX,   \* instance IDs; 32 in the code
    NumRetries,    \* NUMBER_OF_REQUEST_RETRIES; 2 in the code
    Lifetime,      \* how many later starts an answer in flight outlives
    ForeignSets,   \* sets of IDs other processes may hold shared locks on
    QuietRemoval,  \* TRUE: no answer arrives while a deferred removal is pending
    MaxRequests,   \* bound: requests registered in a behaviour
    MaxFaults      \* bound: failing sends, timer starts and fcntl calls

ASSUME InstIdMaxAssumption == INST_ID_MAX \in Nat /\ INST_ID_MAX >= 2
ASSUME NumRetriesAssumption == NumRetries \in 0 .. 255
ASSUME LifetimeAssumption == Lifetime \in Nat
ASSUME ForeignAssumption ==
    {} \in ForeignSets /\ ForeignSets \subseteq SUBSET (0 .. INST_ID_MAX - 1)
ASSUME QuietRemovalAssumption == QuietRemoval \in BOOLEAN
ASSUME BoundsAssumption == MaxRequests \in Nat /\ MaxFaults \in Nat

Ids == 0 .. INST_ID_MAX - 1
Requests == 1 .. MaxRequests   \* requests, numbered as they are registered
Nobody == 0                    \* "awaits nothing", "no request"

VARIABLES
    queue,         \* handlers[eid], the requests in order
    iid,           \* the instance ID in each request's message; 0 as encoded
    started,       \* the last start of each request; 0 before the first
    tries,         \* numRetries of each request
    timers,        \* which of its two timers each request has armed
    prev,          \* instance-id.c, state[eid].prev
    allocations,   \* instance-id.c, state[eid].allocations
    foreign,       \* IDs on which another process has a shared lock
    wire,          \* answers the device may deliver, by ID and start
    starts,        \* requests started so far; names each start
    registered,    \* requests registered so far
    awaiting,      \* the request each coroutine is suspended on
    removal,       \* removeRequestContainer[eid]: the deferred call is pending
    frame,         \* the event handler on the stack; "loop" when none is
    firstTimeout,  \* DeviceRequestTimeOutTracker::firstTimeoutMessage
    messages,      \* DeviceRequestTimeOutTracker::messages
    faults,        \* faults so far
    broken         \* "no", or how the handler left defined behaviour

requestVars == <<iid, started, tries>>
runVars == <<prev, starts, wire, faults>>
trackerVars == <<firstTimeout, messages>>
vars == <<queue, requestVars, timers, allocations, foreign, runVars, registered, awaiting,
          removal, frame, trackerVars, broken>>

Init ==
    /\ queue = <<>>
    /\ iid = [n \in Requests |-> 0]
    /\ started = [n \in Requests |-> 0]
    /\ tries = [n \in Requests |-> NumRetries]
    /\ timers = [n \in Requests |-> {}]
    /\ prev = INST_ID_MAX - 1
    /\ allocations = {}
    /\ foreign = {}
    /\ wire = {}
    /\ starts = 0
    /\ registered = 0
    /\ awaiting = [c \in Callers |-> Nobody]
    /\ removal = "none"
    /\ frame = "loop"
    /\ firstTimeout = Nobody
    /\ messages = <<>>
    /\ faults = 0
    /\ broken = "no"

(***************************************************************************)
(* Instance IDs, as instance-id.c hands them out to this process.          *)
(***************************************************************************)
NthAfterPrev(k) == (prev + k) % INST_ID_MAX

Available(k) == NthAfterPrev(k) \notin allocations \union foreign

\* Mutant of IsNextId: the lowest available ID, without the round robin.
LowestId(id) ==
    /\ id \notin allocations \union foreign
    /\ \A i \in 0 .. id - 1 : i \in allocations \union foreign

\* The scan returns the first available ID after prev and never prev itself.
IsNextId(id) ==
    \E k \in 1 .. INST_ID_MAX - 1 :
        /\ Available(k)
        /\ \A j \in 1 .. k - 1 : ~Available(j)
        /\ id = NthAfterPrev(k)

NoIdAvailable == \A k \in 1 .. INST_ID_MAX - 1 : ~Available(k)

(* A request is running while its instance-ID expiry timer is.             *)
IsRunning(n) == "expiry" \in timers[n]

(***************************************************************************)
(* runRegisteredRequest, called with the queue q.  rc is what it returns:  *)
(* "ok", "error", or "throw" when the error_condition of instanceIdDb.next *)
(* escapes its handler.                                                    *)
(***************************************************************************)

NothingToRun(q) == q # <<>> => IsRunning(Head(q))

\* Mutant of GiveBack: a failed start keeps its ID.
GiveBackForgotten(id, rc) == rc = "error" /\ allocations' = allocations \union {id}

\* A failed start frees the ID it was given, and throws if that fails too.
GiveBack(id, rc) ==
    \/ rc = "error" /\ allocations' = allocations
    \/ rc = "throw" /\ allocations' = allocations \union {id}

\* Request::start, then the expiry timer: one of the three may fail.  A send
\* that fails goes unnoticed: sendMsg returns the positive NSM_SW_ERROR, and
\* send takes only negative values for failures.
Start(n, id, rc) ==
    \E fault \in {"none", "send", "retryTimer", "expiryTimer"} :
        /\ fault # "none" => faults < MaxFaults
        /\ faults' = IF fault = "none" THEN faults ELSE faults + 1
        /\ prev' = id
        /\ starts' = starts + 1
        /\ iid' = [iid EXCEPT ![n] = id]
        /\ started' = [started EXCEPT ![n] = starts + 1]
        /\ wire' = IF fault = "send" THEN wire
                   ELSE wire \union {[iid |-> id, start |-> starts + 1]}
        /\ LET retry == IF tries[n] # 0 THEN {"retry"} ELSE {} IN
           \/ /\ fault \in {"none", "send"}
              /\ rc = "ok"
              /\ timers' = [timers EXCEPT ![n] = @ \union retry \union {"expiry"}]
              /\ allocations' = allocations \union {id}
           \/ /\ fault = "retryTimer" /\ tries[n] # 0
              /\ UNCHANGED timers
              /\ GiveBack(id, rc)
           \/ /\ fault = "expiryTimer"
              /\ timers' = [timers EXCEPT ![n] = @ \union retry]
              /\ GiveBack(id, rc)

\* Mutant of RunRegisteredRequest: an endpoint that is busy is an error.
RunReportsBusy(q, rc) ==
    \/ /\ NothingToRun(q)
       /\ rc = "error"
       /\ UNCHANGED <<iid, started, timers, allocations, runVars>>
    \/ /\ ~NothingToRun(q)
       /\ \E id \in Ids : IsNextId(id) /\ Start(Head(q), id, rc)

RunRegisteredRequest(q, rc) ==
    \/ /\ NothingToRun(q)
       /\ rc = "ok"
       /\ UNCHANGED <<iid, started, timers, allocations, runVars>>
    \/ /\ ~NothingToRun(q)
       /\ NoIdAvailable
       /\ rc = "error"
       /\ UNCHANGED <<iid, started, timers, allocations, runVars>>
    \/ /\ ~NothingToRun(q)
       /\ faults < MaxFaults             \* fcntl fails, -EAGAIN or -EPROTO
       /\ rc \in {"error", "throw"}
       /\ faults' = faults + 1
       /\ UNCHANGED <<iid, started, timers, allocations, prev, starts, wire>>
    \/ /\ ~NothingToRun(q)
       /\ \E id \in Ids : IsNextId(id) /\ Start(Head(q), id, rc)

\* The call at the end of an event handler, whose rc nobody looks at.
RunNext ==
    \E rc \in {"ok", "error", "throw"} :
        /\ RunRegisteredRequest(queue, rc)
        /\ broken' = IF rc = "throw" THEN "exception" ELSE broken
        /\ UNCHANGED <<queue, tries>>

(***************************************************************************)
(* A coroutine awaits a request: SendRecvNsmMsg::await_suspend and         *)
(* registerRequestImpl.  An error makes await_suspend return false: the    *)
(* coroutine goes on, and the entry stays queued without it.               *)
(***************************************************************************)
RegisterRequest(c) ==
    /\ broken = "no"
    /\ awaiting[c] = Nobody
    /\ registered < MaxRequests
    /\ registered' = registered + 1
    /\ queue' = Append(queue, registered + 1)
    /\ \E rc \in {"ok", "error", "throw"} :
          /\ RunRegisteredRequest(queue', rc)
          /\ awaiting' = IF rc = "ok" THEN [awaiting EXCEPT ![c] = registered + 1] ELSE awaiting
          /\ broken' = IF rc = "throw" THEN "terminate" ELSE broken
    /\ UNCHANGED <<tries, foreign, removal, frame, trackerVars>>

\* HandleResponse of the awaitable: resumes the coroutine if it still waits.
Resume(n) ==
    /\ awaiting' = [c \in Callers |-> IF awaiting[c] = n THEN Nobody ELSE awaiting[c]]
    /\ broken' = IF \E c \in Callers : awaiting[c] = n THEN broken ELSE "danglingResume"

(***************************************************************************)
(* The retry timer of a request: RequestRetryTimer::callback.  numRetries  *)
(* is a uint8_t.                                                           *)
(***************************************************************************)
\* Mutant of OneRetryLess: a signed counter.
OneRetryLessSigned(t) == t - 1

OneRetryLess(t) == (t + 255) % 256

\* Mutant of RetryTimerFires: resends once too often, and goes on.
RetryTimerOffByOne(n) ==
    /\ broken = "no" /\ frame = "loop"
    /\ "retry" \in timers[n]
    /\ tries' = [tries EXCEPT ![n] = OneRetryLess(@)]
    /\ wire' = wire \union {[iid |-> iid[n], start |-> started[n]]}
    /\ UNCHANGED <<queue, iid, started, timers, allocations, foreign, prev, starts,
                   faults, registered, awaiting, removal, frame, trackerVars, broken>>

RetryTimerFires(n) ==
    /\ broken = "no" /\ frame = "loop"
    /\ "retry" \in timers[n]
    /\ tries' = [tries EXCEPT ![n] = OneRetryLess(@)]
    /\ \/ /\ tries[n] # 0
          /\ wire' = wire \union {[iid |-> iid[n], start |-> started[n]]}
          /\ UNCHANGED timers
       \/ /\ tries[n] = 0
          /\ timers' = [timers EXCEPT ![n] = @ \ {"retry"}]
          /\ UNCHANGED wire
    /\ UNCHANGED <<queue, iid, started, allocations, foreign, prev, starts, faults,
                   registered, awaiting, removal, frame, trackerVars, broken>>

(***************************************************************************)
(* handleResponse, with a message that carries instance ID m.iid.  Only    *)
(* the ID is compared, and with the head whether or not it is running.     *)
(***************************************************************************)
Deliverable(m) ==
    /\ frame = "loop"
    /\ QuietRemoval => removal = "none"
    /\ starts - m.start < Lifetime

MatchesHead(m) == queue # <<>> /\ iid[Head(queue)] = m.iid

\* handleNoTimeout and handleTimeout of the tracker, which keeps one message.
HandleNoTimeout(n) == firstTimeout' = Nobody /\ messages' = <<n>>

\* Mutant of HandleTimeout: remembers the last timeout, not the first.
HandleLastTimeout(n) == firstTimeout' = n /\ messages' = messages

HandleTimeout(n) ==
    /\ firstTimeout' = IF firstTimeout = Nobody THEN n ELSE firstTimeout
    /\ messages' = messages

\* Mutants of StopTimers: one of the two timers stays armed.
StopOnlyExpiryTimer(n) == timers' = [timers EXCEPT ![n] = @ \ {"expiry"}]
StopOnlyRetryTimer(n) == timers' = [timers EXCEPT ![n] = @ \ {"retry"}]

StopTimers(n) == timers' = [timers EXCEPT ![n] = {}]

\* The timers of the head are stopped and its ID is freed, which throws
\* when it is not allocated or the unlock fails.  Then the head is popped
\* and resumed.
FinishHead(handler) ==
    LET n == Head(queue) IN
    /\ StopTimers(n)
    /\ \/ /\ iid[n] \in allocations
          /\ allocations' = allocations \ {iid[n]}
          /\ queue' = Tail(queue)
          /\ tries' = [tries EXCEPT ![n] = NumRetries]   \* destroyed
          /\ Resume(n)
          /\ frame' = handler
          /\ UNCHANGED faults
       \/ /\ \/ iid[n] \notin allocations /\ UNCHANGED faults
             \/ faults < MaxFaults /\ faults' = faults + 1
          /\ broken' = "exception"
          /\ UNCHANGED <<allocations, queue, tries, awaiting, frame>>

HandleResponse(m) ==
    /\ broken = "no"
    /\ m \in wire /\ Deliverable(m)
    /\ \/ /\ MatchesHead(m)
          /\ HandleNoTimeout(Head(queue))
          /\ FinishHead("response")
          /\ UNCHANGED <<iid, started, prev, starts, wire>>
       \/ /\ ~MatchesHead(m)
          /\ RunNext
          /\ UNCHANGED <<awaiting, frame, trackerVars>>
    /\ UNCHANGED <<foreign, registered, removal>>

\* The resumed coroutine is back in handleResponseImpl.
ReturnToHandleResponse ==
    /\ broken = "no" /\ frame = "response"
    /\ frame' = "loop"
    /\ RunNext
    /\ UNCHANGED <<foreign, registered, awaiting, removal, trackerVars>>

(***************************************************************************)
(* instanceIdExpiryCallBack, of the timer of request n.  Whosever timer it *)
(* is, the callback works on the head of the queue.                        *)
(***************************************************************************)
ExpiryTimerFires(n) ==
    /\ broken = "no" /\ frame = "loop"
    /\ IsRunning(n)
    /\ \/ /\ queue # <<>>
          /\ HandleTimeout(Head(queue))
          /\ removal' = "pending"
          /\ FinishHead("expiry")
       \/ /\ queue = <<>>
          /\ broken' = "assertion"
          /\ UNCHANGED <<queue, tries, timers, allocations, awaiting, removal, frame, trackerVars,
                         faults>>
    /\ UNCHANGED <<iid, started, foreign, prev, starts, wire, registered>>

ReturnToExpiryCallback ==
    /\ broken = "no" /\ frame = "expiry"
    /\ frame' = "loop"
    /\ UNCHANGED <<queue, requestVars, timers, allocations, foreign, runVars, registered,
                   awaiting, removal, trackerVars, broken>>

\* Mutants of RemoveRequestEntry: it leaves the next request to others, or
\* removes an entry, as its name says.
RemoveRequestEntryIdle ==
    /\ broken = "no" /\ frame = "loop"
    /\ removal = "pending"
    /\ removal' = "none"
    /\ UNCHANGED <<queue, requestVars, timers, allocations, foreign, runVars, registered,
                   awaiting, frame, trackerVars, broken>>

RemoveRequestEntryPops ==
    /\ broken = "no" /\ frame = "loop"
    /\ removal = "pending" /\ queue # <<>>
    /\ removal' = "none"
    /\ queue' = Tail(queue)
    /\ UNCHANGED <<requestVars, timers, allocations, foreign, runVars, registered, awaiting,
                   frame, trackerVars, broken>>

\* removeRequestEntry, from the event loop.
RemoveRequestEntry ==
    /\ broken = "no" /\ frame = "loop"
    /\ removal = "pending"
    /\ removal' = "none"
    /\ RunNext
    /\ UNCHANGED <<foreign, registered, awaiting, frame, trackerVars>>

\* Other processes at the lock database take and drop shared locks.
OthersMove ==
    /\ broken = "no"
    /\ foreign' \in ForeignSets \ {foreign}
    /\ UNCHANGED <<queue, requestVars, timers, allocations, runVars, registered, awaiting,
                   removal, frame, trackerVars, broken>>

Next ==
    \/ \E c \in Callers : RegisterRequest(c)
    \/ \E n \in Requests : RetryTimerFires(n)
    \/ \E m \in wire : HandleResponse(m)
    \/ ReturnToHandleResponse
    \/ \E n \in Requests : ExpiryTimerFires(n)
    \/ ReturnToExpiryCallback
    \/ RemoveRequestEntry
    \/ OthersMove

Spec == Init /\ [][Next]_vars

(* Armed timers and deferred calls fire, and handlers return.  Nothing is  *)
(* assumed of answers.                                                     *)
Fairness ==
    /\ WF_vars(\E n \in Requests : ExpiryTimerFires(n))
    /\ WF_vars(RemoveRequestEntry)
    /\ WF_vars(ReturnToHandleResponse)
    /\ WF_vars(ReturnToExpiryCallback)

FairSpec == Spec /\ Fairness

-----------------------------------------------------------------------------
Outcomes == {"no", "exception", "terminate", "assertion", "danglingResume"}

TypeOK ==
    /\ queue \in Seq(Requests)
    /\ iid \in [Requests -> Ids]
    /\ started \in [Requests -> Nat]
    /\ tries \in [Requests -> 0 .. 255]
    /\ timers \in [Requests -> SUBSET {"retry", "expiry"}]
    /\ prev \in Ids
    /\ allocations \in SUBSET Ids
    /\ foreign \in ForeignSets
    /\ wire \in SUBSET [iid : Ids, start : Nat]
    /\ starts \in Nat
    /\ registered \in 0 .. MaxRequests
    /\ awaiting \in [Callers -> Requests \union {Nobody}]
    /\ removal \in {"none", "pending"}
    /\ frame \in {"loop", "response", "expiry"}
    /\ firstTimeout \in Requests \union {Nobody}
    /\ messages \in Seq(Requests)
    /\ faults \in Nat
    /\ broken \in Outcomes

HeadIsRunning == queue # <<>> /\ IsRunning(Head(queue))

(* The IDs this process holds are exactly the one of the running head: no  *)
(* ID leaks, whatever fails, and none is freed twice.                      *)
IdsMatchHead ==
    broken = "no" => allocations = IF HeadIsRunning THEN {iid[Head(queue)]} ELSE {}

(* Only the head of the queue has timers armed: the expiry callback, which *)
(* works on the head, works on its own request, and none outlives its      *)
(* request.                                                                *)
OnlyHeadHasTimers ==
    \A n \in Requests : timers[n] # {} => queue # <<>> /\ n = Head(queue)

(* A request is resent only while its instance ID is held, and no more     *)
(* than NumRetries times: the wrapped retry counter is never used.         *)
ResendsUnderOwnId ==
    \A n \in Requests :
        "retry" \in timers[n] => IsRunning(n) /\ tries[n] <= NumRetries

(* When the event loop is at rest the endpoint is never left idle with     *)
(* requests queued.                                                        *)
NoStall == (frame = "loop" /\ removal = "none" /\ queue # <<>>) => HeadIsRunning

(* A suspended coroutine's request is in the queue: none waits for         *)
(* something the handler has forgotten.                                    *)
AwaitedIsQueued ==
    \A c \in Callers :
        awaiting[c] # Nobody => \E i \in DOMAIN queue : queue[i] = awaiting[c]

(* Every queued request has its coroutine waiting for it: none will be     *)
(* resumed twice, or after it has moved on.                                *)
QueueIsAwaited ==
    \A i \in DOMAIN queue : \E c \in Callers : awaiting[c] = queue[i]

(* Both: requests that are queued are served, and for somebody.            *)
QueueIsServed == NoStall /\ QueueIsAwaited

(* An answer in flight that the handler would match with the request at    *)
(* the head of the queue is an answer to that request, not a late answer   *)
(* to an earlier one: the type and command of an answer are not compared.  *)
NoCrossTalk ==
    \A m \in wire :
        Deliverable(m) /\ MatchesHead(m) => started[Head(queue)] = m.start

(* The handler stays within defined behaviour.                             *)
NeverBroken == broken = "no"

(* The setting nsmd runs in when it has the database to itself and nothing *)
(* fails.                                                                  *)
OwnDatabase == ForeignSets = {{}} /\ MaxFaults = 0

(* With a quiet device as well: the setting in which the properties above  *)
(* hold together.                                                          *)
SoleUser ==
    /\ OwnDatabase
    /\ QuietRemoval
    /\ Lifetime <= INST_ID_MAX

(* What the timeout log claims: the message it prints as the last one      *)
(* before the timeout is the request right before the first that timed     *)
(* out, and every request after it that has left the queue timed out too.  *)
TimeoutLogIsRight ==
    (firstTimeout # Nobody /\ messages # <<>>) => messages[Len(messages)] + 1 = firstTimeout

(* Requests are served in order, one at a time.                            *)
Service == INSTANCE SerialService
             WITH line <- queue,
                  serving <- HeadIsRunning,
                  made <- registered

ImplementsSerialService == Service!Spec

(* Every coroutine that awaits a request is resumed, answered or not, as   *)
(* long as the handler stays within defined behaviour.                     *)
EveryRequestEnds ==
    [](broken = "no") =>
        \A n \in Requests : \A c \in Callers : awaiting[c] = n ~> awaiting[c] # n

(* registerRequest returns NSM_ERROR when it did not register the request: *)
(* a request reported as failed is not completed later.                    *)
FailedRequestStaysFailed == broken # "danglingResume"

(* An answer that matches a request is handed to its response handler.     *)
MatchIsHandedOver == broken # "exception"
=============================================================================
