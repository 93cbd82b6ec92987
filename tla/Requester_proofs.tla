-------------------------- MODULE Requester_proofs --------------------------
(***************************************************************************)
(* Proofs about Requester, for any number of coroutines, instance IDs,     *)
(* retries, requests and faults.                                           *)
(***************************************************************************)
EXTENDS Requester, SequenceTheorems, TLAPS

(* A registered request is one, and so is its queue.                       *)
LEMMA NextRequest ==
    ASSUME TypeOK, registered < MaxRequests
    PROVE  /\ registered + 1 \in Requests
           /\ registered + 1 \in 0 .. MaxRequests
           /\ Append(queue, registered + 1) \in Seq(Requests)
  <1>1. registered \in 0 .. MaxRequests /\ queue \in Seq(Requests)
    BY DEF TypeOK
  <1>2. registered + 1 \in Requests /\ registered + 1 \in 0 .. MaxRequests
    BY <1>1, BoundsAssumption DEF Requests
  <1> QED
    BY <1>1, <1>2, AppendProperties

LEMMA HeadIsRequest ==
    ASSUME NEW q \in Seq(Requests), q # <<>>
    PROVE  Head(q) \in Requests /\ Tail(q) \in Seq(Requests)
  BY HeadTailProperties

(* What runRegisteredRequest changes keeps its type.                       *)
RunTypeOK ==
    /\ iid \in [Requests -> Ids]
    /\ started \in [Requests -> Nat]
    /\ timers \in [Requests -> SUBSET {"retry", "expiry"}]
    /\ prev \in Ids
    /\ allocations \in SUBSET Ids
    /\ wire \in SUBSET [iid : Ids, start : Nat]
    /\ starts \in Nat
    /\ faults \in Nat

LEMMA StartType ==
    ASSUME NEW n \in Requests, NEW id \in Ids, NEW rc, RunTypeOK, Start(n, id, rc)
    PROVE  RunTypeOK'
  <1>1. PICK fault :
          /\ faults' = IF fault = "none" THEN faults ELSE faults + 1
          /\ wire' = IF fault = "send" THEN wire
                     ELSE wire \union {[iid |-> id, start |-> starts + 1]}
    BY DEF Start, GiveBack
  <1>2. /\ prev' = id
        /\ starts' = starts + 1
        /\ iid' = [iid EXCEPT ![n] = id]
        /\ started' = [started EXCEPT ![n] = starts + 1]
    BY DEF Start, GiveBack
  <1>3. starts \in Nat /\ faults \in Nat
    BY DEF RunTypeOK
  <1>4. starts + 1 \in Nat /\ faults + 1 \in Nat
    BY <1>3
  <1>5. prev' \in Ids /\ starts' \in Nat /\ faults' \in Nat
    BY <1>1, <1>2, <1>3, <1>4
  <1>6. iid' \in [Requests -> Ids] /\ started' \in [Requests -> Nat]
    BY <1>2, <1>4 DEF RunTypeOK
  <1>7. wire' \in SUBSET [iid : Ids, start : Nat]
    BY <1>1, <1>4 DEF RunTypeOK
  <1>8. timers' \in [Requests -> SUBSET {"retry", "expiry"}]
    BY DEF Start, GiveBack, RunTypeOK
  <1>9. allocations' \in SUBSET Ids
    BY DEF Start, GiveBack, RunTypeOK
  <1> QED
    BY <1>5, <1>6, <1>7, <1>8, <1>9 DEF RunTypeOK

LEMMA RunType ==
    ASSUME NEW q \in Seq(Requests), NEW rc, TypeOK, RunRegisteredRequest(q, rc)
    PROVE  RunTypeOK'
  <1>1. RunTypeOK
    BY DEF TypeOK, RunTypeOK
  <1>2. CASE UNCHANGED <<iid, started, timers, allocations, prev, starts, wire>>
             /\ faults' \in {faults, faults + 1}
    BY <1>1, <1>2 DEF RunTypeOK
  <1>3. ASSUME NEW id \in Ids, Start(Head(q), id, rc), ~NothingToRun(q)
        PROVE  RunTypeOK'
    <2>1. Head(q) \in Requests
      BY <1>3, HeadIsRequest DEF NothingToRun
    <2> QED
      BY <1>1, <1>3, <2>1, StartType
  <1> QED
    BY <1>2, <1>3 DEF RunRegisteredRequest, runVars

LEMMA RunNextType ==
    ASSUME TypeOK, RunNext
    PROVE  RunTypeOK' /\ UNCHANGED <<queue, tries>> /\ broken' \in Outcomes
  <1>1. PICK rc \in {"ok", "error", "throw"} :
          /\ RunRegisteredRequest(queue, rc)
          /\ broken' = IF rc = "throw" THEN "exception" ELSE broken
          /\ UNCHANGED <<queue, tries>>
    BY DEF RunNext
  <1>2. queue \in Seq(Requests) /\ broken \in Outcomes
    BY DEF TypeOK
  <1>3. broken' \in Outcomes
    BY <1>1, <1>2 DEF Outcomes
  <1> QED
    BY <1>1, <1>2, <1>3, RunType

(* A finished head leaves everything well typed.                           *)
LEMMA FinishType ==
    ASSUME NEW handler \in {"response", "expiry"}, TypeOK, queue # <<>>, FinishHead(handler)
    PROVE  /\ queue' \in Seq(Requests)
           /\ tries' \in [Requests -> 0 .. 255]
           /\ timers' \in [Requests -> SUBSET {"retry", "expiry"}]
           /\ allocations' \in SUBSET Ids
           /\ awaiting' \in [Callers -> Requests \union {Nobody}]
           /\ frame' \in {"loop", "response", "expiry"}
           /\ broken' \in Outcomes
           /\ faults' \in Nat
  <1>1. Head(queue) \in Requests /\ Tail(queue) \in Seq(Requests)
    BY HeadIsRequest DEF TypeOK
  <1>2. queue' \in Seq(Requests) /\ frame' \in {"loop", "response", "expiry"}
    BY <1>1 DEF FinishHead, StopTimers, TypeOK
  <1>3. tries' \in [Requests -> 0 .. 255]
    <2>1. tries' = tries \/ tries' = [tries EXCEPT ![Head(queue)] = NumRetries]
      BY Zenon DEF FinishHead
    <2>2. tries \in [Requests -> 0 .. 255]
      BY DEF TypeOK
    <2> QED
      BY <1>1, <2>1, <2>2, NumRetriesAssumption
  <1>4. /\ timers' \in [Requests -> SUBSET {"retry", "expiry"}]
        /\ allocations' \in SUBSET Ids
    BY <1>1 DEF FinishHead, StopTimers, TypeOK
  <1>5. awaiting' \in [Callers -> Requests \union {Nobody}]
    BY <1>1 DEF FinishHead, StopTimers, Resume, TypeOK
  <1>6. broken' \in Outcomes
    BY DEF FinishHead, StopTimers, Resume, TypeOK, Outcomes
  <1>7. faults' \in Nat
    <2>1. faults \in Nat /\ faults' \in {faults, faults + 1}
      BY DEF FinishHead, TypeOK
    <2> QED
      BY <2>1
  <1> QED
    BY <1>2, <1>3, <1>4, <1>5, <1>6, <1>7

(* Every variable keeps its type.                                          *)
THEOREM TypeCorrect == Spec => []TypeOK
<1>1. Init => TypeOK
  <2> SUFFICES ASSUME Init PROVE TypeOK
    OBVIOUS
  <2>1. 0 \in Ids /\ INST_ID_MAX - 1 \in Ids
    BY InstIdMaxAssumption DEF Ids
  <2>2. 0 \in 0 .. MaxRequests /\ 0 \in Nat /\ "no" \in Outcomes
    BY BoundsAssumption DEF Outcomes
  <2>3. <<>> \in Seq(Requests)
    BY EmptySeq
  <2>4. /\ iid \in [Requests -> Ids]
        /\ started \in [Requests -> Nat]
        /\ tries \in [Requests -> 0 .. 255]
        /\ timers \in [Requests -> SUBSET {"retry", "expiry"}]
        /\ awaiting \in [Callers -> Requests \union {Nobody}]
    BY <2>1, <2>2, NumRetriesAssumption DEF Init
  <2> QED
    BY <2>1, <2>2, <2>3, <2>4, ForeignAssumption DEF Init, TypeOK
<1>2. ASSUME TypeOK, NEW c \in Callers, RegisterRequest(c) PROVE TypeOK'
  <2>1. /\ registered + 1 \in Requests
        /\ registered + 1 \in 0 .. MaxRequests
        /\ queue' \in Seq(Requests)
    BY <1>2, NextRequest DEF RegisterRequest
  <2>2. RunTypeOK'
    BY <1>2, <2>1, RunType DEF RegisterRequest
  <2>3. PICK rc \in {"ok", "error", "throw"} :
          /\ awaiting' = IF rc = "ok" THEN [awaiting EXCEPT ![c] = registered + 1] ELSE awaiting
          /\ broken' = IF rc = "throw" THEN "terminate" ELSE broken
    BY <1>2 DEF RegisterRequest
  <2>4. awaiting' \in [Callers -> Requests \union {Nobody}] /\ broken' \in Outcomes
    BY <1>2, <2>1, <2>3 DEF TypeOK, Outcomes
  <2>5. /\ UNCHANGED <<tries, foreign, removal, frame, firstTimeout, messages>>
        /\ registered' = registered + 1
    BY <1>2 DEF RegisterRequest, trackerVars
  <2> QED
    BY <1>2, <2>1, <2>2, <2>4, <2>5 DEF TypeOK, RunTypeOK
<1>3. ASSUME TypeOK, NEW n \in Requests, RetryTimerFires(n) PROVE TypeOK'
  <2>1. tries' = [tries EXCEPT ![n] = OneRetryLess(tries[n])] /\ tries[n] \in 0 .. 255
    BY <1>3 DEF RetryTimerFires, TypeOK
  <2>2. OneRetryLess(tries[n]) \in 0 .. 255
    BY <2>1 DEF OneRetryLess
  <2>3. tries' \in [Requests -> 0 .. 255]
    BY <1>3, <2>1, <2>2 DEF TypeOK
  <2>4. wire' = wire \union {[iid |-> iid[n], start |-> started[n]]} \/ wire' = wire
    BY <1>3 DEF RetryTimerFires
  <2>5. iid[n] \in Ids /\ started[n] \in Nat /\ wire \in SUBSET [iid : Ids, start : Nat]
    BY <1>3 DEF TypeOK
  <2>6. wire' \in SUBSET [iid : Ids, start : Nat]
    BY <2>4, <2>5
  <2>7. timers' = [timers EXCEPT ![n] = timers[n] \ {"retry"}] \/ timers' = timers
    BY <1>3 DEF RetryTimerFires
  <2>8. timers' \in [Requests -> SUBSET {"retry", "expiry"}]
    BY <1>3, <2>7 DEF TypeOK
  <2> QED
    BY <1>3, <2>3, <2>6, <2>8 DEF RetryTimerFires, TypeOK, trackerVars
<1>4. ASSUME TypeOK, NEW m \in wire, HandleResponse(m) PROVE TypeOK'
  <2>1. CASE MatchesHead(m) /\ HandleNoTimeout(Head(queue)) /\ FinishHead("response")
             /\ UNCHANGED <<iid, started, prev, starts, wire>>
    <3>1. queue # <<>> /\ Head(queue) \in Requests
      BY <1>4, <2>1, HeadIsRequest DEF MatchesHead, TypeOK
    <3>2. messages' \in Seq(Requests) /\ firstTimeout' \in Requests \union {Nobody}
      BY <2>1, <3>1 DEF HandleNoTimeout
    <3> QED
      BY <1>4, <2>1, <3>1, <3>2, FinishType DEF HandleResponse, TypeOK, runVars
  <2>2. CASE RunNext /\ UNCHANGED <<awaiting, frame, trackerVars>>
    BY <1>4, <2>2, RunNextType DEF HandleResponse, TypeOK, RunTypeOK, trackerVars
  <2> QED
    BY <1>4, <2>1, <2>2 DEF HandleResponse
<1>5. ASSUME TypeOK, ReturnToHandleResponse PROVE TypeOK'
  BY <1>5, RunNextType DEF ReturnToHandleResponse, TypeOK, RunTypeOK, trackerVars
<1>6. ASSUME TypeOK, NEW n \in Requests, ExpiryTimerFires(n) PROVE TypeOK'
  <2>1. CASE queue # <<>> /\ HandleTimeout(Head(queue)) /\ removal' = "pending"
             /\ FinishHead("expiry")
    <3>1. Head(queue) \in Requests
      BY <1>6, <2>1, HeadIsRequest DEF TypeOK
    <3>2. messages' \in Seq(Requests) /\ firstTimeout' \in Requests \union {Nobody}
      BY <1>6, <2>1, <3>1 DEF HandleTimeout, TypeOK
    <3> QED
      BY <1>6, <2>1, <3>2, FinishType DEF ExpiryTimerFires, TypeOK, runVars
  <2>2. CASE broken' = "assertion"
             /\ UNCHANGED <<queue, tries, timers, allocations, awaiting, removal, frame, trackerVars, faults>>
    BY <1>6, <2>2 DEF ExpiryTimerFires, TypeOK, Outcomes, runVars, trackerVars
  <2> QED
    BY <1>6, <2>1, <2>2 DEF ExpiryTimerFires
<1>7. ASSUME TypeOK, ReturnToExpiryCallback PROVE TypeOK'
  BY <1>7 DEF ReturnToExpiryCallback, TypeOK, requestVars, runVars, trackerVars
<1>8. ASSUME TypeOK, RemoveRequestEntry PROVE TypeOK'
  BY <1>8, RunNextType DEF RemoveRequestEntry, TypeOK, RunTypeOK, trackerVars
<1>9. ASSUME TypeOK, OthersMove PROVE TypeOK'
  BY <1>9 DEF OthersMove, TypeOK, requestVars, runVars, trackerVars
<1>10. ASSUME TypeOK, UNCHANGED vars PROVE TypeOK'
  BY <1>10 DEF vars, TypeOK, requestVars, runVars, trackerVars
<1>11. TypeOK /\ [Next]_vars => TypeOK'
  BY <1>2, <1>3, <1>4, <1>5, <1>6, <1>7, <1>8, <1>9, <1>10 DEF Next
<1> QED
  BY <1>1, <1>11, PTL DEF Spec

-----------------------------------------------------------------------------
(* IDs and timers, whatever fails.                                         *)
TimersOf(q) == \A n \in Requests : timers[n] # {} => q # <<>> /\ n = Head(q)

IdsOf(q) ==
    allocations = IF q # <<>> /\ IsRunning(Head(q)) THEN {iid[Head(q)]} ELSE {}

IdsAndTimers == OnlyHeadHasTimers /\ IdsMatchHead

(* runRegisteredRequest starts the head or leaves it alone.                *)
LEMMA RunKeepsIdsAndTimers ==
    ASSUME TypeOK, NEW q \in Seq(Requests), NEW rc,
           TimersOf(q), IdsOf(q), RunRegisteredRequest(q, rc), queue' = q,
           rc = "throw" => broken' # "no"
    PROVE  OnlyHeadHasTimers' /\ IdsMatchHead'
  <1>1. CASE UNCHANGED <<iid, timers, allocations>>
    BY <1>1 DEF TimersOf, IdsOf, OnlyHeadHasTimers, IdsMatchHead, HeadIsRunning, IsRunning
  <1>2. ASSUME NEW id \in Ids, ~NothingToRun(q), Start(Head(q), id, rc)
        PROVE  OnlyHeadHasTimers' /\ IdsMatchHead'
    <2> DEFINE n == Head(q)
    <2>1. q # <<>> /\ ~IsRunning(n) /\ n \in Requests
      BY <1>2, HeadIsRequest DEF NothingToRun
    <2>2. allocations = {}
      BY <2>1 DEF IdsOf
    <2>3. \A k \in Requests : k # n => timers'[k] = timers[k]
      BY <1>2, <2>1 DEF Start, GiveBack, TypeOK
    <2>4. OnlyHeadHasTimers'
      BY <2>1, <2>3 DEF OnlyHeadHasTimers, TimersOf
    <2>5. iid'[n] = id
      BY <1>2, <2>1 DEF Start, GiveBack, TypeOK
    <2>6. \/ "expiry" \in timers'[n] /\ allocations' = {id}
          \/ "expiry" \notin timers'[n] /\ allocations' = {}
          \/ rc = "throw"
      <3>1. timers \in [Requests -> SUBSET {"retry", "expiry"}] /\ "expiry" \notin timers[n]
        BY <2>1 DEF TypeOK, IsRunning
      <3>2. \E T \in SUBSET {"retry"} :
              \/ timers' = [timers EXCEPT ![n] = @ \union T \union {"expiry"}]
                 /\ allocations' = allocations \union {id}
              \/ timers' = [timers EXCEPT ![n] = @ \union T] /\ allocations' = allocations
              \/ timers' = timers /\ allocations' = allocations
              \/ rc = "throw"
        BY <1>2 DEF Start, GiveBack
      <3> QED
        BY <2>1, <2>2, <3>1, <3>2
    <2>7. IdsMatchHead'
      BY <2>1, <2>5, <2>6 DEF IdsMatchHead, HeadIsRunning, IsRunning
    <2> QED
      BY <2>4, <2>7
  <1> QED
    BY <1>1, <1>2 DEF RunRegisteredRequest, runVars

LEMMA RunNextKeepsIdsAndTimers ==
    ASSUME TypeOK, IdsAndTimers, broken = "no", RunNext
    PROVE  IdsAndTimers'
  <1>1. queue \in Seq(Requests) /\ TimersOf(queue) /\ IdsOf(queue)
    BY DEF TypeOK, IdsAndTimers, TimersOf, IdsOf, OnlyHeadHasTimers, IdsMatchHead, HeadIsRunning
  <1> QED
    BY <1>1, RunKeepsIdsAndTimers DEF RunNext, IdsAndTimers

(* A popped head takes its timers and its ID with it.                      *)
LEMMA FinishKeepsIdsAndTimers ==
    ASSUME TypeOK, IdsAndTimers, broken = "no", queue # <<>>,
           NEW handler, FinishHead(handler), UNCHANGED iid
    PROVE  IdsAndTimers'
  <1> DEFINE n == Head(queue)
  <1>1. n \in Requests
    BY HeadIsRequest DEF TypeOK
  <1>2. \A k \in Requests : timers'[k] = {}
    BY <1>1 DEF FinishHead, StopTimers, IdsAndTimers, OnlyHeadHasTimers, TypeOK
  <1>3. queue' \in Seq(Requests)
    BY HeadIsRequest DEF FinishHead, StopTimers, TypeOK
  <1>4. ~HeadIsRunning'
    BY <1>2, <1>3, HeadIsRequest DEF HeadIsRunning, IsRunning
  <1>5. broken' = "no" => allocations' = {}
    BY DEF FinishHead, StopTimers, IdsAndTimers, IdsMatchHead
  <1> QED
    BY <1>2, <1>4, <1>5 DEF IdsAndTimers, OnlyHeadHasTimers, IdsMatchHead

(* The retry timer stops no other.                                         *)
LEMMA RetryTimerKeeps ==
    ASSUME TypeOK, NEW n \in Requests, RetryTimerFires(n)
    PROVE  \A k \in Requests : /\ timers'[k] # {} => timers[k] # {}
                               /\ "expiry" \in timers'[k] <=> "expiry" \in timers[k]
  <1>1. timers' = timers \/ timers' = [timers EXCEPT ![n] = timers[n] \ {"retry"}]
    BY Zenon DEF RetryTimerFires
  <1>2. timers \in [Requests -> SUBSET {"retry", "expiry"}]
    BY DEF TypeOK
  <1> QED
    BY <1>1, <1>2

LEMMA IdsAndTimersStep ==
    ASSUME TypeOK, IdsAndTimers, [Next]_vars PROVE IdsAndTimers'
  <1>1. ASSUME NEW c \in Callers, RegisterRequest(c) PROVE IdsAndTimers'
    <2> DEFINE r == registered + 1
               q == Append(queue, r)
    <2>1. broken = "no" /\ queue' = q /\ r \in Requests /\ q \in Seq(Requests)
      BY <1>1, NextRequest DEF RegisterRequest
    <2>2. queue \in Seq(Requests)
      BY DEF TypeOK
    <2>3. q # <<>> /\ (queue # <<>> => Head(q) = Head(queue)) /\ (queue = <<>> => Head(q) = r)
      BY <2>1, <2>2
    <2>4. TimersOf(q)
      BY <2>3 DEF TimersOf, IdsAndTimers, OnlyHeadHasTimers
    <2>5. queue = <<>> => ~IsRunning(r)
      BY <2>1 DEF IdsAndTimers, OnlyHeadHasTimers, IsRunning
    <2>6. IdsOf(q)
      BY <2>1, <2>3, <2>5 DEF IdsOf, IdsAndTimers, IdsMatchHead, HeadIsRunning
    <2> QED
      BY <1>1, <2>1, <2>4, <2>6, RunKeepsIdsAndTimers DEF RegisterRequest, IdsAndTimers
  <1>2. ASSUME NEW n \in Requests, RetryTimerFires(n) PROVE IdsAndTimers'
    <2>1. UNCHANGED <<queue, iid, allocations, broken>>
      BY <1>2 DEF RetryTimerFires
    <2>2. \A k \in Requests : /\ timers'[k] # {} => timers[k] # {}
                              /\ "expiry" \in timers'[k] <=> "expiry" \in timers[k]
      BY <1>2, RetryTimerKeeps
    <2>3. queue # <<>> => Head(queue) \in Requests
      BY HeadIsRequest DEF TypeOK
    <2> QED
      BY <2>1, <2>2, <2>3
      DEF IdsAndTimers, OnlyHeadHasTimers, IdsMatchHead, HeadIsRunning, IsRunning
  <1>3. ASSUME NEW m \in wire, HandleResponse(m) PROVE IdsAndTimers'
    BY <1>3, RunNextKeepsIdsAndTimers, FinishKeepsIdsAndTimers DEF HandleResponse, MatchesHead
  <1>4. ASSUME ReturnToHandleResponse PROVE IdsAndTimers'
    BY <1>4, RunNextKeepsIdsAndTimers DEF ReturnToHandleResponse
  <1>5. ASSUME NEW n \in Requests, ExpiryTimerFires(n) PROVE IdsAndTimers'
    <2>1. queue # <<>>
      BY <1>5 DEF ExpiryTimerFires, IdsAndTimers, OnlyHeadHasTimers, IsRunning
    <2> QED
      BY <1>5, <2>1, FinishKeepsIdsAndTimers DEF ExpiryTimerFires
  <1>6. ASSUME RemoveRequestEntry PROVE IdsAndTimers'
    BY <1>6, RunNextKeepsIdsAndTimers DEF RemoveRequestEntry
  <1>7. ASSUME \/ ReturnToExpiryCallback
               \/ OthersMove
               \/ UNCHANGED vars
        PROVE  IdsAndTimers'
    BY <1>7 DEF ReturnToExpiryCallback, OthersMove, vars, requestVars, IdsAndTimers,
                OnlyHeadHasTimers, IdsMatchHead, HeadIsRunning, IsRunning
  <1> QED
    BY <1>1, <1>2, <1>3, <1>4, <1>5, <1>6, <1>7 DEF Next

LEMMA IdsAndTimersHold == Spec => []IdsAndTimers
<1>1. Init => IdsAndTimers
  BY DEF Init, IdsAndTimers, OnlyHeadHasTimers, IdsMatchHead, HeadIsRunning
<1>2. TypeOK /\ IdsAndTimers /\ [Next]_vars => IdsAndTimers'
  BY IdsAndTimersStep
<1> QED
  BY <1>1, <1>2, TypeCorrect, PTL DEF Spec

(* This process holds exactly the instance ID of its running request, even *)
(* if sends, timer starts and fcntl calls fail and other processes compete *)
(* for the IDs.                                                            *)
THEOREM NoIdLeaks == Spec => []IdsMatchHead
<1>1. IdsAndTimers => IdsMatchHead
  BY DEF IdsAndTimers
<1> QED
  BY <1>1, IdsAndTimersHold, PTL

(* Timers are armed for the head of the queue only.                        *)
THEOREM TimersBelongToHead == Spec => []OnlyHeadHasTimers
<1>1. IdsAndTimers => OnlyHeadHasTimers
  BY DEF IdsAndTimers
<1> QED
  BY <1>1, IdsAndTimersHold, PTL

-----------------------------------------------------------------------------
(* The serial service, whatever fails.                                     *)

(* Starting the head is serving it; nothing else becomes running.          *)
LEMMA RunServes ==
    ASSUME TypeOK, IdsAndTimers, broken = "no", RunNext, UNCHANGED registered
    PROVE  [Service!Next]_<<queue, HeadIsRunning, registered>>
  <1>1. queue' = queue
    BY DEF RunNext
  <1>2. CASE HeadIsRunning
    <2>1. UNCHANGED timers
      BY <1>2 DEF RunNext, RunRegisteredRequest, NothingToRun, HeadIsRunning
    <2> QED
      BY <1>1, <2>1 DEF HeadIsRunning, IsRunning
  <1>3. CASE ~HeadIsRunning
    <2>1. CASE HeadIsRunning' = HeadIsRunning
      BY <1>1, <2>1
    <2>2. CASE HeadIsRunning' = TRUE
      BY <1>1, <1>3, <2>2 DEF Service!Next, Service!Serve, HeadIsRunning
    <2>3. HeadIsRunning \in BOOLEAN /\ HeadIsRunning' \in BOOLEAN
      BY DEF HeadIsRunning, IsRunning
    <2> QED
      BY <1>3, <2>1, <2>2, <2>3
  <1> QED
    BY <1>2, <1>3

(* A head that is popped was running, and the next one is not.             *)
LEMMA FinishServes ==
    ASSUME TypeOK, IdsAndTimers, broken = "no", queue # <<>>, NEW handler, FinishHead(handler),
           UNCHANGED registered
    PROVE  [Service!Next]_<<queue, HeadIsRunning, registered>>
  <1> DEFINE n == Head(queue)
  <1>1. n \in Requests /\ queue \in Seq(Requests)
    BY HeadIsRequest DEF TypeOK
  <1>2. \A k \in Requests : timers'[k] = {}
    BY <1>1 DEF FinishHead, StopTimers, IdsAndTimers, OnlyHeadHasTimers, TypeOK
  <1>3. queue' \in Seq(Requests)
    BY HeadIsRequest DEF FinishHead, StopTimers, TypeOK
  <1>4. HeadIsRunning' = FALSE
    BY <1>2, <1>3, HeadIsRequest DEF HeadIsRunning, IsRunning
  <1>5. CASE iid[n] \in allocations
    <2>1. HeadIsRunning
      BY <1>5 DEF IdsAndTimers, IdsMatchHead
    <2>2. queue' \in {Tail(queue), queue}
      BY <1>5 DEF FinishHead
    <2> QED
      BY <1>4, <2>1, <2>2 DEF Service!Next, Service!Finish, Service!Interrupt
  <1>6. CASE iid[n] \notin allocations
    <2>1. ~HeadIsRunning
      BY <1>6 DEF IdsAndTimers, IdsMatchHead
    <2>2. HeadIsRunning = FALSE
      BY <2>1 DEF HeadIsRunning, IsRunning
    <2>3. queue' = queue
      BY <1>6 DEF FinishHead, StopTimers
    <2> QED
      BY <1>4, <2>2, <2>3
  <1> QED
    BY <1>5, <1>6

LEMMA ServiceStep ==
    ASSUME TypeOK, IdsAndTimers, [Next]_vars
    PROVE  [Service!Next]_<<queue, HeadIsRunning, registered>>
  <1>1. ASSUME NEW c \in Callers, RegisterRequest(c)
        PROVE  [Service!Next]_<<queue, HeadIsRunning, registered>>
    <2> DEFINE r == registered + 1
               q == Append(queue, r)
    <2>1. /\ queue' = q /\ registered' = r /\ broken = "no"
          /\ \E rc : RunRegisteredRequest(q, rc)
      BY <1>1 DEF RegisterRequest
    <2>2. queue \in Seq(Requests) /\ registered \in Nat
      BY DEF TypeOK
    <2>3. CASE HeadIsRunning
      <3>1. Head(q) = Head(queue) /\ NothingToRun(q) /\ q # <<>>
        BY <2>2, <2>3 DEF HeadIsRunning, NothingToRun
      <3>2. UNCHANGED timers
        BY <2>1, <3>1 DEF RunRegisteredRequest
      <3>3. Head(q) = Head(queue) /\ q # <<>> /\ queue # <<>>
        BY <2>3, <3>1 DEF HeadIsRunning
      <3>4. HeadIsRunning' = HeadIsRunning
        BY <2>1, <3>2, <3>3 DEF HeadIsRunning, IsRunning
      <3> QED
        BY <2>1, <3>4 DEF Service!Next, Service!Make
    <2>4. CASE ~HeadIsRunning
      <3>1. HeadIsRunning \in BOOLEAN /\ HeadIsRunning' \in BOOLEAN
        BY DEF HeadIsRunning, IsRunning
      <3>2. HeadIsRunning' \in {HeadIsRunning, TRUE}
        BY <2>4, <3>1
      <3> QED
        BY <2>1, <3>2 DEF Service!Next, Service!Make
    <2> QED
      BY <2>3, <2>4
  <1>2. ASSUME NEW n \in Requests, RetryTimerFires(n)
        PROVE  UNCHANGED <<queue, HeadIsRunning, registered>>
    <2>1. \A k \in Requests : "expiry" \in timers'[k] <=> "expiry" \in timers[k]
      BY <1>2, RetryTimerKeeps
    <2>2. UNCHANGED <<queue, registered>>
      BY <1>2 DEF RetryTimerFires
    <2>3. queue # <<>> => Head(queue) \in Requests
      BY HeadIsRequest DEF TypeOK
    <2>4. HeadIsRunning' = HeadIsRunning
      BY <2>1, <2>2, <2>3 DEF HeadIsRunning, IsRunning
    <2> QED
      BY <2>2, <2>4
  <1>3. ASSUME NEW m \in wire, HandleResponse(m)
        PROVE  [Service!Next]_<<queue, HeadIsRunning, registered>>
    <2>1. broken = "no" /\ UNCHANGED registered
      BY <1>3 DEF HandleResponse
    <2>2. CASE MatchesHead(m) /\ FinishHead("response")
      BY <2>1, <2>2, FinishServes DEF MatchesHead
    <2>3. CASE RunNext
      BY <2>1, <2>3, RunServes
    <2> QED
      BY <1>3, <2>2, <2>3 DEF HandleResponse
  <1>4. ASSUME NEW n \in Requests, ExpiryTimerFires(n)
        PROVE  [Service!Next]_<<queue, HeadIsRunning, registered>>
    <2>1. queue # <<>>
      BY <1>4 DEF ExpiryTimerFires, IdsAndTimers, OnlyHeadHasTimers, IsRunning
    <2>2. broken = "no" /\ UNCHANGED registered /\ FinishHead("expiry")
      BY <1>4, <2>1 DEF ExpiryTimerFires
    <2> QED
      BY <2>1, <2>2, FinishServes
  <1>5. ASSUME ReturnToHandleResponse \/ RemoveRequestEntry
        PROVE  [Service!Next]_<<queue, HeadIsRunning, registered>>
    <2>1. broken = "no" /\ UNCHANGED registered /\ RunNext
      BY <1>5 DEF ReturnToHandleResponse, RemoveRequestEntry
    <2> QED
      BY <2>1, RunServes
  <1>6. ASSUME ReturnToExpiryCallback \/ OthersMove \/ UNCHANGED vars
        PROVE  UNCHANGED <<queue, HeadIsRunning, registered>>
    <2>1. UNCHANGED <<queue, timers, registered>>
      BY <1>6 DEF ReturnToExpiryCallback, OthersMove, vars
    <2> QED
      BY <2>1 DEF HeadIsRunning, IsRunning
  <1> QED
    BY <1>1, <1>2, <1>3, <1>4, <1>5, <1>6 DEF Next

(* Requests are served one at a time and in order, also by a handler in    *)
(* which sends, timer starts and ID allocations fail.                      *)
THEOREM ServesInOrder == Spec => ImplementsSerialService
<1>1. Init => Service!Init
  <2> SUFFICES ASSUME Init PROVE Service!Init
    OBVIOUS
  <2>1. queue = <<>> /\ registered = 0
    BY DEF Init
  <2>2. HeadIsRunning = FALSE
    BY <2>1 DEF HeadIsRunning
  <2> QED
    BY <2>1, <2>2 DEF Service!Init
<1>2. TypeOK /\ IdsAndTimers /\ [Next]_vars
        => [Service!Next]_<<queue, HeadIsRunning, registered>>
  BY ServiceStep
<1> QED
  BY <1>1, <1>2, TypeCorrect, IdsAndTimersHold, PTL DEF Spec, ImplementsSerialService, Service!Spec

-----------------------------------------------------------------------------
(* The sole user of the database, without faults.                          *)

(* An answer in flight that is young enough carries the ID that was handed *)
(* out as many starts ago, counting backwards from prev around the IDs.    *)
WireFollowsPrev ==
    \A m \in wire :
        /\ m.start <= starts
        /\ starts - m.start < INST_ID_MAX =>
             \/ m.iid = prev - (starts - m.start)
             \/ m.iid = prev - (starts - m.start) + INST_ID_MAX

(* A running request is the last one started; one that is not running has  *)
(* all its retries left.                                                   *)
RunningIsLastStarted ==
    \A n \in Requests :
        /\ IsRunning(n) => started[n] = starts /\ iid[n] = prev
        /\ ~IsRunning(n) => tries[n] = NumRetries

QueueInOrder ==
    /\ \A i \in DOMAIN queue : queue[i] <= registered
    /\ \A i, j \in DOMAIN queue : i < j => queue[i] < queue[j]

(* Without faults one thing can still go wrong: an answer between the      *)
(* expiry of a request and its deferred removal may carry the ID that the  *)
(* next request, which is not yet started, was encoded with, and freeing   *)
(* that ID throws.                                                         *)
StaysDefined ==
    \/ broken = "no"
    \/ ~QuietRemoval /\ broken = "exception"

Alone ==
    /\ foreign = {}
    /\ StaysDefined
    /\ WireFollowsPrev
    /\ RunningIsLastStarted
    /\ ResendsUnderOwnId
    /\ QueueInOrder
    /\ QueueIsAwaited
    /\ frame = "expiry" => removal = "pending"
    /\ NoStall

(* Nothing allocated, nothing foreign: the next ID is the one after prev.  *)
LEMMA NextIdAlone ==
    ASSUME allocations = {}, foreign = {}, prev \in Ids
    PROVE  /\ ~NoIdAvailable
           /\ \A id : IsNextId(id) => id = IF prev = INST_ID_MAX - 1 THEN 0 ELSE prev + 1
  <1>1. \A k \in 1 .. INST_ID_MAX - 1 : Available(k)
    BY DEF Available
  <1>2. 1 \in 1 .. INST_ID_MAX - 1
    BY InstIdMaxAssumption
  <1>3. ~NoIdAvailable
    BY <1>1, <1>2 DEF NoIdAvailable
  <1>4. ASSUME NEW id, IsNextId(id) PROVE id = NthAfterPrev(1)
    <2>1. PICK k \in 1 .. INST_ID_MAX - 1 :
            (\A j \in 1 .. k - 1 : ~Available(j)) /\ id = NthAfterPrev(k)
      BY <1>4 DEF IsNextId
    <2>2. k = 1
      <3>1. CASE k > 1
        <4>1. 1 \in 1 .. k - 1
          BY <3>1
        <4> QED
          BY <1>1, <1>2, <2>1, <4>1
      <3> QED
        BY <3>1
    <2> QED
      BY <2>1, <2>2
  <1>5. NthAfterPrev(1) = IF prev = INST_ID_MAX - 1 THEN 0 ELSE prev + 1
    <2>1. INST_ID_MAX \in Nat /\ INST_ID_MAX >= 2 /\ prev \in 0 .. INST_ID_MAX - 1
      BY InstIdMaxAssumption DEF Ids
    <2>2. CASE prev = INST_ID_MAX - 1
      BY <2>1, <2>2 DEF NthAfterPrev
    <2>3. CASE prev # INST_ID_MAX - 1
      BY <2>1, <2>3 DEF NthAfterPrev
    <2> QED
      BY <2>2, <2>3
  <1> QED
    BY <1>3, <1>4, <1>5

(* runRegisteredRequest cannot fail: afterwards the head is running, under *)
(* the next ID if it has just been started.                                *)
LEMMA SoleRun ==
    ASSUME OwnDatabase, TypeOK, foreign = {}, WireFollowsPrev, RunningIsLastStarted,
           ResendsUnderOwnId, NEW q \in Seq(Requests), TimersOf(q), IdsOf(q),
           NEW rc, RunRegisteredRequest(q, rc), UNCHANGED tries
    PROVE  /\ rc = "ok"
           /\ q # <<>> => "expiry" \in timers'[Head(q)]
           /\ WireFollowsPrev'
           /\ RunningIsLastStarted'
           /\ ResendsUnderOwnId'
  <1>1. ~(faults < MaxFaults)
    BY DEF OwnDatabase, TypeOK
  <1>2. CASE NothingToRun(q) /\ rc = "ok"
             /\ UNCHANGED <<iid, started, timers, allocations, runVars>>
    BY <1>2 DEF NothingToRun, runVars, IsRunning, WireFollowsPrev, RunningIsLastStarted,
                ResendsUnderOwnId
  <1>3. CASE ~NothingToRun(q)
    <2> DEFINE n == Head(q)
    <2>1. q # <<>> /\ ~IsRunning(n) /\ n \in Requests
      BY <1>3, HeadIsRequest DEF NothingToRun
    <2>2. allocations = {} /\ prev \in Ids
      BY <2>1 DEF IdsOf, TypeOK
    <2>3. ~NoIdAvailable
      BY <2>2, NextIdAlone
    <2>4. PICK id \in Ids : IsNextId(id) /\ Start(n, id, rc)
      BY <1>1, <1>3, <2>3 DEF RunRegisteredRequest
    <2>5. id = IF prev = INST_ID_MAX - 1 THEN 0 ELSE prev + 1
      BY <2>2, <2>4, NextIdAlone
    <2>6. /\ prev' = id
          /\ starts' = starts + 1
          /\ iid' = [iid EXCEPT ![n] = id]
          /\ started' = [started EXCEPT ![n] = starts + 1]
          /\ wire' = wire \union {[iid |-> id, start |-> starts + 1]}
          /\ rc = "ok"
          /\ \E T \in SUBSET {"retry"} :
               timers' = [timers EXCEPT ![n] = timers[n] \union T \union {"expiry"}]
      BY <1>1, <2>4 DEF Start, GiveBack
    <2>7. IsRunning(n)'
      BY <2>1, <2>6 DEF TypeOK, IsRunning
    <2>8. ASSUME NEW k \in Requests, k # n PROVE timers'[k] = {} /\ timers[k] = {}
      BY <2>1, <2>6, <2>8 DEF TypeOK, TimersOf
    <2>9. RunningIsLastStarted'
      <3>1. started'[n] = starts' /\ iid'[n] = prev'
        BY <2>1, <2>6 DEF TypeOK
      <3> QED
        BY <2>7, <2>8, <3>1 DEF RunningIsLastStarted, IsRunning
    <2>10. ResendsUnderOwnId'
      <3>1. tries[n] = NumRetries
        BY <2>1 DEF RunningIsLastStarted
      <3>2. tries'[n] <= NumRetries
        BY <3>1, NumRetriesAssumption
      <3> QED
        BY <2>7, <2>8, <3>2 DEF ResendsUnderOwnId, IsRunning
    <2>11. WireFollowsPrev'
      <3>1. starts \in Nat /\ wire \subseteq [iid : Ids, start : Nat]
        BY DEF TypeOK
      <3>2. ASSUME NEW m \in wire
            PROVE  /\ m.start <= starts'
                   /\ starts' - m.start < INST_ID_MAX =>
                        \/ m.iid = prev' - (starts' - m.start)
                        \/ m.iid = prev' - (starts' - m.start) + INST_ID_MAX
        <4>1. m.start \in Nat /\ m.iid \in Ids /\ m.start <= starts
          BY <3>1 DEF WireFollowsPrev
        <4> DEFINE d == starts - m.start
        <4>2. d \in Nat /\ starts' - m.start = d + 1 /\ m.start <= starts'
          BY <2>6, <3>1, <4>1
        <4>3. ASSUME d + 1 < INST_ID_MAX
              PROVE  m.iid = id - (d + 1) \/ m.iid = id - (d + 1) + INST_ID_MAX
          <5>1. d < INST_ID_MAX
            BY <4>2, <4>3, InstIdMaxAssumption
          <5>2. m.iid = prev - d \/ m.iid = prev - d + INST_ID_MAX
            BY <5>1 DEF WireFollowsPrev
          <5>3. d \in Nat /\ m.iid \in Ids
            BY <4>1, <4>2
          <5> HIDE DEF d
          <5>4. m.iid < INST_ID_MAX /\ INST_ID_MAX \in Nat /\ prev \in Nat
            BY <2>2, <5>3, InstIdMaxAssumption DEF Ids
          <5>5. CASE prev = INST_ID_MAX - 1
            BY <2>5, <4>3, <5>2, <5>3, <5>4, <5>5
          <5>6. CASE prev # INST_ID_MAX - 1
            BY <2>5, <5>2, <5>3, <5>4, <5>6
          <5> QED
            BY <5>5, <5>6
        <4> QED
          BY <2>6, <4>2, <4>3
      <3>3. ASSUME NEW m, m = [iid |-> id, start |-> starts + 1]
            PROVE  /\ m.start <= starts'
                   /\ m.iid = prev' - (starts' - m.start)
        <4>1. m.start = starts + 1 /\ m.iid = id /\ id \in Nat
          BY <3>3 DEF Ids
        <4> QED
          BY <2>6, <3>1, <4>1
      <3> QED
        BY <2>6, <3>2, <3>3 DEF WireFollowsPrev
    <2> QED
      BY <2>1, <2>6, <2>7, <2>9, <2>10, <2>11 DEF IsRunning
  <1> QED
    BY <1>2, <1>3 DEF RunRegisteredRequest

(* What a call of runRegisteredRequest at the end of a handler leaves.     *)
LEMMA SoleRunNext ==
    ASSUME OwnDatabase, TypeOK, IdsAndTimers, Alone, NeverBroken, RunNext
    PROVE  /\ NeverBroken'
           /\ WireFollowsPrev'
           /\ RunningIsLastStarted'
           /\ ResendsUnderOwnId'
           /\ queue' = queue
           /\ queue # <<>> => HeadIsRunning'
  <1>1. queue \in Seq(Requests) /\ TimersOf(queue) /\ IdsOf(queue)
    BY DEF TypeOK, IdsAndTimers, TimersOf, IdsOf, OnlyHeadHasTimers, IdsMatchHead, HeadIsRunning,
           Alone, NeverBroken
  <1>2. PICK rc : /\ RunRegisteredRequest(queue, rc)
                  /\ broken' = IF rc = "throw" THEN "exception" ELSE broken
                  /\ UNCHANGED <<queue, tries>>
    BY DEF RunNext
  <1>3. /\ rc = "ok"
        /\ queue # <<>> => "expiry" \in timers'[Head(queue)]
        /\ WireFollowsPrev'
        /\ RunningIsLastStarted'
        /\ ResendsUnderOwnId'
    BY <1>1, <1>2, SoleRun DEF Alone
  <1> QED
    BY <1>2, <1>3 DEF Alone, NeverBroken, HeadIsRunning, IsRunning

(* What the end of the running head leaves.                                *)
LEMMA SoleFinish ==
    ASSUME OwnDatabase, TypeOK, IdsAndTimers, Alone, NeverBroken, HeadIsRunning,
           NEW handler, FinishHead(handler), UNCHANGED <<iid, started, prev, starts, wire, registered>>
    PROVE  /\ NeverBroken'
           /\ WireFollowsPrev'
           /\ RunningIsLastStarted'
           /\ ResendsUnderOwnId'
           /\ QueueInOrder'
           /\ QueueIsAwaited'
           /\ frame' = handler
  <1> DEFINE n == Head(queue)
  <1>1. queue # <<>> /\ IsRunning(n) /\ queue \in Seq(Requests) /\ n \in Requests
    BY HeadIsRequest DEF HeadIsRunning, TypeOK
  <1>2. iid[n] \in allocations
    BY DEF IdsAndTimers, IdsMatchHead, NeverBroken
  <1>12. ~(faults < MaxFaults)
    BY DEF OwnDatabase, TypeOK
  <1>3. /\ timers' = [timers EXCEPT ![n] = {}]
        /\ queue' = Tail(queue)
        /\ tries' = [tries EXCEPT ![n] = NumRetries]
        /\ Resume(n)
        /\ frame' = handler
    BY <1>2, <1>12 DEF FinishHead, StopTimers
  <1>4. /\ 1 \in DOMAIN queue /\ queue[1] = n
        /\ \A i \in DOMAIN queue' : /\ i \in DOMAIN queue /\ i + 1 \in DOMAIN queue
                                    /\ i \in Nat /\ i > 0
                                    /\ queue'[i] = queue[i + 1]
    BY <1>1, <1>3
  <1>5. NeverBroken'
    <2>1. \E c \in Callers : awaiting[c] = n
      BY <1>4 DEF Alone, QueueIsAwaited
    <2> QED
      BY <1>3, <2>1 DEF Resume, NeverBroken
  <1>6. \A k \in Requests : timers'[k] = {}
    BY <1>1, <1>3 DEF IdsAndTimers, OnlyHeadHasTimers, TypeOK
  <1>7. ResendsUnderOwnId'
    BY <1>6 DEF ResendsUnderOwnId
  <1>8. RunningIsLastStarted'
    <2>1. ASSUME NEW k \in Requests PROVE tries'[k] = NumRetries
      <3>1. CASE k = n
        BY <1>1, <1>3, <3>1 DEF TypeOK
      <3>2. CASE k # n
        <4>1. ~IsRunning(k)
          BY <3>2 DEF IdsAndTimers, OnlyHeadHasTimers, IsRunning
        <4>2. tries[k] = NumRetries
          BY <4>1 DEF Alone, RunningIsLastStarted
        <4> QED
          BY <1>1, <1>3, <3>2, <4>2 DEF TypeOK
      <3> QED
        BY <3>1, <3>2
    <2> QED
      BY <1>6, <2>1 DEF RunningIsLastStarted, IsRunning
  <1>9. WireFollowsPrev'
    BY DEF WireFollowsPrev, Alone, runVars
  <1>10. QueueInOrder'
    <2>1. \A i, j \in DOMAIN queue' : i < j => i + 1 < j + 1
      BY <1>4
    <2> QED
      BY <1>4, <2>1 DEF Alone, QueueInOrder
  <1>11. QueueIsAwaited'
    <2>1. ASSUME NEW i \in DOMAIN queue' PROVE \E c \in Callers : awaiting'[c] = queue'[i]
      <3>1. i + 1 \in DOMAIN queue /\ queue'[i] = queue[i + 1] /\ 1 < i + 1
        BY <1>4
      <3>2. PICK c \in Callers : awaiting[c] = queue[i + 1]
        BY <3>1 DEF Alone, QueueIsAwaited
      <3>3. queue[i + 1] \in Requests
        BY <1>1, <3>1, ElementOfSeq
      <3>4. n < queue[i + 1]
        BY <1>4, <3>1 DEF Alone, QueueInOrder
      <3>5. queue[i + 1] # n
        BY <1>1, <3>3, <3>4 DEF Requests
      <3> QED
        BY <1>3, <3>1, <3>2, <3>5 DEF Resume
    <2> QED
      BY <2>1 DEF QueueIsAwaited
  <1> QED
    BY <1>3, <1>5, <1>7, <1>8, <1>9, <1>10, <1>11

LEMMA SoleStep ==
    ASSUME OwnDatabase, TypeOK, IdsAndTimers, Alone, [Next]_vars PROVE Alone'
  <1>1. ASSUME NEW c \in Callers, RegisterRequest(c) PROVE Alone'
    <2> DEFINE r == registered + 1
               q == Append(queue, r)
    <2>0. NeverBroken
      BY <1>1 DEF RegisterRequest, NeverBroken
    <2>1. queue' = q /\ registered' = r /\ r \in Requests /\ q \in Seq(Requests)
      BY <1>1, NextRequest DEF RegisterRequest
    <2>2. queue \in Seq(Requests)
      BY DEF TypeOK
    <2>3. q # <<>> /\ (queue # <<>> => Head(q) = Head(queue)) /\ (queue = <<>> => Head(q) = r)
      BY <2>1, <2>2
    <2>4. TimersOf(q)
      BY <2>3 DEF TimersOf, IdsAndTimers, OnlyHeadHasTimers
    <2>5. queue = <<>> => ~IsRunning(r)
      BY <2>1 DEF IdsAndTimers, OnlyHeadHasTimers, IsRunning
    <2>6. IdsOf(q)
      BY <2>1, <2>3, <2>5, <2>0 DEF IdsOf, IdsAndTimers, IdsMatchHead, HeadIsRunning, NeverBroken
    <2>7. PICK rc :
            /\ RunRegisteredRequest(q, rc)
            /\ awaiting' = IF rc = "ok" THEN [awaiting EXCEPT ![c] = r] ELSE awaiting
            /\ broken' = IF rc = "throw" THEN "terminate" ELSE broken
      BY <1>1, <2>1 DEF RegisterRequest
    <2>8. UNCHANGED <<tries, foreign, removal, frame>>
      BY <1>1 DEF RegisterRequest
    <2>9. /\ rc = "ok"
          /\ "expiry" \in timers'[Head(q)]
          /\ WireFollowsPrev'
          /\ RunningIsLastStarted'
          /\ ResendsUnderOwnId'
      BY <2>1, <2>3, <2>4, <2>6, <2>7, <2>8, SoleRun DEF Alone
    <2>10. NoStall'
      BY <2>1, <2>9 DEF NoStall, HeadIsRunning, IsRunning
    <2>11. \A i \in DOMAIN q : \/ i \in DOMAIN queue /\ q[i] = queue[i]
                               \/ i = Len(queue) + 1 /\ q[i] = r
      BY <2>1, <2>2
    <2>12. \A i \in DOMAIN queue : i \in Nat /\ i <= Len(queue) /\ queue[i] \in Nat /\ queue[i] < r
      <3>1. \A i \in DOMAIN queue : i \in Nat /\ i <= Len(queue) /\ queue[i] \in Requests
        BY <2>2
      <3>2. registered \in Nat
        BY DEF TypeOK
      <3>3. \A i \in DOMAIN queue : queue[i] <= registered
        BY DEF Alone, QueueInOrder
      <3> QED
        BY <3>1, <3>2, <3>3 DEF Requests
    <2>13. QueueInOrder'
      <3>1. r \in Nat /\ Len(queue) \in Nat
        BY <2>1, <2>2 DEF Requests
      <3>2. \A i \in DOMAIN q : q[i] <= r
        BY <2>11, <2>12, <3>1
      <3>3. ASSUME NEW i \in DOMAIN q, NEW j \in DOMAIN q, i < j PROVE q[i] < q[j]
        BY <2>11, <2>12, <3>1, <3>3 DEF Alone, QueueInOrder
      <3> HIDE DEF q, r
      <3> QED
        BY <2>1, <3>2, <3>3 DEF QueueInOrder
    <2>14. QueueIsAwaited'
      <3>1. awaiting' = [awaiting EXCEPT ![c] = r] /\ awaiting[c] = Nobody
        BY <1>1, <2>7, <2>9 DEF RegisterRequest
      <3>2. awaiting'[c] = r /\ \A d \in Callers : d # c => awaiting'[d] = awaiting[d]
        BY <3>1 DEF TypeOK
      <3>3. ASSUME NEW i \in DOMAIN queue
            PROVE  \E d \in Callers : awaiting'[d] = queue[i]
        <4>1. PICK d \in Callers : awaiting[d] = queue[i]
          BY DEF Alone, QueueIsAwaited
        <4>2. queue[i] # Nobody
          <5>1. queue[i] \in Requests
            BY <2>2
          <5> QED
            BY <5>1 DEF Requests, Nobody
        <4> QED
          BY <3>1, <3>2, <4>1, <4>2
      <3> QED
        BY <2>1, <2>11, <3>2, <3>3 DEF QueueIsAwaited
    <2> QED
      BY <2>7, <2>8, <2>9, <2>10, <2>13, <2>14, <2>0 DEF Alone, NeverBroken, StaysDefined
  <1>2. ASSUME NEW n \in Requests, RetryTimerFires(n) PROVE Alone'
    <2>1. /\ IsRunning(n) /\ tries[n] <= NumRetries /\ tries[n] \in 0 .. 255
          /\ started[n] = starts /\ iid[n] = prev
      BY <1>2 DEF RetryTimerFires, Alone, ResendsUnderOwnId, RunningIsLastStarted, TypeOK
    <2>2. /\ UNCHANGED <<queue, iid, started, foreign, prev, starts, registered, awaiting,
                         removal, frame, broken>>
          /\ tries' = [tries EXCEPT ![n] = OneRetryLess(tries[n])]
          /\ \/ /\ tries[n] # 0
                /\ wire' = wire \union {[iid |-> iid[n], start |-> started[n]]}
                /\ timers' = timers
             \/ /\ tries[n] = 0
                /\ timers' = [timers EXCEPT ![n] = timers[n] \ {"retry"}]
                /\ wire' = wire
      BY <1>2 DEF RetryTimerFires
    <2>3. /\ \A k \in Requests : /\ IsRunning(k)' <=> IsRunning(k)
                                 /\ k # n => timers'[k] = timers[k] /\ tries'[k] = tries[k]
          /\ "retry" \in timers'[n] => tries[n] # 0 /\ tries'[n] = OneRetryLess(tries[n])
      BY <2>2 DEF TypeOK, IsRunning
    <2>4. ResendsUnderOwnId'
      <3>1. tries[n] # 0 => OneRetryLess(tries[n]) <= NumRetries
        BY <2>1, NumRetriesAssumption DEF OneRetryLess
      <3>2. ASSUME NEW k \in Requests, "retry" \in timers'[k]
            PROVE  IsRunning(k)' /\ tries'[k] <= NumRetries
        <4>1. CASE k = n
          BY <2>1, <2>3, <3>1, <3>2, <4>1
        <4>2. CASE k # n
          BY <2>3, <3>2, <4>2 DEF Alone, ResendsUnderOwnId
        <4> QED
          BY <4>1, <4>2
      <3> QED
        BY <3>2 DEF ResendsUnderOwnId
    <2>5. RunningIsLastStarted'
      BY <2>1, <2>2, <2>3 DEF Alone, RunningIsLastStarted
    <2>6. WireFollowsPrev'
      <3>1. starts \in Nat /\ prev \in Nat
        BY DEF TypeOK, Ids
      <3>2. starts <= starts /\ prev = prev - (starts - starts)
        BY <3>1
      <3>3. ASSUME NEW m \in wire' PROVE m \in wire \/ (m.iid = prev /\ m.start = starts)
        <4>1. CASE m = [iid |-> iid[n], start |-> started[n]]
          BY <2>1, <4>1
        <4> QED
          BY <2>2, <4>1
      <3> QED
        BY <2>2, <3>2, <3>3 DEF Alone, WireFollowsPrev
    <2>7. NoStall'
      <3>1. queue # <<>> => Head(queue) \in Requests
        BY HeadIsRequest DEF TypeOK
      <3> QED
        BY <2>2, <2>3, <3>1 DEF Alone, NoStall, HeadIsRunning
    <2> QED
      BY <2>2, <2>4, <2>5, <2>6, <2>7 DEF Alone, StaysDefined, QueueInOrder, QueueIsAwaited
  <1>3. ASSUME NEW m \in wire, HandleResponse(m) PROVE Alone'
    <2>1. UNCHANGED <<foreign, registered, removal>> /\ NeverBroken
      BY <1>3 DEF HandleResponse, NeverBroken
    <2>2. CASE MatchesHead(m) /\ FinishHead("response") /\ HeadIsRunning
             /\ UNCHANGED <<iid, started, prev, starts, wire>>
      BY <2>1, <2>2, SoleFinish DEF Alone, StaysDefined, NeverBroken, NoStall
    <2>3. CASE MatchesHead(m) /\ FinishHead("response") /\ ~HeadIsRunning
             /\ UNCHANGED <<iid, started, prev, starts, wire>>
      <3> DEFINE n == Head(queue)
      <3>1. queue # <<>> /\ n \in Requests /\ ~IsRunning(n)
        BY <2>3, HeadIsRequest DEF MatchesHead, HeadIsRunning, TypeOK
      <3>2. ~QuietRemoval
        BY <1>3, <2>3, <3>1
        DEF HandleResponse, Deliverable, Alone, NoStall, HeadIsRunning, TypeOK
      <3>3. allocations = {}
        BY <2>1, <2>3 DEF IdsAndTimers, IdsMatchHead, NeverBroken
      <3>4. /\ StopTimers(n)
            /\ broken' = "exception"
            /\ UNCHANGED <<queue, tries, awaiting, frame>>
        BY <2>3, <3>3 DEF FinishHead
      <3>5. timers[n] = {}
        BY <3>1 DEF Alone, ResendsUnderOwnId, IsRunning, TypeOK
      <3>6. timers' = timers
        BY <3>1, <3>4, <3>5 DEF StopTimers, TypeOK
      <3> QED
        BY <2>1, <2>3, <3>2, <3>4, <3>6
        DEF Alone, StaysDefined, WireFollowsPrev, RunningIsLastStarted, ResendsUnderOwnId,
            QueueInOrder, QueueIsAwaited, NoStall, HeadIsRunning, IsRunning
    <2>4. CASE RunNext /\ UNCHANGED <<awaiting, frame, trackerVars>>
      BY <2>1, <2>4, SoleRunNext
      DEF Alone, StaysDefined, NeverBroken, NoStall, QueueInOrder, QueueIsAwaited, HeadIsRunning
    <2> QED
      BY <1>3, <2>2, <2>3, <2>4 DEF HandleResponse
  <1>4. ASSUME ReturnToHandleResponse PROVE Alone'
    BY <1>4, SoleRunNext
    DEF ReturnToHandleResponse, Alone, StaysDefined, NeverBroken, NoStall, QueueInOrder,
        QueueIsAwaited, HeadIsRunning
  <1>5. ASSUME NEW n \in Requests, ExpiryTimerFires(n) PROVE Alone'
    <2>1. HeadIsRunning /\ NeverBroken
      BY <1>5
      DEF ExpiryTimerFires, IdsAndTimers, OnlyHeadHasTimers, IsRunning, HeadIsRunning, NeverBroken
    <2>2. FinishHead("expiry") /\ removal' = "pending"
      BY <1>5, <2>1 DEF ExpiryTimerFires, HeadIsRunning
    <2>3. UNCHANGED <<iid, started, foreign, prev, starts, wire, registered>>
      BY <1>5 DEF ExpiryTimerFires
    <2> QED
      BY <2>1, <2>2, <2>3, SoleFinish DEF Alone, StaysDefined, NeverBroken, NoStall
  <1>6. ASSUME ReturnToExpiryCallback PROVE Alone'
    BY <1>6
    DEF ReturnToExpiryCallback, requestVars, runVars, Alone, StaysDefined, WireFollowsPrev,
        RunningIsLastStarted, ResendsUnderOwnId, QueueInOrder, QueueIsAwaited, NoStall, IsRunning
  <1>7. ASSUME RemoveRequestEntry PROVE Alone'
    BY <1>7, SoleRunNext
    DEF RemoveRequestEntry, Alone, StaysDefined, NeverBroken, NoStall, QueueInOrder,
        QueueIsAwaited, HeadIsRunning
  <1>8. ASSUME OthersMove PROVE Alone'
    BY <1>8 DEF OthersMove, OwnDatabase, Alone
  <1>9. ASSUME UNCHANGED vars PROVE Alone'
    BY <1>9
    DEF vars, requestVars, runVars, Alone, StaysDefined, WireFollowsPrev, RunningIsLastStarted,
        ResendsUnderOwnId, QueueInOrder, QueueIsAwaited, NoStall, HeadIsRunning, IsRunning
  <1> QED
    BY <1>1, <1>2, <1>3, <1>4, <1>5, <1>6, <1>7, <1>8, <1>9 DEF Next

LEMMA AloneHolds == ASSUME OwnDatabase PROVE Spec => []Alone
<1>1. Init => Alone
  BY DEF Init, Alone, StaysDefined, WireFollowsPrev, RunningIsLastStarted, ResendsUnderOwnId,
         QueueInOrder, QueueIsAwaited, NoStall, IsRunning
<1>2. TypeOK /\ IdsAndTimers /\ Alone /\ [Next]_vars => Alone'
  BY SoleStep
<1> QED
  BY <1>1, <1>2, TypeCorrect, IdsAndTimersHold, PTL DEF Spec

(* As the sole user of the database nsmd stays within defined behaviour,   *)
(* provided no answer comes between the expiry of a request and its        *)
(* deferred removal.  Answers may be as old as they like.                  *)
THEOREM SoundAlone == ASSUME OwnDatabase, QuietRemoval PROVE Spec => []NeverBroken
<1>1. Alone => NeverBroken
  BY DEF Alone, StaysDefined, NeverBroken
<1> QED
  BY <1>1, AloneHolds, PTL

(* As the sole user of the database nsmd never completes a request that it *)
(* has reported as failed, whenever answers come.                          *)
THEOREM FailedStaysFailedAlone == ASSUME OwnDatabase PROVE Spec => []FailedRequestStaysFailed
<1>1. Alone => FailedRequestStaysFailed
  BY DEF Alone, StaysDefined, FailedRequestStaysFailed
<1> QED
  BY <1>1, AloneHolds, PTL

(* As the sole user of the database nsmd never takes a late answer to an   *)
(* earlier request for an answer to the current one, provided an answer    *)
(* outlives fewer starts than there are instance IDs.                      *)
THEOREM NoCrossTalkAlone == ASSUME SoleUser PROVE Spec => []NoCrossTalk
<1>1. TypeOK /\ Alone => NoCrossTalk
  <2> SUFFICES ASSUME TypeOK, Alone, NEW m \in wire, Deliverable(m), MatchesHead(m)
               PROVE  started[Head(queue)] = m.start
    BY DEF NoCrossTalk
  <2>1. HeadIsRunning
    BY DEF Deliverable, MatchesHead, SoleUser, Alone, NoStall, TypeOK
  <2>2. started[Head(queue)] = starts /\ iid[Head(queue)] = prev
    BY <2>1, HeadIsRequest DEF HeadIsRunning, Alone, RunningIsLastStarted, TypeOK
  <2>3. m.iid = prev /\ starts - m.start < Lifetime
    BY <2>2 DEF MatchesHead, Deliverable
  <2>4. /\ m.start \in Nat /\ starts \in Nat /\ prev \in Nat
        /\ INST_ID_MAX \in Nat /\ Lifetime \in Nat /\ Lifetime <= INST_ID_MAX
    BY InstIdMaxAssumption, LifetimeAssumption DEF TypeOK, Ids, SoleUser
  <2>5. starts - m.start < INST_ID_MAX /\ m.start <= starts
    BY <2>3, <2>4 DEF Alone, WireFollowsPrev
  <2>6. prev = prev - (starts - m.start) \/ prev = prev - (starts - m.start) + INST_ID_MAX
    BY <2>3, <2>5 DEF Alone, WireFollowsPrev
  <2> QED
    BY <2>2, <2>4, <2>5, <2>6
<1>2. Spec => []Alone
  BY AloneHolds DEF SoleUser
<1> QED
  BY <1>1, <1>2, TypeCorrect, PTL

(* As the sole user of the database nsmd never rests with requests queued  *)
(* and none running, and every queued request still has its coroutine      *)
(* waiting for it, whenever answers come and however old they are.         *)
THEOREM QueueIsServedAlone == ASSUME OwnDatabase PROVE Spec => []QueueIsServed
<1>1. Alone => QueueIsServed
  BY DEF Alone, QueueIsServed
<1> QED
  BY <1>1, AloneHolds, PTL

-----------------------------------------------------------------------------
(* Resends, when no send, timer start or fcntl call fails.                 *)

(* A request is resent while it runs, and starts with all its retries.     *)
RetriesLeft ==
    /\ ResendsUnderOwnId
    /\ broken = "no" => \A n \in Requests : ~IsRunning(n) => tries[n] = NumRetries

(* A start without faults arms the expiry timer along with the other.      *)
LEMMA RunRetries ==
    ASSUME MaxFaults = 0, TypeOK, RetriesLeft, broken = "no",
           NEW q \in Seq(Requests), NEW rc, RunRegisteredRequest(q, rc), UNCHANGED tries
    PROVE  RetriesLeft'
  <1>1. ~(faults < MaxFaults)
    BY DEF TypeOK
  <1>2. CASE UNCHANGED timers
    BY <1>2 DEF RetriesLeft, ResendsUnderOwnId, IsRunning
  <1>3. ASSUME NEW id \in Ids, ~NothingToRun(q), Start(Head(q), id, rc)
        PROVE  RetriesLeft'
    <2> DEFINE n == Head(q)
    <2>1. ~IsRunning(n) /\ n \in Requests
      BY <1>3, HeadIsRequest DEF NothingToRun
    <2>2. \E T \in SUBSET {"retry"} :
             timers' = [timers EXCEPT ![n] = timers[n] \union T \union {"expiry"}]
      BY <1>1, <1>3 DEF Start
    <2>3. IsRunning(n)' /\ \A k \in Requests : k # n => timers'[k] = timers[k]
      BY <2>1, <2>2 DEF TypeOK, IsRunning
    <2>4. tries[n] = NumRetries
      BY <2>1 DEF RetriesLeft
    <2>5. ASSUME NEW k \in Requests
          PROVE  /\ "retry" \in timers'[k] => IsRunning(k)' /\ tries'[k] <= NumRetries
                 /\ ~IsRunning(k)' => tries'[k] = NumRetries
      <3>1. CASE k = n
        BY <2>3, <2>4, <3>1, NumRetriesAssumption
      <3>2. CASE k # n
        BY <2>3, <3>2 DEF RetriesLeft, ResendsUnderOwnId, IsRunning
      <3> QED
        BY <3>1, <3>2
    <2> QED
      BY <2>5 DEF RetriesLeft, ResendsUnderOwnId
  <1> QED
    BY <1>1, <1>2, <1>3 DEF RunRegisteredRequest

LEMMA FinishRetries ==
    ASSUME TypeOK, IdsAndTimers, RetriesLeft, broken = "no", queue # <<>>,
           NEW handler, FinishHead(handler), MaxFaults = 0
    PROVE  RetriesLeft'
  <1> DEFINE n == Head(queue)
  <1>1. n \in Requests
    BY HeadIsRequest DEF TypeOK
  <1>2. \A k \in Requests : timers'[k] = {}
    BY <1>1 DEF FinishHead, StopTimers, IdsAndTimers, OnlyHeadHasTimers, TypeOK
  <1>3. ASSUME broken' = "no", NEW k \in Requests
        PROVE  tries'[k] = NumRetries
    <2>1. tries' = [tries EXCEPT ![n] = NumRetries]
      BY <1>3 DEF FinishHead
    <2>2. CASE k = n
      BY <1>1, <2>1, <2>2 DEF TypeOK
    <2>3. CASE k # n
      <3>1. ~IsRunning(k)
        BY <2>3 DEF IdsAndTimers, OnlyHeadHasTimers, IsRunning
      <3>2. tries[k] = NumRetries
        BY <3>1 DEF RetriesLeft
      <3> QED
        BY <1>1, <2>1, <2>3, <3>2 DEF TypeOK
    <2> QED
      BY <2>2, <2>3
  <1> QED
    BY <1>2, <1>3 DEF RetriesLeft, ResendsUnderOwnId

LEMMA RetriesStep ==
    ASSUME MaxFaults = 0, TypeOK, IdsAndTimers, RetriesLeft, [Next]_vars
    PROVE  RetriesLeft'
  <1>1. queue \in Seq(Requests)
    BY DEF TypeOK
  <1>2. ASSUME NEW c \in Callers, RegisterRequest(c) PROVE RetriesLeft'
    <2>1. queue' \in Seq(Requests)
      BY <1>2, NextRequest DEF RegisterRequest
    <2>2. broken = "no" /\ UNCHANGED tries /\ \E rc : RunRegisteredRequest(queue', rc)
      BY <1>2 DEF RegisterRequest
    <2> QED
      BY <2>1, <2>2, RunRetries
  <1>3. ASSUME NEW n \in Requests, RetryTimerFires(n) PROVE RetriesLeft'
    <2>1. IsRunning(n) /\ tries[n] <= NumRetries /\ tries[n] \in 0 .. 255 /\ broken = "no"
      BY <1>3 DEF RetryTimerFires, RetriesLeft, ResendsUnderOwnId, TypeOK
    <2>2. /\ tries' = [tries EXCEPT ![n] = OneRetryLess(tries[n])]
          /\ \/ tries[n] # 0 /\ timers' = timers
             \/ tries[n] = 0 /\ timers' = [timers EXCEPT ![n] = timers[n] \ {"retry"}]
      BY <1>3 DEF RetryTimerFires
    <2>3. /\ \A k \in Requests : /\ IsRunning(k)' <=> IsRunning(k)
                                 /\ k # n => timers'[k] = timers[k] /\ tries'[k] = tries[k]
          /\ "retry" \in timers'[n] => tries[n] # 0 /\ tries'[n] = OneRetryLess(tries[n])
      BY <2>2 DEF TypeOK, IsRunning
    <2>4. tries[n] # 0 => OneRetryLess(tries[n]) <= NumRetries
      BY <2>1, NumRetriesAssumption DEF OneRetryLess
    <2>5. ASSUME NEW k \in Requests
          PROVE  /\ "retry" \in timers'[k] => IsRunning(k)' /\ tries'[k] <= NumRetries
                 /\ ~IsRunning(k)' => tries'[k] = NumRetries
      <3>1. CASE k = n
        BY <2>1, <2>3, <2>4, <3>1
      <3>2. CASE k # n
        BY <2>1, <2>3, <3>2 DEF RetriesLeft, ResendsUnderOwnId
      <3> QED
        BY <3>1, <3>2
    <2> QED
      BY <2>5 DEF RetriesLeft, ResendsUnderOwnId
  <1>4. ASSUME broken = "no", RunNext PROVE RetriesLeft'
    BY <1>1, <1>4, RunRetries DEF RunNext
  <1>5. ASSUME NEW m \in wire, HandleResponse(m) PROVE RetriesLeft'
    BY <1>4, <1>5, FinishRetries DEF HandleResponse, MatchesHead
  <1>6. ASSUME ReturnToHandleResponse \/ RemoveRequestEntry PROVE RetriesLeft'
    BY <1>4, <1>6 DEF ReturnToHandleResponse, RemoveRequestEntry
  <1>7. ASSUME NEW n \in Requests, ExpiryTimerFires(n) PROVE RetriesLeft'
    <2>1. queue # <<>> /\ broken = "no"
      BY <1>7 DEF ExpiryTimerFires, IdsAndTimers, OnlyHeadHasTimers, IsRunning
    <2>2. FinishHead("expiry")
      BY <1>7, <2>1 DEF ExpiryTimerFires
    <2> QED
      BY <2>1, <2>2, FinishRetries
  <1>8. ASSUME ReturnToExpiryCallback \/ OthersMove \/ UNCHANGED vars PROVE RetriesLeft'
    <2>1. UNCHANGED <<timers, tries, broken>>
      BY <1>8 DEF ReturnToExpiryCallback, OthersMove, vars, requestVars
    <2> QED
      BY <2>1 DEF RetriesLeft, ResendsUnderOwnId, IsRunning
  <1> QED
    BY <1>2, <1>3, <1>5, <1>6, <1>7, <1>8 DEF Next

(* If no send, timer start or fcntl call fails, a request is resent only   *)
(* under an instance ID it holds and never more than NumRetries times,     *)
(* whatever answers arrive and whoever else takes instance IDs.            *)
THEOREM ResendsUnderItsId == ASSUME MaxFaults = 0 PROVE Spec => []ResendsUnderOwnId
<1>1. Init => RetriesLeft
  BY DEF Init, RetriesLeft, ResendsUnderOwnId
<1>2. TypeOK /\ IdsAndTimers /\ RetriesLeft /\ [Next]_vars => RetriesLeft'
  BY RetriesStep
<1>3. RetriesLeft => ResendsUnderOwnId
  BY DEF RetriesLeft
<1> QED
  BY <1>1, <1>2, <1>3, TypeCorrect, IdsAndTimersHold, PTL DEF Spec

-----------------------------------------------------------------------------
(* The queue, whatever fails.                                              *)

(* Requests leave the queue in the order of their numbers, so that the     *)
(* last one that left is followed by the head; and the tracker's last      *)
(* message is that one until the next timeout.                             *)
QueueIsRecent ==
    /\ Len(queue) <= registered
    /\ \A i \in DOMAIN queue : queue[i] = registered - Len(queue) + i

LastLeft ==
    broken = "no" /\ firstTimeout = Nobody /\ messages # <<>> =>
        messages[Len(messages)] = registered - Len(queue)

InOrder == AwaitedIsQueued /\ QueueIsRecent /\ LastLeft /\ TimeoutLogIsRight

LEMMA HeadIsNext ==
    ASSUME TypeOK, QueueIsRecent, queue # <<>>
    PROVE  /\ Head(queue) = registered - Len(queue) + 1
           /\ Head(queue) \in Requests /\ Head(queue) = queue[1]
           /\ Tail(queue) \in Seq(Requests) /\ Len(Tail(queue)) = Len(queue) - 1
           /\ Len(queue) \in Nat /\ Len(queue) >= 1 /\ registered \in Nat
           /\ \A i \in DOMAIN Tail(queue) :
                 i \in Nat /\ i + 1 \in DOMAIN queue /\ Tail(queue)[i] = queue[i + 1]
           /\ \A i \in DOMAIN queue : i \in Nat /\ (i # 1 => i - 1 \in DOMAIN Tail(queue))
  <1>1. queue \in Seq(Requests) /\ registered \in Nat
    BY DEF TypeOK
  <1>2. /\ Len(queue) \in Nat /\ Len(queue) >= 1 /\ DOMAIN queue = 1 .. Len(queue)
    BY <1>1, EmptySeq, LenProperties
  <1>3. Head(queue) = queue[1] /\ Head(queue) \in Requests
    BY <1>1, HeadTailProperties
  <1>4. /\ Tail(queue) \in Seq(Requests) /\ Len(Tail(queue)) = Len(queue) - 1
        /\ \A i \in 1 .. Len(Tail(queue)) : Tail(queue)[i] = queue[i + 1]
    BY <1>1, HeadTailProperties
  <1>5. DOMAIN Tail(queue) = 1 .. Len(queue) - 1
    BY <1>4, LenProperties
  <1>6. queue[1] = registered - Len(queue) + 1
    BY <1>2 DEF QueueIsRecent
  <1> QED
    BY <1>1, <1>2, <1>3, <1>4, <1>5, <1>6

(* The head leaves the queue, or the handler throws.                       *)
LEMMA FinishInOrder ==
    ASSUME TypeOK, InOrder, broken = "no", queue # <<>>, NEW handler, FinishHead(handler),
           UNCHANGED registered,
           \/ HandleNoTimeout(Head(queue))
           \/ HandleTimeout(Head(queue))
    PROVE  InOrder'
  <1> DEFINE n == Head(queue)
             gone == registered - Len(queue)
  <1>1. /\ n = gone + 1 /\ n \in Requests /\ n = queue[1] /\ gone \in Nat
        /\ Len(queue) \in Nat /\ Len(queue) >= 1 /\ registered \in Nat
    BY HeadIsNext DEF InOrder, QueueIsRecent
  <1>2. n # Nobody
    BY <1>1 DEF Requests, Nobody
  <1>3. TimeoutLogIsRight' /\ (firstTimeout' = Nobody => messages' = <<n>>)
    <2>1. CASE HandleNoTimeout(n)
      BY <2>1 DEF HandleNoTimeout, TimeoutLogIsRight
    <2>2. CASE HandleTimeout(n)
      <3>1. CASE firstTimeout = Nobody
        <4>1. messages # <<>> => messages[Len(messages)] + 1 = n
          BY <1>1, <3>1 DEF InOrder, LastLeft
        <4> QED
          BY <1>2, <2>2, <3>1, <4>1 DEF HandleTimeout, TimeoutLogIsRight
      <3>2. CASE firstTimeout # Nobody
        BY <2>2, <3>2 DEF HandleTimeout, TimeoutLogIsRight, InOrder
      <3> QED
        BY <3>1, <3>2
    <2> QED
      BY <2>1, <2>2
  <1>4. CASE queue' = Tail(queue) /\ Resume(n)
    <2>1. /\ Len(queue') = Len(queue) - 1
          /\ \A i \in DOMAIN queue' :
                i \in Nat /\ i + 1 \in DOMAIN queue /\ queue'[i] = queue[i + 1]
          /\ \A i \in DOMAIN queue : i \in Nat /\ (i # 1 => i - 1 \in DOMAIN queue')
      BY <1>4, HeadIsNext DEF InOrder
    <2>2. registered' - Len(queue') = gone + 1 /\ Len(queue') <= registered'
      BY <1>1, <2>1 DEF InOrder, QueueIsRecent
    <2>3. QueueIsRecent'
      <3>1. ASSUME NEW i \in DOMAIN queue'
            PROVE  queue'[i] = gone + 1 + i
        <4>1. queue[i + 1] = gone + (i + 1)
          BY <2>1 DEF InOrder, QueueIsRecent
        <4> QED
          BY <1>1, <2>1, <4>1
      <3> QED
        BY <2>2, <3>1 DEF QueueIsRecent
    <2>4. LastLeft'
      <3>1. <<n>>[Len(<<n>>)] = n
        OBVIOUS
      <3>2. firstTimeout' = Nobody => messages'[Len(messages')] = gone + 1
        BY <1>1, <1>3, <3>1, Zenon
      <3> QED
        BY <2>2, <3>2 DEF LastLeft
    <2>5. AwaitedIsQueued'
      <3> SUFFICES ASSUME NEW c \in Callers, awaiting'[c] # Nobody
                   PROVE  \E i \in DOMAIN queue' : queue'[i] = awaiting'[c]
        BY DEF AwaitedIsQueued
      <3>1. awaiting'[c] = awaiting[c] /\ awaiting[c] # n /\ awaiting[c] # Nobody
        BY <1>4 DEF Resume
      <3>2. PICK i \in DOMAIN queue : queue[i] = awaiting[c]
        BY <3>1 DEF InOrder, AwaitedIsQueued
      <3>3. i # 1 /\ i \in Nat /\ i - 1 \in DOMAIN queue'
        BY <1>1, <2>1, <3>1, <3>2
      <3>4. queue'[i - 1] = queue[i]
        <4>1. (i - 1) + 1 = i
          BY <3>3
        <4> QED
          BY <2>1, <3>3, <4>1
      <3> QED
        BY <3>1, <3>2, <3>3, <3>4
    <2> QED
      BY <1>3, <2>3, <2>4, <2>5 DEF InOrder
  <1>5. CASE broken' = "exception" /\ UNCHANGED <<queue, awaiting>>
    BY <1>3, <1>5 DEF InOrder, AwaitedIsQueued, QueueIsRecent, LastLeft
  <1> QED
    BY <1>4, <1>5 DEF FinishHead

LEMMA InOrderStep ==
    ASSUME TypeOK, IdsAndTimers, InOrder, [Next]_vars
    PROVE  InOrder'
  <1>1. ASSUME NEW c \in Callers, RegisterRequest(c) PROVE InOrder'
    <2> DEFINE r == registered + 1
    <2>1. /\ queue' = Append(queue, r) /\ registered' = r /\ broken = "no"
          /\ awaiting' \in {awaiting, [awaiting EXCEPT ![c] = r]}
          /\ UNCHANGED <<firstTimeout, messages>>
      BY <1>1 DEF RegisterRequest, trackerVars
    <2>2. queue \in Seq(Requests) /\ r \in Requests /\ registered \in Nat /\ Len(queue) \in Nat
      BY <1>1, NextRequest, LenProperties DEF RegisterRequest, TypeOK
    <2>3. /\ queue' \in Seq(Requests) /\ Len(queue') = Len(queue) + 1
          /\ \A i \in 1 .. Len(queue) : queue'[i] = queue[i]
          /\ queue'[Len(queue) + 1] = r
      BY <2>1, <2>2, AppendProperties
    <2>4. DOMAIN queue' = 1 .. Len(queue) + 1 /\ DOMAIN queue = 1 .. Len(queue)
      BY <2>2, <2>3, LenProperties
    <2>5. registered' - Len(queue') = registered - Len(queue) /\ Len(queue') <= registered'
      BY <2>1, <2>2, <2>3 DEF InOrder, QueueIsRecent
    <2>6. QueueIsRecent'
      <3>1. ASSUME NEW i \in DOMAIN queue'
            PROVE  queue'[i] = registered - Len(queue) + i
        <4>1. CASE i \in DOMAIN queue
          BY <2>3, <2>4, <4>1 DEF InOrder, QueueIsRecent
        <4>2. CASE i \notin DOMAIN queue
          <5>1. i = Len(queue) + 1
            BY <2>2, <2>4, <4>2
          <5> QED
            BY <2>2, <2>3, <5>1
        <4> QED
          BY <4>1, <4>2
      <3> QED
        BY <2>5, <3>1 DEF QueueIsRecent
    <2>7. LastLeft' /\ TimeoutLogIsRight'
      BY <2>1, <2>5 DEF InOrder, LastLeft, TimeoutLogIsRight
    <2>8. AwaitedIsQueued'
      <3> SUFFICES ASSUME NEW d \in Callers, awaiting'[d] # Nobody
                   PROVE  \E i \in DOMAIN queue' : queue'[i] = awaiting'[d]
        BY DEF AwaitedIsQueued
      <3>1. awaiting'[d] = awaiting[d] \/ awaiting'[d] = r
        BY <2>1 DEF TypeOK
      <3>2. CASE awaiting'[d] = r
        BY <2>2, <2>3, <2>4, <3>2
      <3>3. CASE awaiting'[d] = awaiting[d]
        <4>1. PICK i \in DOMAIN queue : queue[i] = awaiting[d]
          BY <3>3 DEF InOrder, AwaitedIsQueued
        <4> QED
          BY <2>2, <2>3, <2>4, <3>3, <4>1
      <3> QED
        BY <3>1, <3>2, <3>3
    <2> QED
      BY <2>6, <2>7, <2>8 DEF InOrder
  <1>2. ASSUME UNCHANGED <<queue, registered, awaiting, firstTimeout, messages>>, broken = "no"
        PROVE  InOrder'
    BY <1>2 DEF InOrder, AwaitedIsQueued, QueueIsRecent, LastLeft, TimeoutLogIsRight
  <1>3. ASSUME NEW n \in Requests, RetryTimerFires(n) PROVE InOrder'
    BY <1>2, <1>3 DEF RetryTimerFires, trackerVars
  <1>4. ASSUME NEW m \in wire, HandleResponse(m) PROVE InOrder'
    <2>1. broken = "no" /\ UNCHANGED registered
      BY <1>4 DEF HandleResponse
    <2>2. CASE MatchesHead(m) /\ HandleNoTimeout(Head(queue)) /\ FinishHead("response")
      BY <2>1, <2>2, FinishInOrder DEF MatchesHead
    <2>3. CASE RunNext /\ UNCHANGED <<awaiting, frame, trackerVars>>
      BY <1>2, <2>1, <2>3 DEF RunNext, trackerVars
    <2> QED
      BY <1>4, <2>2, <2>3 DEF HandleResponse
  <1>5. ASSUME ReturnToHandleResponse \/ RemoveRequestEntry PROVE InOrder'
    BY <1>2, <1>5 DEF ReturnToHandleResponse, RemoveRequestEntry, RunNext, trackerVars
  <1>6. ASSUME NEW n \in Requests, ExpiryTimerFires(n) PROVE InOrder'
    <2>1. queue # <<>> /\ broken = "no" /\ UNCHANGED registered
      BY <1>6 DEF ExpiryTimerFires, IdsAndTimers, OnlyHeadHasTimers, IsRunning
    <2>2. HandleTimeout(Head(queue)) /\ FinishHead("expiry")
      BY <1>6, <2>1 DEF ExpiryTimerFires
    <2> QED
      BY <2>1, <2>2, FinishInOrder
  <1>7. ASSUME ReturnToExpiryCallback \/ OthersMove \/ UNCHANGED vars PROVE InOrder'
    <2>1. UNCHANGED <<queue, registered, awaiting, firstTimeout, messages, broken>>
      BY <1>7 DEF ReturnToExpiryCallback, OthersMove, vars, trackerVars
    <2> QED
      BY <2>1 DEF InOrder, AwaitedIsQueued, QueueIsRecent, LastLeft, TimeoutLogIsRight
  <1> QED
    BY <1>1, <1>3, <1>4, <1>5, <1>6, <1>7 DEF Next

LEMMA InOrderHolds == Spec => []InOrder
<1>1. Init => InOrder
  <2> SUFFICES ASSUME Init PROVE InOrder
    OBVIOUS
  <2>1. Len(queue) = 0 /\ registered = 0 /\ DOMAIN queue = {}
    BY EmptySeq DEF Init
  <2> QED
    BY <2>1 DEF Init, InOrder, AwaitedIsQueued, QueueIsRecent, LastLeft, TimeoutLogIsRight
<1>2. TypeOK /\ IdsAndTimers /\ InOrder /\ [Next]_vars => InOrder'
  BY InOrderStep
<1> QED
  BY <1>1, <1>2, TypeCorrect, IdsAndTimersHold, PTL DEF Spec

(* No suspended coroutine is forgotten: its request is in the queue, also  *)
(* when sends, timer starts and ID allocations fail.                       *)
THEOREM NoneForgotten == Spec => []AwaitedIsQueued
<1>1. InOrder => AwaitedIsQueued
  BY DEF InOrder
<1> QED
  BY <1>1, InOrderHolds, PTL

(* The timeout log names the request right before the first that timed     *)
(* out as the last one that did not.                                       *)
THEOREM TimeoutLog == Spec => []TimeoutLogIsRight
<1>1. InOrder => TimeoutLogIsRight
  BY DEF InOrder
<1> QED
  BY <1>1, InOrderHolds, PTL
=============================================================================
