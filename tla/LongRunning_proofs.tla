------------------------- MODULE LongRunning_proofs -------------------------
(***************************************************************************)
(* Proofs about LongRunning, for any number of coroutines, handlers,       *)
(* instance IDs, calls and faults, whatever the device does.               *)
(***************************************************************************)
EXTENDS LongRunning, SequenceTheorems, TLAPS

(* Whoever stands in line is queued, once.                                 *)
Queues ==
    /\ \A i \in DOMAIN suspended : pc[suspended[i]] = "queued"
    /\ \A i \in DOMAIN scheduled : pc[scheduled[i]] = "queued"
    /\ \A i, j \in DOMAIN suspended : suspended[i] = suspended[j] => i = j
    /\ \A i \in DOMAIN scheduled, j \in DOMAIN suspended : scheduled[i] # suspended[j]
    /\ Len(scheduled) <= 1

(* One update at a time, and none while a coroutine is to be resumed.      *)
Turns ==
    /\ \A u, v \in Updaters : Busy(u) /\ Busy(v) => u = v
    /\ \A u \in Updaters : Busy(u) => taken /\ scheduled = <<>> /\ active = handler[u]
    /\ scheduled # <<>> => taken
    /\ active # NoOne => \E u \in Updaters : Busy(u)
    /\ \A u \in Updaters : pc[u] # "idle" => handler[u] \in Handlers

(* Every update in line was asked for and not sent.                        *)
Bounded == calls + Len(scheduled) + Len(suspended) <= asked

(* The inductive invariant.                                                *)
IInv == TypeOK /\ Queues /\ Turns /\ TimerIsAwaited /\ Bounded

-----------------------------------------------------------------------------
LEMMA TailFacts ==
    ASSUME NEW S, NEW s \in Seq(S), s # <<>>
    PROVE  /\ Head(s) \in S /\ Head(s) = s[1]
           /\ 1 \in DOMAIN s
           /\ Tail(s) \in Seq(S)
           /\ Len(Tail(s)) = Len(s) - 1
           /\ Len(s) \in Nat /\ Len(s) >= 1
           /\ \A i \in DOMAIN Tail(s) :
                 i + 1 \in DOMAIN s /\ Tail(s)[i] = s[i + 1] /\ i + 1 # 1
  <1>1. Len(s) \in Nat /\ Len(s) >= 1 /\ DOMAIN s = 1 .. Len(s)
    BY EmptySeq, LenProperties
  <1>2. Head(s) \in S /\ Tail(s) \in Seq(S) /\ Len(Tail(s)) = Len(s) - 1
    BY HeadTailProperties
  <1>3. DOMAIN Tail(s) = 1 .. Len(s) - 1
    BY <1>2, LenProperties
  <1>4. \A i \in 1 .. Len(s) - 1 : Tail(s)[i] = s[i + 1]
    BY HeadTailProperties
  <1> QED
    BY <1>1, <1>2, <1>3, <1>4

LEMMA AppendFacts ==
    ASSUME NEW S, NEW s \in Seq(S), NEW e \in S
    PROVE  /\ Append(s, e) \in Seq(S)
           /\ Len(Append(s, e)) = Len(s) + 1 /\ Len(s) \in Nat
           /\ Append(s, e) # <<>>
           /\ \A i \in DOMAIN Append(s, e) :
                 \/ i \in DOMAIN s /\ Append(s, e)[i] = s[i]
                 \/ i = Len(s) + 1 /\ i \notin DOMAIN s /\ Append(s, e)[i] = e
  <1>1. Len(s) \in Nat /\ DOMAIN s = 1 .. Len(s)
    BY LenProperties
  <1>2. /\ Append(s, e) \in Seq(S) /\ Len(Append(s, e)) = Len(s) + 1
        /\ \A i \in 1 .. Len(s) : Append(s, e)[i] = s[i]
        /\ Append(s, e)[Len(s) + 1] = e
    BY AppendProperties
  <1>3. DOMAIN Append(s, e) = 1 .. Len(s) + 1
    BY <1>1, <1>2, LenProperties
  <1>4. Append(s, e) # <<>>
    BY <1>1, <1>2, EmptySeq
  <1> QED
    BY <1>1, <1>2, <1>3, <1>4

-----------------------------------------------------------------------------
(* The semaphore changes hands.                                            *)
LockType ==
    /\ pc \in [Updaters -> {"idle", "queued", "sending", "waiting"}]
    /\ taken \in BOOLEAN
    /\ suspended \in Seq(Updaters)
    /\ scheduled \in Seq(Updaters)
    /\ active \in Handlers \union {NoOne}
    /\ result \in [Updaters -> {"none", "ok", "error", "timeout"}]
    /\ faults \in 0 .. MaxFaults

(* An update that ends: its coroutine is idle and nobody is busy.          *)
LEMMA FinishStep ==
    ASSUME IInv, NEW u \in Updaters, Busy(u),
           NEW r \in {"ok", "error", "timeout"}, NEW n \in {0, 1}, faults + n <= MaxFaults,
           Finish(u, r, n), UNCHANGED <<handler, calls, asked>>
    PROVE  LockType' /\ Queues' /\ Turns' /\ Bounded' /\ \A v \in Updaters : ~Busy(v)'
  <1>1. /\ pc \in [Updaters -> {"idle", "queued", "sending", "waiting"}]
        /\ suspended \in Seq(Updaters) /\ scheduled = <<>> /\ taken
        /\ faults \in 0 .. MaxFaults /\ MaxFaults \in Nat
    BY BoundsAssumption DEF IInv, TypeOK, Turns
  <1>2. pc' = [pc EXCEPT ![u] = "idle"] /\ active' = NoOne
    BY DEF Finish
  <1>3. \A v \in Updaters : ~Busy(v)'
    BY <1>1, <1>2 DEF Busy, IInv, Turns
  <1>4. \A v \in Updaters : pc'[v] # "idle" => pc'[v] = pc[v]
    BY <1>1, <1>2
  <1>5. \A i \in DOMAIN suspended : suspended[i] # u /\ suspended[i] \in Updaters
    BY <1>1, ElementOfSeq, LenProperties DEF IInv, Queues, Busy
  <1>6. \A i \in DOMAIN suspended : pc'[suspended[i]] = "queued"
    BY <1>1, <1>2, <1>5 DEF IInv, Queues
  <1>7. result' \in [Updaters -> {"none", "ok", "error", "timeout"}]
    BY DEF Finish, IInv, TypeOK
  <1>8. calls \in Nat /\ asked \in Nat
    BY BoundsAssumption DEF IInv, TypeOK
  <1>9. \A v \in Updaters : pc'[v] # "idle" => handler'[v] \in Handlers
    BY <1>4 DEF IInv, Turns
  <1>a. /\ pc' \in [Updaters -> {"idle", "queued", "sending", "waiting"}]
        /\ active' \in Handlers \union {NoOne}
    BY <1>1, <1>2
  <1>b. faults' = faults + n => faults' \in 0 .. MaxFaults
    BY <1>1
  <1>c. faults' = faults + n + 1 /\ faults + n < MaxFaults => faults' \in 0 .. MaxFaults
    BY <1>1
  <1>10. CASE suspended = <<>> /\ UNCHANGED <<suspended, scheduled>> /\ taken' = FALSE
              /\ faults' = faults + n
    <2>1. LockType'
      BY <1>1, <1>7, <1>a, <1>b, <1>10 DEF LockType
    <2>2. Queues'
      BY <1>1, <1>10 DEF Queues, IInv
    <2>3. Turns'
      BY <1>1, <1>2, <1>3, <1>9, <1>10 DEF Turns
    <2>4. Bounded'
      BY <1>10 DEF Bounded, IInv
    <2> QED
      BY <1>3, <2>1, <2>2, <2>3, <2>4
  <1>11. CASE /\ suspended # <<>> /\ suspended' = Tail(suspended)
              /\ scheduled' = Append(scheduled, Head(suspended)) /\ faults' = faults + n
              /\ UNCHANGED taken
    <2>1. scheduled' = <<Head(suspended)>> /\ Head(suspended) \in Updaters
      BY <1>1, <1>11, TailFacts
    <2>2. DOMAIN scheduled' = {1} /\ Len(scheduled') = 1 /\ scheduled'[1] = suspended[1]
          /\ scheduled' \in Seq(Updaters)
      BY <1>1, <1>11, <2>1, TailFacts
    <2>3. LockType'
      BY <1>1, <1>7, <1>a, <1>b, <1>11, <2>2, TailFacts DEF LockType
    <2>4. Queues'
      BY <1>1, <1>6, <1>11, <2>2, TailFacts DEF Queues, IInv
    <2>5. Turns'
      BY <1>1, <1>2, <1>3, <1>9, <1>11 DEF Turns
    <2>6. Len(suspended') = Len(suspended) - 1 /\ Len(suspended) \in Nat /\ Len(scheduled) = 0
      BY <1>1, <1>11, TailFacts, EmptySeq
    <2>7. Bounded'
      BY <1>8, <2>2, <2>6 DEF Bounded, IInv
    <2> QED
      BY <1>3, <2>3, <2>4, <2>5, <2>7
  <1>12. CASE /\ suspended # <<>> /\ suspended' = Tail(suspended) /\ faults + n < MaxFaults
              /\ faults' = faults + n + 1 /\ UNCHANGED <<taken, scheduled>>
    <2>1. LockType'
      BY <1>1, <1>7, <1>a, <1>c, <1>12, TailFacts DEF LockType
    <2>2. Queues'
      BY <1>1, <1>6, <1>12, TailFacts DEF Queues, IInv
    <2>3. Turns'
      BY <1>1, <1>2, <1>3, <1>9, <1>12 DEF Turns
    <2>4. Len(suspended') = Len(suspended) - 1 /\ Len(suspended) \in Nat
          /\ Len(scheduled) = 0 /\ Len(scheduled') = 0
      BY <1>1, <1>12, TailFacts, EmptySeq
    <2>5. Bounded'
      BY <1>8, <2>4 DEF Bounded, IInv
    <2> QED
      BY <1>3, <2>1, <2>2, <2>3, <2>5
  <1> QED
    BY <1>10, <1>11, <1>12 DEF Finish, Release

(* Only the update under way may have a timer, and only while it waits.    *)
LEMMA OnlyTimer ==
    ASSUME IInv, NEW u \in Updaters, Busy(u), NEW h \in Handlers, timer[h] # "off"
    PROVE  pc[u] = "waiting" /\ handler[u] = h
  <1>1. PICK v \in Updaters : pc[v] = "waiting" /\ handler[v] = h
    BY DEF IInv, TimerIsAwaited
  <1>2. v = u
    BY <1>1 DEF IInv, Turns, Busy
  <1> QED
    BY <1>1, <1>2

(* The semaphore is free to u, or was promised to it: it begins.           *)
LEMMA BeginStep ==
    ASSUME IInv, NEW u \in Updaters, NEW h \in Handlers, Begin(u, h),
           \A v \in Updaters : ~Busy(v),
           handler' \in [Updaters -> Handlers \union {NoOne}], handler'[u] = h,
           \A v \in Updaters : v # u => handler'[v] = handler[v],
           taken' = TRUE, scheduled' = <<>>, suspended' = suspended, faults' = faults,
           \A i \in DOMAIN suspended : suspended[i] # u,
           asked' \in 0 .. MaxCalls, calls + 1 + Len(suspended) <= asked'
    PROVE  IInv'
  <1>1. /\ pc \in [Updaters -> {"idle", "queued", "sending", "waiting"}]
        /\ suspended \in Seq(Updaters) /\ Len(suspended) \in Nat
        /\ \A i \in DOMAIN suspended : suspended[i] \in Updaters
        /\ calls \in Nat /\ MaxCalls \in Nat
    BY BoundsAssumption, LenProperties, ElementOfSeq DEF IInv, TypeOK
  <1>2. pc' = [pc EXCEPT ![u] = "sending"] /\ calls' = calls + 1 /\ active' = h
    BY DEF Begin
  <1>3. calls + 1 \in 1 .. MaxCalls /\ calls + 1 \in 0 .. MaxCalls
    BY <1>1
  <1>4. \A k \in Handlers : timer[k] = "off"
    BY DEF IInv, TimerIsAwaited, Busy
  <1>5. TypeOK'
    <2>1. pc' \in [Updaters -> {"idle", "queued", "sending", "waiting"}]
      BY <1>1, <1>2
    <2>a. acceptId' \in [Handlers -> Ids \union {NoId}]
      BY DEF Begin, IInv, TypeOK
    <2>2. timer' \in [Handlers -> {"off"}]
      BY <1>4 DEF Begin, IInv, TypeOK
    <2>3. longRunning' \in [Handlers -> BOOLEAN]
      BY Zenon DEF Begin, IInv, TypeOK
    <2>4. expired' \in [Handlers -> BOOLEAN]
      BY Zenon DEF Begin, IInv, TypeOK
    <2>5. eventRc' \in [Handlers -> {"ok", "error"}]
      BY DEF Begin, IInv, TypeOK
    <2>6. mine' \in [Updaters -> 0 .. MaxCalls] /\ calls' \in 0 .. MaxCalls
      BY <1>3 DEF Begin, IInv, TypeOK
    <2>7. data' \in [Updaters -> 0 .. MaxCalls]
      BY <1>1 DEF Begin, IInv, TypeOK
    <2>8. result' \in [Updaters -> {"none", "ok", "error", "timeout"}]
      BY DEF Begin, IInv, TypeOK
    <2>9. events' \subseteq [call : 1 .. MaxCalls, command : {Command[k] : k \in Handlers}]
      <3>1. Event(calls + 1, h) \in [call : 1 .. MaxCalls, command : {Command[k] : k \in Handlers}]
        BY <1>3 DEF Event
      <3> QED
        BY <3>1 DEF Begin, IInv, TypeOK
    <2>10. /\ active' \in Handlers \union {NoOne} /\ taken' \in BOOLEAN
           /\ suspended' \in Seq(Updaters) /\ scheduled' \in Seq(Updaters)
           /\ faults' \in 0 .. MaxFaults
      BY <1>1, <1>2, EmptySeq DEF IInv, TypeOK
    <2>11. timer' \in [Handlers -> {"off", "armed", "stopping", "lost"}]
      BY <2>2
    <2> QED
      BY <2>1, <2>a, <2>3, <2>4, <2>5, <2>6, <2>7, <2>8, <2>9, <2>10, <2>11 DEF TypeOK
  <1>6. \A v \in Updaters : v # u => pc'[v] = pc[v] /\ ~Busy(v)'
    BY <1>1, <1>2 DEF Busy
  <1>7. Queues'
    <2>1. DOMAIN scheduled' = {} /\ Len(scheduled') = 0
      BY EmptySeq
    <2> QED
      BY <1>1, <1>6, <2>1 DEF Queues, IInv
  <1>8. Busy(u)'
    BY <1>1, <1>2 DEF Busy
  <1>9. Turns'
    BY <1>2, <1>6, <1>8 DEF Turns, IInv
  <1>10. TimerIsAwaited'
    BY <1>4 DEF Begin, IInv, TypeOK, TimerIsAwaited
  <1>11. Bounded'
    <2>1. Len(scheduled') = 0
      BY EmptySeq
    <2> QED
      BY <1>1, <1>2, <2>1 DEF Bounded
  <1> QED
    BY <1>5, <1>7, <1>9, <1>10, <1>11 DEF IInv

LEMMA AcquireStep ==
    ASSUME IInv, NEW u \in Updaters, NEW h \in Uses[u], Acquire(u, h)
    PROVE  IInv'
  <1>1. h \in Handlers
    BY UsesAssumption
  <1>2. /\ pc \in [Updaters -> {"idle", "queued", "sending", "waiting"}]
        /\ handler \in [Updaters -> Handlers \union {NoOne}]
        /\ suspended \in Seq(Updaters) /\ scheduled \in Seq(Updaters)
        /\ Len(suspended) \in Nat /\ Len(scheduled) \in Nat
        /\ calls \in Nat /\ asked \in Nat /\ MaxCalls \in Nat
    BY BoundsAssumption, LenProperties DEF IInv, TypeOK
  <1>3. /\ pc[u] = "idle" /\ asked < MaxCalls /\ asked' = asked + 1
        /\ handler' = [handler EXCEPT ![u] = h]
        /\ UNCHANGED <<scheduled, faults>>
    BY DEF Acquire
  <1>4. asked' \in 0 .. MaxCalls /\ handler' \in [Updaters -> Handlers \union {NoOne}]
    BY <1>1, <1>2, <1>3
  <1>5. \A i \in DOMAIN suspended : suspended[i] # u /\ suspended[i] \in Updaters
    BY <1>2, <1>3, ElementOfSeq, LenProperties DEF IInv, Queues
  <1>6. \A i \in DOMAIN scheduled : scheduled[i] # u /\ scheduled[i] \in Updaters
    BY <1>2, <1>3, ElementOfSeq, LenProperties DEF IInv, Queues
  <1>7. CASE ~taken /\ taken' = TRUE /\ Begin(u, h) /\ UNCHANGED suspended
    <2>1. scheduled = <<>> /\ \A v \in Updaters : ~Busy(v)
      BY <1>7 DEF IInv, Turns
    <2>2. calls + 1 + Len(suspended) <= asked'
      BY <1>2, <1>3, <2>1, EmptySeq DEF IInv, Bounded
    <2> QED
      BY <1>1, <1>2, <1>3, <1>4, <1>5, <1>7, <2>1, <2>2, BeginStep
  <1>8. CASE /\ taken /\ suspended' = Append(suspended, u) /\ pc' = [pc EXCEPT ![u] = "queued"]
             /\ UNCHANGED <<taken, handlerVars, mine, data, result, calls, events>>
    <2>1. TypeOK'
      <3>1. pc' \in [Updaters -> {"idle", "queued", "sending", "waiting"}]
        BY <1>2, <1>8
      <3>2. suspended' \in Seq(Updaters)
        BY <1>2, <1>8, AppendFacts
      <3> QED
        BY <1>3, <1>4, <1>8, <3>1, <3>2 DEF IInv, TypeOK, handlerVars
    <2>2. \A v \in Updaters : v # u => pc'[v] = pc[v] /\ handler'[v] = handler[v]
      BY <1>2, <1>3, <1>8
    <2>3. pc'[u] = "queued" /\ handler'[u] = h
      BY <1>2, <1>3, <1>8
    <2>4. Queues'
      <3>1. /\ Len(suspended) \in Nat
            /\ \A i \in DOMAIN suspended' :
                 \/ i \in DOMAIN suspended /\ suspended'[i] = suspended[i]
                 \/ i = Len(suspended) + 1 /\ i \notin DOMAIN suspended /\ suspended'[i] = u
        BY <1>2, <1>8, AppendFacts
      <3>2. /\ \A i \in DOMAIN suspended : pc'[suspended[i]] = "queued"
            /\ \A i \in DOMAIN scheduled : pc'[scheduled[i]] = "queued"
        BY <1>5, <1>6, <2>2 DEF IInv, Queues
      <3>3. \A i \in DOMAIN suspended' : pc'[suspended'[i]] = "queued"
        BY <2>3, <3>1, <3>2
      <3>4. \A i, j \in DOMAIN suspended' : suspended'[i] = suspended'[j] => i = j
        BY <1>5, <3>1 DEF IInv, Queues
      <3>5. \A i \in DOMAIN scheduled, j \in DOMAIN suspended' : scheduled[i] # suspended'[j]
        BY <1>6, <3>1 DEF IInv, Queues
      <3> QED
        BY <1>3, <3>2, <3>3, <3>4, <3>5 DEF IInv, Queues
    <2>5. \A v \in Updaters : Busy(v)' => Busy(v) /\ v # u
      BY <2>2, <2>3 DEF Busy
    <2>6. \A v \in Updaters : Busy(v) => Busy(v)'
      BY <1>3, <2>2 DEF Busy
    <2>7. Turns'
      <3>1. active' = active /\ taken' = taken /\ scheduled' = scheduled
        BY <1>3, <1>8 DEF handlerVars
      <3>2. \A v \in Updaters : pc'[v] # "idle" => handler'[v] \in Handlers
        BY <1>1, <2>2, <2>3 DEF IInv, Turns
      <3> QED
        BY <2>2, <2>5, <2>6, <3>1, <3>2 DEF IInv, Turns
    <2>8. TimerIsAwaited'
      <3>1. timer' = timer
        BY <1>8 DEF handlerVars
      <3> QED
        BY <1>3, <2>2, <3>1 DEF IInv, TimerIsAwaited
    <2>9. Bounded'
      <3>1. Len(suspended') = Len(suspended) + 1 /\ scheduled' = scheduled /\ calls' = calls
        BY <1>2, <1>3, <1>8, AppendFacts
      <3> QED
        BY <1>2, <1>3, <3>1 DEF IInv, Bounded
    <2> QED
      BY <2>1, <2>4, <2>7, <2>8, <2>9 DEF IInv
  <1> QED
    BY <1>7, <1>8 DEF Acquire

LEMMA ResumeStep ==
    ASSUME IInv, ResumeDeferred
    PROVE  IInv'
  <1> DEFINE u == Head(scheduled)
  <1>1. /\ scheduled # <<>> /\ scheduled' = Tail(scheduled) /\ Begin(u, handler[u])
        /\ UNCHANGED <<taken, suspended, handler, asked, faults>>
    BY DEF ResumeDeferred
  <1>2. /\ scheduled \in Seq(Updaters) /\ suspended \in Seq(Updaters)
        /\ Len(suspended) \in Nat /\ calls \in Nat /\ asked \in 0 .. MaxCalls /\ asked \in Nat
        /\ handler \in [Updaters -> Handlers \union {NoOne}]
    BY BoundsAssumption, LenProperties DEF IInv, TypeOK
  <1>3. /\ u \in Updaters /\ u = scheduled[1] /\ 1 \in DOMAIN scheduled
        /\ Tail(scheduled) \in Seq(Updaters) /\ Len(Tail(scheduled)) = Len(scheduled) - 1
        /\ Len(scheduled) \in Nat /\ Len(scheduled) >= 1
    BY <1>1, <1>2, TailFacts
  <1>8. Len(scheduled) <= 1
    BY DEF IInv, Queues
  <1>9. Len(scheduled) = 1 /\ Len(Tail(scheduled)) = 0
    BY <1>3, <1>8
  <1>4. scheduled' = <<>>
    BY <1>1, <1>3, <1>9, EmptySeq
  <1>5. pc[u] = "queued" /\ \A i \in DOMAIN suspended : suspended[i] # u
    BY <1>3 DEF IInv, Queues
  <1>6. taken /\ taken \in BOOLEAN /\ handler[u] \in Handlers /\ \A v \in Updaters : ~Busy(v)
    BY <1>1, <1>3, <1>5 DEF IInv, Turns, TypeOK
  <1>7. calls + 1 + Len(suspended) <= asked
    BY <1>2, <1>9 DEF IInv, Bounded
  <1> HIDE DEF u
  <1> QED
    BY <1>1, <1>2, <1>3, <1>4, <1>5, <1>6, <1>7, BeginStep

-----------------------------------------------------------------------------
(* What is left to show of an action that ends the update of u: the types  *)
(* that Finish does not change, and that no timer is left.                 *)
HandlerType ==
    /\ handler \in [Updaters -> Handlers \union {NoOne}]
    /\ acceptId \in [Handlers -> Ids \union {NoId}]
    /\ longRunning \in [Handlers -> BOOLEAN]
    /\ expired \in [Handlers -> BOOLEAN]
    /\ eventRc \in [Handlers -> {"ok", "error"}]
    /\ asked \in 0 .. MaxCalls
    /\ calls \in 0 .. MaxCalls
    /\ mine \in [Updaters -> 0 .. MaxCalls]
    /\ data \in [Updaters -> 0 .. MaxCalls]
    /\ events \subseteq [call : 1 .. MaxCalls, command : {Command[h] : h \in Handlers}]

LEMMA EndStep ==
    ASSUME IInv, NEW u \in Updaters, Busy(u),
           NEW r \in {"ok", "error", "timeout"}, NEW n \in {0, 1}, faults + n <= MaxFaults,
           Finish(u, r, n), UNCHANGED <<handler, calls, asked>>,
           timer' \in [Handlers -> {"off"}], HandlerType'
    PROVE  IInv'
  <1>1. LockType' /\ Queues' /\ Turns' /\ Bounded'
    BY FinishStep
  <1>2. timer' \in [Handlers -> {"off", "armed", "stopping", "lost"}]
    OBVIOUS
  <1>3. TypeOK'
    BY <1>1, <1>2 DEF TypeOK, LockType, HandlerType
  <1>4. TimerIsAwaited'
    BY DEF TimerIsAwaited
  <1> QED
    BY <1>1, <1>3, <1>4 DEF IInv

(* Before the response there is no timer.                                  *)
LEMMA NoTimerYet ==
    ASSUME IInv, NEW u \in Updaters, pc[u] = "sending"
    PROVE  timer \in [Handlers -> {"off"}]
  <1>1. timer \in [Handlers -> {"off", "armed", "stopping", "lost"}]
    BY DEF IInv, TypeOK
  <1>2. \A h \in Handlers : timer[h] = "off"
    BY OnlyTimer DEF Busy
  <1> QED
    BY <1>1, <1>2

LEMMA RespondStep ==
    ASSUME IInv, NEW u \in Updaters, Respond(u)
    PROVE  IInv'
  <1>1. /\ pc[u] = "sending" /\ Busy(u) /\ handler[u] \in Handlers
        /\ timer \in [Handlers -> {"off"}]
    <2>1. pc[u] = "sending" /\ Busy(u)
      BY DEF Respond, RequestFails, ResponseIsResult, Rejected, Accepted, Busy
    <2> QED
      BY <2>1, NoTimerYet DEF IInv, Turns
  <1>2. faults \in 0 .. MaxFaults /\ MaxFaults \in Nat /\ faults + 0 <= MaxFaults
    BY BoundsAssumption DEF IInv, TypeOK
  <1>3. HandlerType /\ mine[u] \in 0 .. MaxCalls /\ IdOf(mine[u]) \in Ids
    <2>1. HandlerType /\ mine[u] \in 0 .. MaxCalls
      BY DEF IInv, TypeOK, HandlerType
    <2>2. mine[u] \in Nat /\ INST_ID_MAX \in Nat /\ INST_ID_MAX >= 2
      BY <2>1, BoundsAssumption, InstIdMaxAssumption
    <2> QED
      BY <2>1, <2>2 DEF IdOf, Ids
  <1>4. CASE RequestFails(u)
    <2>1. HandlerType' /\ UNCHANGED <<timer, handler, calls, asked>>
      BY <1>3, <1>4 DEF RequestFails, HandlerType
    <2> QED
      BY <1>1, <1>2, <1>4, <2>1, EndStep DEF RequestFails
  <1>5. CASE ResponseIsResult(u)
    <2>1. PICK r \in {"ok", "error"} : Finish(u, r, 0)
      BY <1>5 DEF ResponseIsResult
    <2>2. UNCHANGED <<timer, acceptId, expired, eventRc, handler, mine, asked, calls, events>>
      BY <1>5 DEF ResponseIsResult
    <2>3. longRunning' \in [Handlers -> BOOLEAN]
      BY <1>3, <1>5, Zenon DEF ResponseIsResult, HandlerType
    <2>4. data' \in [Updaters -> 0 .. MaxCalls]
      BY <1>3, <1>5 DEF ResponseIsResult, HandlerType
    <2>5. HandlerType'
      BY <1>3, <2>2, <2>3, <2>4 DEF HandlerType
    <2> QED
      BY <1>1, <1>2, <2>1, <2>2, <2>5, EndStep
  <1>6. CASE Rejected(u)
    <2>1. PICK r \in {"ok", "error"} : Finish(u, r, 0)
      BY <1>6 DEF Rejected
    <2>2. UNCHANGED <<longRunning, timer, expired, eventRc, handler, mine, asked, calls, events>>
      BY <1>6 DEF Rejected
    <2>3. data' \in [Updaters -> 0 .. MaxCalls]
      BY <1>3, <1>6 DEF Rejected, HandlerType
    <2>4. acceptId' \in [Handlers -> Ids \union {NoId}]
      BY <1>3, <1>6 DEF Rejected, HandlerType
    <2>5. HandlerType'
      BY <1>3, <2>2, <2>3, <2>4 DEF HandlerType
    <2> QED
      BY <1>1, <1>2, <2>1, <2>2, <2>5, EndStep
  <1>7. CASE Accepted(u)
    <2>1. UNCHANGED <<longRunning, eventRc, handler, mine, data, asked, calls, events>>
      BY <1>7 DEF Accepted
    <2>2. acceptId' \in [Handlers -> Ids \union {NoId}]
      BY <1>3, <1>7 DEF Accepted, HandlerType
    <2>3. expired' \in [Handlers -> BOOLEAN]
      BY <1>3, <1>7, Zenon DEF Accepted, HandlerType
    <2>4. HandlerType'
      BY <1>3, <2>1, <2>2, <2>3 DEF HandlerType
    <2>5. CASE faults < MaxFaults /\ Finish(u, "error", 1) /\ UNCHANGED timer
      <3>1. faults + 1 <= MaxFaults
        BY <1>2, <2>5
      <3> QED
        BY <1>1, <2>1, <2>4, <2>5, <3>1, EndStep
    <2>6. CASE /\ timer' = [timer EXCEPT ![handler[u]] = "armed"]
               /\ pc' = [pc EXCEPT ![u] = "waiting"]
               /\ UNCHANGED <<lockVars, active, result, faults>>
      <3>1. pc \in [Updaters -> {"idle", "queued", "sending", "waiting"}]
        BY DEF IInv, TypeOK
      <3>2. \A v \in Updaters : v # u => pc'[v] = pc[v]
        BY <2>6, <3>1
      <3>3. pc'[u] = "waiting"
        BY <2>6, <3>1
      <3>4. UNCHANGED <<taken, suspended, scheduled, active, result, faults, handler, calls, asked>>
        BY <2>1, <2>6 DEF lockVars
      <3>5. TypeOK'
        <4>1. timer' \in [Handlers -> {"off", "armed", "stopping", "lost"}]
          BY <1>1, <2>6
        <4>2. pc' \in [Updaters -> {"idle", "queued", "sending", "waiting"}]
          BY <2>6, <3>1
        <4> QED
          BY <2>4, <3>4, <4>1, <4>2 DEF IInv, TypeOK, HandlerType
      <3>6. \A v \in Updaters : Busy(v)' <=> Busy(v)
        BY <1>1, <3>2, <3>3 DEF Busy
      <3>7. Turns'
        <4>1. \A v \in Updaters : pc'[v] # "idle" => pc[v] # "idle"
          BY <1>1, <3>2
        <4> QED
          BY <3>4, <3>6, <4>1 DEF IInv, Turns
      <3>8. Queues'
        <4>1. \A v \in Updaters : pc[v] = "queued" => pc'[v] = "queued"
          BY <1>1, <3>2
        <4>2. /\ \A i \in DOMAIN suspended : suspended[i] \in Updaters
              /\ \A i \in DOMAIN scheduled : scheduled[i] \in Updaters
          BY ElementOfSeq, LenProperties DEF IInv, TypeOK
        <4> QED
          BY <3>4, <4>1, <4>2 DEF IInv, Queues
      <3>9. TimerIsAwaited'
        BY <1>1, <2>6, <3>3, <3>4 DEF TimerIsAwaited
      <3>10. Bounded'
        BY <3>4 DEF IInv, Bounded
      <3> QED
        BY <3>5, <3>7, <3>8, <3>9, <3>10 DEF IInv
    <2> QED
      BY <1>7, <2>5, <2>6 DEF Accepted
  <1> QED
    BY <1>4, <1>5, <1>6, <1>7 DEF Respond

LEMMA WakeStep ==
    ASSUME IInv, NEW u \in Updaters, Wake(u)
    PROVE  IInv'
  <1>1. /\ pc[u] = "waiting" /\ timer' = [timer EXCEPT ![handler[u]] = "off"]
        /\ UNCHANGED <<acceptId, longRunning, eventRc, handler, mine, data, asked, calls, events>>
    BY DEF Wake, TimerFires, TimerStopped
  <1>2. Busy(u) /\ handler[u] \in Handlers
    BY <1>1 DEF Busy, IInv, Turns
  <1>3. faults \in 0 .. MaxFaults /\ MaxFaults \in Nat /\ faults + 0 <= MaxFaults
    BY BoundsAssumption DEF IInv, TypeOK
  <1>4. timer' \in [Handlers -> {"off"}]
    <2>1. timer \in [Handlers -> {"off", "armed", "stopping", "lost"}]
      BY DEF IInv, TypeOK
    <2>2. \A h \in Handlers : h # handler[u] => timer[h] = "off"
      BY <1>2, OnlyTimer
    <2> QED
      BY <1>1, <2>1, <2>2
  <1>5. expired' \in [Handlers -> BOOLEAN]
    <2>1. expired \in [Handlers -> BOOLEAN]
      BY DEF IInv, TypeOK
    <2>2. expired' = [expired EXCEPT ![handler[u]] = TRUE]
          \/ expired' = [expired EXCEPT ![handler[u]] = FALSE]
      BY DEF Wake, TimerFires, TimerStopped
    <2> QED
      BY <2>1, <2>2, Zenon
  <1>6. HandlerType'
    BY <1>1, <1>5 DEF IInv, TypeOK, HandlerType
  <1>7. \E r \in {"ok", "error", "timeout"} : Finish(u, r, 0)
    <2>1. CASE TimerFires(u)
      BY <2>1 DEF TimerFires
    <2>2. CASE TimerStopped(u)
      <3>1. eventRc[handler[u]] \in {"ok", "error"}
        BY <1>2 DEF IInv, TypeOK
      <3> QED
        BY <2>2, <3>1 DEF TimerStopped
    <2> QED
      BY <2>1, <2>2 DEF Wake
  <1> QED
    BY <1>1, <1>2, <1>3, <1>4, <1>6, <1>7, EndStep

LEMMA EventStep ==
    ASSUME IInv, NEW u \in Updaters, NEW e \in events, HandleEvent(u, e)
    PROVE  IInv'
  <1>1. /\ Busy(u) /\ active = handler[u] /\ active \in Handlers
        /\ UNCHANGED <<taken, suspended, scheduled, active, acceptId, longRunning, expired, pc,
                       handler, mine, result, asked, calls, events>>
    BY DEF HandleEvent, lockVars, IInv, Turns, Busy
  <1>2. e.call \in 0 .. MaxCalls
    BY BoundsAssumption DEF IInv, TypeOK
  <1>3. data' \in [Updaters -> 0 .. MaxCalls]
    BY <1>2 DEF HandleEvent, IInv, TypeOK
  <1>4. eventRc' \in [Handlers -> {"ok", "error"}]
    BY <1>1 DEF HandleEvent, IInv, TypeOK
  <1>5. timer' \in [Handlers -> {"off", "armed", "stopping", "lost"}]
    BY <1>1 DEF HandleEvent, StopTimer, IInv, TypeOK
  <1>6. faults' \in 0 .. MaxFaults
    <2>1. faults \in 0 .. MaxFaults /\ MaxFaults \in Nat
      BY BoundsAssumption DEF IInv, TypeOK
    <2> QED
      BY <2>1 DEF HandleEvent, StopTimer
  <1>7. TypeOK'
    BY <1>1, <1>3, <1>4, <1>5, <1>6 DEF IInv, TypeOK
  <1>8. Queues' /\ Turns' /\ Bounded'
    BY <1>1 DEF IInv, Queues, Turns, Bounded, Busy
  <1>9. TimerIsAwaited'
    <2>1. timer \in [Handlers -> {"off", "armed", "stopping", "lost"}]
      BY DEF IInv, TypeOK
    <2>2. \A h \in Handlers : timer'[h] # "off" => timer[h] # "off"
      BY <1>1, <2>1 DEF HandleEvent, StopTimer
    <2> QED
      BY <1>1, <2>2 DEF IInv, TimerIsAwaited
  <1> QED
    BY <1>7, <1>8, <1>9 DEF IInv

-----------------------------------------------------------------------------
LEMMA InitIInv == Init => IInv
  <1> SUFFICES ASSUME Init PROVE IInv
    OBVIOUS
  <1>1. TypeOK
    <2>1. longRunning \in [Handlers -> BOOLEAN]
      BY Zenon DEF Init
    <2>2. expired \in [Handlers -> BOOLEAN]
      BY Zenon DEF Init
    <2>3. taken \in BOOLEAN /\ suspended \in Seq(Updaters) /\ scheduled \in Seq(Updaters)
      BY EmptySeq DEF Init
    <2>4. acceptId \in [Handlers -> Ids \union {NoId}]
      BY DEF Init
    <2>5. /\ pc \in [Updaters -> {"idle", "queued", "sending", "waiting"}]
          /\ handler \in [Updaters -> Handlers \union {NoOne}]
          /\ result \in [Updaters -> {"none", "ok", "error", "timeout"}]
          /\ timer \in [Handlers -> {"off", "armed", "stopping", "lost"}]
          /\ eventRc \in [Handlers -> {"ok", "error"}]
      BY DEF Init
    <2>6. /\ mine \in [Updaters -> 0 .. MaxCalls] /\ data \in [Updaters -> 0 .. MaxCalls]
          /\ asked \in 0 .. MaxCalls /\ calls \in 0 .. MaxCalls /\ faults \in 0 .. MaxFaults
      BY BoundsAssumption DEF Init
    <2>7. /\ active \in Handlers \union {NoOne}
          /\ events \subseteq [call : 1 .. MaxCalls, command : {Command[h] : h \in Handlers}]
      BY DEF Init
    <2> QED
      BY <2>1, <2>2, <2>3, <2>4, <2>5, <2>6, <2>7 DEF TypeOK
  <1>2. Queues
    BY EmptySeq DEF Init, Queues
  <1>3. Turns /\ TimerIsAwaited
    BY DEF Init, Turns, TimerIsAwaited, Busy
  <1>4. Bounded
    BY EmptySeq DEF Init, Bounded
  <1> QED
    BY <1>1, <1>2, <1>3, <1>4 DEF IInv

LEMMA NextIInv == IInv /\ [Next]_vars => IInv'
  <1> SUFFICES ASSUME IInv, [Next]_vars PROVE IInv'
    OBVIOUS
  <1>1. CASE \E u \in Updaters : \E h \in Uses[u] : Acquire(u, h)
    BY <1>1, AcquireStep
  <1>2. CASE \E u \in Updaters : Respond(u)
    BY <1>2, RespondStep
  <1>3. CASE \E u \in Updaters : Wake(u)
    BY <1>3, WakeStep
  <1>4. CASE \E u \in Updaters : \E e \in events : HandleEvent(u, e)
    BY <1>4, EventStep
  <1>5. CASE ResumeDeferred
    BY <1>5, ResumeStep
  <1>6. CASE UNCHANGED vars
    BY <1>6 DEF IInv, TypeOK, Queues, Turns, TimerIsAwaited, Bounded, Busy, vars, lockVars,
                handlerVars, updateVars
  <1> QED
    BY <1>1, <1>2, <1>3, <1>4, <1>5, <1>6 DEF Next

LEMMA Inductive == Spec => []IInv
  BY InitIInv, NextIInv, PTL DEF Spec

(* Every variable keeps its type; in particular acceptInstanceId is an     *)
(* instance ID or 0xFF, and no bound of the model is exceeded.             *)
THEOREM TypeCorrect == Spec => []TypeOK
  <1>1. IInv => TypeOK
    BY DEF IInv
  <1> QED
    BY <1>1, Inductive, PTL

(* The registered handler is always the one of the only update under way.  *)
THEOREM HandlerOfTheBusyOne == Spec => []HandlerIsTheBusyOne
  <1>1. IInv => HandlerIsTheBusyOne
    BY DEF IInv, Turns, HandlerIsTheBusyOne
  <1> QED
    BY <1>1, Inductive, PTL

(* A timer runs only while its update awaits it.                           *)
THEOREM TimersAreAwaited == Spec => []TimerIsAwaited
  <1>1. IInv => TimerIsAwaited
    BY DEF IInv
  <1> QED
    BY <1>1, Inductive, PTL

-----------------------------------------------------------------------------
(* The line of the semaphore, when every call to the event loop succeeds.  *)

LEMMA LineMembers ==
    ASSUME TypeOK, NEW u
    PROVE  (\E i \in DOMAIN Line : Line[i] = u)
              <=> \/ \E i \in DOMAIN scheduled : scheduled[i] = u
                  \/ \E i \in DOMAIN suspended : suspended[i] = u
  <1>1. scheduled \in Seq(Updaters) /\ suspended \in Seq(Updaters)
    BY DEF TypeOK
  <1> DEFINE m == Len(scheduled)
             n == Len(suspended)
  <1>2. m \in Nat /\ n \in Nat /\ DOMAIN scheduled = 1 .. m /\ DOMAIN suspended = 1 .. n
    BY <1>1, LenProperties
  <1>3. Line \in Seq(Updaters) /\ Len(Line) = m + n
        /\ \A i \in 1 .. m + n : Line[i] = IF i <= m THEN scheduled[i] ELSE suspended[i - m]
    BY <1>1, ConcatProperties DEF Line
  <1>4. DOMAIN Line = 1 .. m + n
    BY <1>3, LenProperties
  <1> HIDE DEF m, n
  <1>5. ASSUME NEW i \in DOMAIN Line, Line[i] = u
        PROVE  \/ \E j \in DOMAIN scheduled : scheduled[j] = u
               \/ \E j \in DOMAIN suspended : suspended[j] = u
    <2>1. CASE i <= m
      BY <1>2, <1>3, <1>4, <1>5, <2>1
    <2>2. CASE ~(i <= m)
      <3>1. i - m \in 1 .. n /\ Line[i] = suspended[i - m]
        BY <1>2, <1>3, <1>4, <1>5, <2>2
      <3> QED
        BY <1>2, <1>5, <3>1
    <2> QED
      BY <2>1, <2>2
  <1>6. ASSUME NEW j \in DOMAIN scheduled, scheduled[j] = u
        PROVE  \E i \in DOMAIN Line : Line[i] = u
    <2>1. j \in 1 .. m + n /\ Line[j] = scheduled[j]
      BY <1>2, <1>3
    <2> QED
      BY <1>4, <1>6, <2>1
  <1>7. ASSUME NEW j \in DOMAIN suspended, suspended[j] = u
        PROVE  \E i \in DOMAIN Line : Line[i] = u
    <2>1. j + m \in 1 .. m + n /\ ~(j + m <= m) /\ (j + m) - m = j
      BY <1>2
    <2>2. Line[j + m] = suspended[j]
      BY <1>3, <2>1
    <2> QED
      BY <1>4, <1>7, <2>1, <2>2
  <1> QED
    BY <1>5, <1>6, <1>7

(* The strengthening of NobodyForgotten that steps preserve.               *)
Promised ==
    /\ faults = 0
    /\ taken <=> (\E u \in Updaters : Busy(u)) \/ scheduled # <<>>
    /\ \A u \in Updaters :
          pc[u] = "queued" <=> \/ \E i \in DOMAIN scheduled : scheduled[i] = u
                               \/ \E i \in DOMAIN suspended : suspended[i] = u
    /\ ~taken => suspended = <<>>

(* What an update that ends does to the semaphore.                         *)
LEMMA FinishCases ==
    ASSUME MaxFaults = 0, IInv, Promised, NEW u \in Updaters, Busy(u), NEW r,
           Finish(u, r, 0), UNCHANGED handler
    PROVE  /\ scheduled = <<>> /\ taken /\ active' = NoOne
           /\ faults' = 0
           /\ pc' = [pc EXCEPT ![u] = "idle"]
           /\ \/ /\ suspended = <<>> /\ taken' = FALSE
                 /\ UNCHANGED <<suspended, scheduled>>
              \/ /\ suspended # <<>> /\ taken' = TRUE
                 /\ suspended' = Tail(suspended)
                 /\ scheduled' = <<Head(suspended)>>
  <1>1. scheduled = <<>> /\ taken
    BY DEF IInv, Turns
  <1>2. taken \in BOOLEAN /\ suspended \in Seq(Updaters)
    BY DEF IInv, TypeOK
  <1>3. faults = 0
    BY DEF Promised
  <1>4. suspended # <<>> => Append(scheduled, Head(suspended)) = <<Head(suspended)>>
    BY <1>1, <1>2, TailFacts
  <1>5. faults + 0 = 0 /\ ~(faults + 0 < MaxFaults)
    BY <1>3
  <1>6. \/ /\ suspended = <<>> /\ taken' = FALSE /\ faults' = 0
           /\ suspended' = suspended /\ scheduled' = scheduled
        \/ /\ suspended # <<>> /\ suspended' = Tail(suspended) /\ faults' = 0 /\ taken' = taken
           /\ scheduled' = Append(scheduled, Head(suspended))
    BY <1>5, Zenon DEF Finish, Release
  <1>7. pc' = [pc EXCEPT ![u] = "idle"] /\ active' = NoOne
    BY DEF Finish
  <1> QED
    BY <1>1, <1>2, <1>4, <1>6, <1>7

LEMMA FinishPromised ==
    ASSUME MaxFaults = 0, IInv, Promised, NEW u \in Updaters, Busy(u), NEW r,
           Finish(u, r, 0), UNCHANGED handler
    PROVE  Promised'
  <1>1. /\ pc \in [Updaters -> {"idle", "queued", "sending", "waiting"}]
        /\ suspended \in Seq(Updaters)
    BY DEF IInv, TypeOK
  <1>2. /\ scheduled = <<>> /\ taken /\ faults' = 0 /\ pc' = [pc EXCEPT ![u] = "idle"]
        /\ \/ /\ suspended = <<>> /\ taken' = FALSE
              /\ UNCHANGED <<suspended, scheduled>>
           \/ /\ suspended # <<>> /\ taken' = TRUE
              /\ suspended' = Tail(suspended)
              /\ scheduled' = <<Head(suspended)>>
    BY FinishCases
  <1>3. \A v \in Updaters : pc'[v] = IF v = u THEN "idle" ELSE pc[v]
    BY <1>1, <1>2
  <1>4. \A v \in Updaters : ~Busy(v)'
    BY <1>3 DEF Busy, IInv, Turns
  <1>5. \A v \in Updaters : pc'[v] = "queued" <=> pc[v] = "queued"
    BY <1>3 DEF Busy
  <1>6. \A v \in Updaters : pc[v] = "queued" <=> \E i \in DOMAIN suspended : suspended[i] = v
    <2>1. DOMAIN scheduled = {}
      BY <1>2
    <2> QED
      BY <2>1 DEF Promised
  <1>7. CASE suspended = <<>> /\ taken' = FALSE /\ UNCHANGED <<suspended, scheduled>>
    <2>1. DOMAIN scheduled' = {}
      BY <1>2, <1>7
    <2> QED
      BY <1>2, <1>4, <1>5, <1>6, <1>7, <2>1 DEF Promised
  <1>8. CASE /\ suspended # <<>> /\ taken' = TRUE /\ suspended' = Tail(suspended)
             /\ scheduled' = <<Head(suspended)>>
    <2>1. /\ Len(suspended) \in Nat /\ Len(suspended) >= 1 /\ Head(suspended) = suspended[1]
          /\ DOMAIN suspended = 1 .. Len(suspended)
          /\ DOMAIN Tail(suspended) = 1 .. Len(suspended) - 1
          /\ \A i \in DOMAIN Tail(suspended) : Tail(suspended)[i] = suspended[i + 1]
      BY <1>1, <1>8, TailFacts, LenProperties
    <2>2. DOMAIN scheduled' = {1} /\ scheduled'[1] = suspended[1] /\ scheduled' # <<>>
      BY <1>8, <2>1
    <2>3. ASSUME NEW v, NEW i \in DOMAIN suspended, suspended[i] = v
          PROVE  v = suspended[1] \/ \E j \in DOMAIN Tail(suspended) : Tail(suspended)[j] = v
      <3>1. CASE i = 1
        BY <2>3, <3>1
      <3>2. CASE i # 1
        <4>1. i - 1 \in DOMAIN Tail(suspended) /\ (i - 1) + 1 = i
          BY <2>1, <3>2
        <4> QED
          BY <2>1, <2>3, <4>1
      <3> QED
        BY <3>1, <3>2
    <2>4. ASSUME NEW j \in DOMAIN Tail(suspended)
          PROVE  \E i \in DOMAIN suspended : suspended[i] = Tail(suspended)[j]
      BY <2>1
    <2>5. 1 \in DOMAIN suspended
      BY <2>1
    <2>6. \A v \in Updaters :
             pc'[v] = "queued" <=> \/ \E i \in DOMAIN scheduled' : scheduled'[i] = v
                                   \/ \E i \in DOMAIN suspended' : suspended'[i] = v
      BY <1>5, <1>6, <1>8, <2>2, <2>3, <2>4, <2>5
    <2> QED
      BY <1>2, <1>8, <2>2, <2>6 DEF Promised
  <1> QED
    BY <1>2, <1>7, <1>8

(* The actions, as far as the semaphore is concerned: u enters, u joins    *)
(* the line, the first of the line enters, u leaves, nothing changes.      *)
Enters(u) ==
    /\ pc[u] = "idle" /\ ~taken
    /\ pc' = [pc EXCEPT ![u] = "sending"]
    /\ taken' = TRUE /\ active' \in Handlers /\ UNCHANGED <<suspended, scheduled, faults>>

Joins(u) ==
    /\ pc[u] = "idle" /\ taken
    /\ pc' = [pc EXCEPT ![u] = "queued"]
    /\ suspended' = Append(suspended, u) /\ UNCHANGED <<taken, active, scheduled, faults>>

Resumes(u) ==
    /\ u = Head(scheduled) /\ scheduled = <<u>> /\ pc[u] = "queued"
    /\ pc' = [pc EXCEPT ![u] = "sending"]
    /\ scheduled' = <<>> /\ active' \in Handlers /\ UNCHANGED <<taken, suspended, faults>>

Ends(u) ==
    /\ Busy(u)
    /\ UNCHANGED handler
    /\ \E r \in {"ok", "error", "timeout"} : Finish(u, r, 0)

Stays ==
    /\ pc' \in [Updaters -> {"idle", "queued", "sending", "waiting"}]
    /\ \A v \in Updaters : (Busy(v)' <=> Busy(v)) /\ (pc'[v] = "queued" <=> pc[v] = "queued")
    /\ UNCHANGED <<taken, suspended, scheduled, active, faults>>

LEMMA LockSteps ==
    ASSUME MaxFaults = 0, IInv, Promised, [Next]_vars
    PROVE  (\E u \in Updaters : Enters(u) \/ Joins(u) \/ Resumes(u) \/ Ends(u)) \/ Stays
  <1>1. ASSUME NEW u \in Updaters, NEW h \in Uses[u], Acquire(u, h)
        PROVE  Enters(u) \/ Joins(u)
    <2>1. h \in Handlers
      BY UsesAssumption
    <2> QED
      BY <1>1, <2>1 DEF Acquire, Begin, handlerVars, Enters, Joins
  <1>2. ASSUME ResumeDeferred
        PROVE  \E u \in Updaters : Resumes(u)
    <2>1. scheduled \in Seq(Updaters) /\ scheduled # <<>> /\ Len(scheduled) <= 1
      BY <1>2 DEF ResumeDeferred, IInv, TypeOK, Queues
    <2>2. /\ Head(scheduled) \in Updaters /\ Head(scheduled) = scheduled[1]
          /\ 1 \in DOMAIN scheduled /\ Len(scheduled) \in Nat /\ Len(scheduled) >= 1
          /\ Tail(scheduled) \in Seq(Updaters) /\ Len(Tail(scheduled)) = Len(scheduled) - 1
      BY <2>1, TailFacts
    <2>3. Len(scheduled) = 1 /\ Len(Tail(scheduled)) = 0
      BY <2>1, <2>2
    <2>4. scheduled = <<Head(scheduled)>>
      BY <2>1, <2>2, <2>3
    <2>5. Tail(scheduled) = <<>>
      BY <2>2, <2>3, EmptySeq
    <2>6. pc[Head(scheduled)] = "queued" /\ handler[Head(scheduled)] \in Handlers
      BY <2>2 DEF IInv, Queues, Turns
    <2>7. Resumes(Head(scheduled))
      BY <1>2, <2>4, <2>5, <2>6 DEF ResumeDeferred, Begin, Resumes
    <2> QED
      BY <2>2, <2>7
  <1>3. ASSUME NEW u \in Updaters, Respond(u) \/ Wake(u)
        PROVE  Ends(u) \/ Stays
    <2>1. ~(faults < MaxFaults)
      BY DEF Promised
    <2>2. CASE RequestFails(u)
      BY <2>2 DEF RequestFails, Ends, Busy
    <2>3. CASE ResponseIsResult(u)
      BY <2>3 DEF ResponseIsResult, Ends, Busy
    <2>4. CASE Rejected(u)
      BY <2>4 DEF Rejected, Ends, Busy
    <2>5. CASE Accepted(u)
      <3>1. /\ pc[u] = "sending" /\ pc' = [pc EXCEPT ![u] = "waiting"]
            /\ UNCHANGED <<lockVars, active, faults>>
        BY <2>1, <2>5 DEF Accepted
      <3>2. pc \in [Updaters -> {"idle", "queued", "sending", "waiting"}]
        BY DEF IInv, TypeOK
      <3> QED
        BY <3>1, <3>2 DEF Stays, Busy, lockVars
    <2>6. CASE TimerFires(u)
      BY <2>6 DEF TimerFires, Ends, Busy
    <2>7. CASE TimerStopped(u)
      <3>1. handler[u] \in Handlers
        BY <2>7 DEF TimerStopped, IInv, Turns
      <3>2. eventRc[handler[u]] \in {"ok", "error"}
        BY <3>1 DEF IInv, TypeOK
      <3> QED
        BY <2>7, <3>2 DEF TimerStopped, Ends, Busy
    <2> QED
      BY <1>3, <2>2, <2>3, <2>4, <2>5, <2>6, <2>7 DEF Respond, Wake
  <1>4. ASSUME NEW u \in Updaters, NEW e \in events, HandleEvent(u, e)
        PROVE  Stays
    <2>1. ~(faults < MaxFaults)
      BY DEF Promised
    <2>2. UNCHANGED <<lockVars, active, pc, faults>>
      BY <1>4, <2>1 DEF HandleEvent, StopTimer
    <2> QED
      BY <2>2 DEF Stays, Busy, lockVars, IInv, TypeOK
  <1>5. ASSUME UNCHANGED vars
        PROVE  Stays
    BY <1>5 DEF Stays, Busy, vars, lockVars, handlerVars, updateVars, IInv, TypeOK
  <1> QED
    BY <1>1, <1>2, <1>3, <1>4, <1>5 DEF Next

LEMMA PromisedStep ==
    ASSUME MaxFaults = 0, IInv, Promised, [Next]_vars
    PROVE  Promised'
  <1>1. /\ pc \in [Updaters -> {"idle", "queued", "sending", "waiting"}]
        /\ suspended \in Seq(Updaters) /\ scheduled \in Seq(Updaters)
    BY DEF IInv, TypeOK
  <1>2. ASSUME NEW u \in Updaters, Enters(u)
        PROVE  Promised'
    <2>1. \A v \in Updaters : pc'[v] = IF v = u THEN "sending" ELSE pc[v]
      BY <1>1, <1>2 DEF Enters
    <2>2. Busy(u)' /\ \A v \in Updaters : pc'[v] = "queued" <=> pc[v] = "queued"
      BY <1>2, <2>1 DEF Enters, Busy
    <2> QED
      BY <1>2, <2>2 DEF Enters, Promised
  <1>3. ASSUME NEW u \in Updaters, Joins(u)
        PROVE  Promised'
    <2>1. \A v \in Updaters : pc'[v] = IF v = u THEN "queued" ELSE pc[v]
      BY <1>1, <1>3 DEF Joins
    <2>2. \A v \in Updaters : Busy(v)' <=> Busy(v)
      BY <1>3, <2>1 DEF Joins, Busy
    <2>3. /\ Len(suspended) \in Nat
          /\ DOMAIN suspended = 1 .. Len(suspended)
          /\ suspended' \in Seq(Updaters) /\ Len(suspended') = Len(suspended) + 1
          /\ \A i \in 1 .. Len(suspended) : suspended'[i] = suspended[i]
          /\ suspended'[Len(suspended) + 1] = u
      BY <1>1, <1>3, AppendProperties, LenProperties DEF Joins
    <2>4. DOMAIN suspended' = 1 .. Len(suspended) + 1
      BY <2>3, LenProperties
    <2>5. \A v \in Updaters :
             (\E i \in DOMAIN suspended' : suspended'[i] = v)
                <=> v = u \/ \E i \in DOMAIN suspended : suspended[i] = v
      BY <2>3, <2>4
    <2> QED
      BY <1>3, <2>1, <2>2, <2>5 DEF Joins, Promised
  <1>4. ASSUME NEW u \in Updaters, Resumes(u)
        PROVE  Promised'
    <2>1. \A v \in Updaters : pc'[v] = IF v = u THEN "sending" ELSE pc[v]
      BY <1>1, <1>4 DEF Resumes
    <2>2. Busy(u)'
      BY <2>1 DEF Busy
    <2>3. DOMAIN scheduled' = {} /\ DOMAIN scheduled = {1} /\ scheduled[1] = u
      BY <1>4 DEF Resumes
    <2>4. \A i \in DOMAIN suspended : suspended[i] # u
      BY <2>3 DEF IInv, Queues
    <2>5. \A v \in Updaters : pc'[v] = "queued" <=> \E i \in DOMAIN suspended : suspended[i] = v
      BY <2>1, <2>3, <2>4 DEF Promised
    <2>6. taken' /\ taken
      BY <1>4, <2>3 DEF Resumes, Promised
    <2> QED
      BY <1>4, <2>2, <2>3, <2>5, <2>6 DEF Resumes, Promised
  <1>5. ASSUME NEW u \in Updaters, Ends(u)
        PROVE  Promised'
    BY <1>5, FinishPromised DEF Ends
  <1>6. ASSUME Stays
        PROVE  Promised'
    BY <1>6 DEF Stays, Promised
  <1> QED
    BY <1>2, <1>3, <1>4, <1>5, <1>6, LockSteps

LEMMA InitPromised == MaxFaults = 0 /\ Init => Promised
  <1> SUFFICES ASSUME Init PROVE Promised
    OBVIOUS
  <1>1. DOMAIN scheduled = {} /\ DOMAIN suspended = {}
    BY DEF Init
  <1> QED
    BY <1>1 DEF Init, Promised, Busy

(* If the event loop takes every deferred call, nobody is forgotten: the   *)
(* semaphore is taken only while it is used or promised, and whoever waits *)
(* stands in line.                                                         *)
THEOREM NobodyIsForgotten ==
    ASSUME MaxFaults = 0
    PROVE  Spec => []NobodyForgotten
  <1>1. Init => Promised
    BY InitPromised
  <1>2. IInv /\ Promised /\ [Next]_vars => Promised'
    BY PromisedStep
  <1>3. IInv /\ Promised => NobodyForgotten
    <2> SUFFICES ASSUME IInv, Promised PROVE NobodyForgotten
      OBVIOUS
    <2>1. TypeOK
      BY DEF IInv
    <2> QED
      BY <2>1, LineMembers DEF Promised, NobodyForgotten
  <1> QED
    BY <1>1, <1>2, <1>3, Inductive, PTL DEF Spec

-----------------------------------------------------------------------------
(* The semaphore is a fair lock.                                           *)

(* The holder is the one update under way.                                 *)
LEMMA HolderFacts ==
    IInv => /\ \A u \in Updaters : Busy(u) => Holder = u
            /\ (\A u \in Updaters : ~Busy(u)) => Holder = NoOne
  <1> SUFFICES ASSUME IInv
               PROVE  /\ \A u \in Updaters : Busy(u) => Holder = u
                      /\ (\A u \in Updaters : ~Busy(u)) => Holder = NoOne
    OBVIOUS
  <1>1. ASSUME NEW u \in Updaters, Busy(u)
        PROVE  Holder = u
    <2>1. active # NoOne
      BY <1>1, NoOneAssumption DEF IInv, Turns, Busy
    <2>2. \A v \in Updaters : Busy(v) <=> v = u
      BY <1>1 DEF IInv, Turns
    <2>3. (CHOOSE v \in Updaters : Busy(v)) = u
      BY <2>2
    <2> QED
      BY <2>1, <2>3 DEF Holder
  <1>2. ASSUME \A u \in Updaters : ~Busy(u)
        PROVE  Holder = NoOne
    <2>1. active = NoOne
      BY <1>2 DEF IInv, Turns
    <2> QED
      BY <2>1 DEF Holder
  <1> QED
    BY <1>1, <1>2

LEMMA FifoStep ==
    ASSUME MaxFaults = 0, IInv, Promised, [Next]_vars, IInv',
           \A u \in Updaters : Busy(u) => Holder = u,
           (\A u \in Updaters : ~Busy(u)) => Holder = NoOne,
           \A u \in Updaters : Busy(u)' => Holder' = u,
           (\A u \in Updaters : ~Busy(u)') => Holder' = NoOne
    PROVE  [Lock!Next]_<<Holder, Line>>
  <1>1. /\ pc \in [Updaters -> {"idle", "queued", "sending", "waiting"}]
        /\ suspended \in Seq(Updaters) /\ scheduled \in Seq(Updaters)
    BY DEF IInv, TypeOK
  <1>2. ASSUME NEW u \in Updaters, Enters(u)
        PROVE  Lock!Enter(u)
    <2>1. Holder = NoOne /\ scheduled = <<>> /\ suspended = <<>>
      BY <1>2 DEF Enters, Promised
    <2>2. Line = <<>> /\ Line' = Line
      BY <1>1, <1>2, <2>1, ConcatEmptySeq DEF Enters, Line
    <2>3. Holder' = u
      BY <1>1, <1>2 DEF Enters, Busy
    <2> QED
      BY <2>1, <2>2, <2>3 DEF Lock!Enter
  <1>3. ASSUME NEW u \in Updaters, Joins(u)
        PROVE  Lock!Join(u)
    <2>1. \A v \in Updaters : Busy(v)' <=> Busy(v)
      BY <1>1, <1>3 DEF Joins, Busy
    <2>2. Holder' = Holder
      BY <2>1
    <2>3. <<u>> \in Seq(Updaters) /\ scheduled \o suspended \in Seq(Updaters)
      BY <1>1, ConcatProperties
    <2>4. Append(suspended, u) = suspended \o <<u>>
      BY <1>1, AppendIsConcat
    <2>5. Append(scheduled \o suspended, u) = (scheduled \o suspended) \o <<u>>
      BY <2>3, AppendIsConcat
    <2>6. (scheduled \o suspended) \o <<u>> = scheduled \o (suspended \o <<u>>)
      BY <1>1, <2>3, ConcatAssociative
    <2>7. Line' = Append(Line, u)
      BY <1>3, <2>4, <2>5, <2>6 DEF Joins, Line
    <2> QED
      BY <2>2, <2>7 DEF Lock!Join
  <1>4. ASSUME NEW u \in Updaters, Resumes(u)
        PROVE  Lock!Pass
    <2>1. scheduled = <<u>> /\ scheduled' = <<>> /\ suspended' = suspended
      BY <1>4 DEF Resumes
    <2>2. \A v \in Updaters : ~Busy(v)
      BY <2>1 DEF IInv, Turns
    <2>3. Holder = NoOne /\ Holder' = u
      BY <1>1, <1>4, <2>2 DEF Resumes, Busy
    <2>4. Line = <<u>> \o suspended /\ Line' = suspended
      BY <1>1, <2>1, ConcatEmptySeq DEF Line
    <2>5. Line \in Seq(Updaters) /\ Len(Line) = 1 + Len(suspended) /\ Len(suspended) \in Nat
          /\ Line[1] = u /\ \A i \in 1 .. Len(suspended) : Line[i + 1] = suspended[i]
      <3>1. <<u>> \in Seq(Updaters) /\ Len(<<u>>) = 1 /\ <<u>>[1] = u
        OBVIOUS
      <3>2. Len(suspended) \in Nat
        BY <1>1, LenProperties
      <3>3. /\ Line \in Seq(Updaters) /\ Len(Line) = 1 + Len(suspended)
            /\ \A i \in 1 .. 1 + Len(suspended) :
                  Line[i] = IF i <= 1 THEN <<u>>[i] ELSE suspended[i - 1]
        BY <1>1, <2>4, <3>1, ConcatProperties
      <3>4. \A i \in 1 .. Len(suspended) :
               i + 1 \in 1 .. 1 + Len(suspended) /\ ~(i + 1 <= 1) /\ (i + 1) - 1 = i
        BY <3>2
      <3>5. Line[1] = u
        BY <3>1, <3>2, <3>3
      <3> QED
        BY <3>2, <3>3, <3>4, <3>5
    <2>6. Line # <<>>
      BY <2>5, EmptySeq
    <2>7. /\ Head(Line) = u /\ Tail(Line) \in Seq(Updaters)
          /\ Len(Tail(Line)) = Len(suspended)
          /\ \A i \in 1 .. Len(suspended) : Tail(Line)[i] = suspended[i]
      BY <2>5, <2>6, TailFacts, HeadTailProperties
    <2>8. Tail(Line) = suspended
      BY <1>1, <2>7, SeqEqual
    <2> QED
      BY <2>3, <2>4, <2>6, <2>7, <2>8 DEF Lock!Pass
  <1>5. ASSUME NEW u \in Updaters, Ends(u)
        PROVE  Lock!Leave
    <2>1. /\ scheduled = <<>> /\ pc' = [pc EXCEPT ![u] = "idle"]
          /\ \/ suspended = <<>> /\ UNCHANGED <<suspended, scheduled>>
             \/ /\ suspended # <<>> /\ suspended' = Tail(suspended)
                /\ scheduled' = <<Head(suspended)>>
      BY <1>5, FinishCases DEF Ends
    <2>2. \A v \in Updaters : v # u => ~Busy(v)
      BY <1>5 DEF Ends, IInv, Turns
    <2>3. \A v \in Updaters : ~Busy(v)'
      BY <1>1, <2>1, <2>2 DEF Busy
    <2>4. Holder = u /\ Holder # NoOne /\ Holder' = NoOne
      BY <1>5, <2>3, NoOneAssumption DEF Ends
    <2>5. Line' = Line
      <3>1. CASE suspended = <<>> /\ UNCHANGED <<suspended, scheduled>>
        BY <3>1 DEF Line
      <3>2. CASE /\ suspended # <<>> /\ suspended' = Tail(suspended)
                 /\ scheduled' = <<Head(suspended)>>
        <4>1. Line = suspended
          BY <1>1, <2>1, ConcatEmptySeq DEF Line
        <4>2. /\ Head(suspended) \in Updaters /\ Head(suspended) = suspended[1]
              /\ Tail(suspended) \in Seq(Updaters)
              /\ Len(Tail(suspended)) = Len(suspended) - 1
              /\ Len(suspended) \in Nat /\ Len(suspended) >= 1
          BY <1>1, <3>2, TailFacts
        <4>3. \A i \in 1 .. Len(suspended) - 1 : Tail(suspended)[i] = suspended[i + 1]
          BY <1>1, <3>2, <4>2, HeadTailProperties
        <4>4. <<Head(suspended)>> \in Seq(Updaters) /\ Len(<<Head(suspended)>>) = 1
              /\ <<Head(suspended)>>[1] = suspended[1]
          BY <4>2
        <4>5. /\ Line' \in Seq(Updaters)
              /\ Len(Line') = 1 + Len(Tail(suspended))
              /\ \A i \in 1 .. 1 + Len(Tail(suspended)) :
                    Line'[i] = IF i <= 1 THEN <<Head(suspended)>>[i]
                               ELSE Tail(suspended)[i - 1]
          BY <3>2, <4>2, <4>4, ConcatProperties DEF Line
        <4>6. \A i \in 1 .. Len(suspended) : Line'[i] = suspended[i]
          <5> SUFFICES ASSUME NEW i \in 1 .. Len(suspended)
                       PROVE  Line'[i] = suspended[i]
            OBVIOUS
          <5>1. CASE i <= 1
            BY <4>2, <4>4, <4>5, <5>1
          <5>2. CASE ~(i <= 1)
            <6>1. i - 1 \in 1 .. Len(suspended) - 1 /\ (i - 1) + 1 = i
              BY <4>2, <5>2
            <6> QED
              BY <4>2, <4>3, <4>5, <5>2, <6>1
          <5> QED
            BY <5>1, <5>2
        <4>7. Len(Line') = Len(suspended)
          BY <4>2, <4>5
        <4> QED
          BY <1>1, <4>1, <4>5, <4>6, <4>7, SeqEqual
      <3> QED
        BY <2>1, <3>1, <3>2
    <2> QED
      BY <2>4, <2>5 DEF Lock!Leave
  <1>6. ASSUME Stays
        PROVE  UNCHANGED <<Holder, Line>>
    <2>1. Line' = Line
      BY <1>6 DEF Stays, Line
    <2>2. Holder' = Holder
      BY <1>6 DEF Stays
    <2> QED
      BY <2>1, <2>2
  <1> QED
    BY <1>2, <1>3, <1>4, <1>5, <1>6, LockSteps DEF Lock!Next

(* If the event loop takes every deferred call, coroutines hold the        *)
(* semaphore one at a time and in the order in which they asked.           *)
THEOREM FairLock ==
    ASSUME MaxFaults = 0
    PROVE  Spec => ImplementsFifoLock
  <1>1. Init => Promised
    BY InitPromised
  <1>2. IInv /\ Promised /\ [Next]_vars => Promised'
    BY PromisedStep
  <1>3. Init => Lock!Init
    BY ConcatEmptySeq, EmptySeq DEF Init, Lock!Init, Line, Holder
  <1>4. (IInv => /\ \A u \in Updaters : Busy(u) => Holder = u
                 /\ (\A u \in Updaters : ~Busy(u)) => Holder = NoOne)'
    BY HolderFacts, PTL
  <1>5. IInv /\ IInv' /\ Promised /\ [Next]_vars => [Lock!Next]_<<Holder, Line>>
    BY <1>4, HolderFacts, FifoStep
  <1> QED
    BY <1>1, <1>2, <1>3, <1>5, Inductive, PTL DEF Spec, ImplementsFifoLock, Lock!Spec

-----------------------------------------------------------------------------
(* What the updates handle, when the only event of its command that comes  *)
(* during a call is the one it awaits.                                     *)

(* The last update of u handles the result of its own call or none; it     *)
(* reports success for a result, a timeout for none.                       *)
ResultOf(u) ==
    /\ data[u] \in {0, mine[u]}
    /\ result[u] = "ok" => data[u] = mine[u]
    /\ result[u] = "timeout" => data[u] # mine[u]

(* The update under way: its handler expects the event of its call; it has *)
(* handled that event if its timer was stopped, and none before.           *)
UnderWay(u) ==
    /\ mine[u] # 0 /\ result[u] = "none" /\ longRunning[handler[u]]
    /\ pc[u] = "sending" => data[u] = 0
    /\ pc[u] = "waiting" =>
          /\ ~expired[handler[u]] /\ acceptId[handler[u]] = IdOf(mine[u])
          /\ timer[handler[u]] = "armed" => data[u] = 0
          /\ timer[handler[u]] = "stopping" =>
                data[u] = mine[u] /\ (handler[u] \in Raw => eventRc[handler[u]] = "ok")

Results == \A u \in Updaters : ResultOf(u) /\ (Busy(u) => UnderWay(u))

(* Only the coroutine that takes a step can disturb its own part: the      *)
(* others are not busy.                                                    *)
LEMMA OthersResults ==
    ASSUME IInv, Results, NEW u \in Updaters,
           \A v \in Updaters : v # u =>
              /\ data'[v] = data[v] /\ mine'[v] = mine[v] /\ result'[v] = result[v]
              /\ ~Busy(v)',
           ResultOf(u)', Busy(u)' => UnderWay(u)'
    PROVE  Results'
  BY DEF Results, ResultOf

(* An update begins: it has handled nothing yet.                           *)
LEMMA BeginResults ==
    ASSUME IInv, Results, NEW u \in Updaters, NEW h \in Handlers, Begin(u, h),
           \A v \in Updaters : ~Busy(v), handler'[u] = h
    PROVE  Results'
  <1>1. /\ pc \in [Updaters -> {"idle", "queued", "sending", "waiting"}]
        /\ mine \in [Updaters -> 0 .. MaxCalls] /\ data \in [Updaters -> 0 .. MaxCalls]
        /\ result \in [Updaters -> {"none", "ok", "error", "timeout"}]
        /\ longRunning \in [Handlers -> BOOLEAN] /\ calls \in Nat
    BY BoundsAssumption DEF IInv, TypeOK
  <1>2. /\ pc' = [pc EXCEPT ![u] = "sending"] /\ mine' = [mine EXCEPT ![u] = calls + 1]
        /\ data' = [data EXCEPT ![u] = 0] /\ result' = [result EXCEPT ![u] = "none"]
        /\ longRunning' = [longRunning EXCEPT ![h] = TRUE]
    BY DEF Begin
  <1>3. \A v \in Updaters : v # u =>
           /\ data'[v] = data[v] /\ mine'[v] = mine[v] /\ result'[v] = result[v]
           /\ pc'[v] = pc[v]
    BY <1>1, <1>2
  <1>4. \A v \in Updaters : v # u => ~Busy(v)'
    BY <1>3 DEF Busy
  <1>5. /\ data'[u] = 0 /\ mine'[u] = calls + 1 /\ result'[u] = "none" /\ pc'[u] = "sending"
        /\ calls + 1 # 0
    BY <1>1, <1>2
  <1>6. longRunning'[h]
    BY <1>1, <1>2, Zenon
  <1>7. ResultOf(u)'
    BY <1>5 DEF ResultOf
  <1>8. UnderWay(u)'
    BY <1>5, <1>6 DEF UnderWay
  <1> QED
    BY <1>3, <1>4, <1>7, <1>8, OthersResults

(* An update ends: what it reports fits what it has handled.               *)
LEMMA FinishResults ==
    ASSUME IInv, Results, NEW u \in Updaters, Busy(u), NEW r, NEW n, Finish(u, r, n),
           mine' = mine, \A v \in Updaters : v # u => data'[v] = data[v],
           data'[u] \in {0, mine[u]},
           r = "ok" => data'[u] = mine[u], r = "timeout" => data'[u] # mine[u]
    PROVE  Results'
  <1>1. /\ pc \in [Updaters -> {"idle", "queued", "sending", "waiting"}]
        /\ result \in [Updaters -> {"none", "ok", "error", "timeout"}]
    BY DEF IInv, TypeOK
  <1>2. pc' = [pc EXCEPT ![u] = "idle"] /\ result' = [result EXCEPT ![u] = r]
    BY DEF Finish
  <1>3. \A v \in Updaters : v # u => ~Busy(v)
    BY DEF IInv, Turns
  <1>4. \A v \in Updaters : v # u => result'[v] = result[v] /\ ~Busy(v)'
    BY <1>1, <1>2, <1>3 DEF Busy
  <1>5. ~Busy(u)' /\ result'[u] = r
    BY <1>1, <1>2 DEF Busy
  <1>6. ResultOf(u)'
    BY <1>5 DEF ResultOf
  <1> QED
    BY <1>4, <1>5, <1>6, OthersResults

LEMMA RespondResults ==
    ASSUME IInv, Results, NEW u \in Updaters, Respond(u)
    PROVE  Results'
  <1>1. /\ pc[u] = "sending" /\ Busy(u) /\ UNCHANGED mine /\ UNCHANGED handler
    BY DEF Respond, RequestFails, ResponseIsResult, Rejected, Accepted, Busy
  <1>2. UnderWay(u) /\ ResultOf(u) /\ data[u] = 0 /\ mine[u] # 0
    BY <1>1 DEF Results, UnderWay
  <1>3. /\ pc \in [Updaters -> {"idle", "queued", "sending", "waiting"}]
        /\ data \in [Updaters -> 0 .. MaxCalls] /\ handler[u] \in Handlers
        /\ timer \in [Handlers -> {"off", "armed", "stopping", "lost"}]
        /\ acceptId \in [Handlers -> Ids \union {NoId}]
        /\ expired \in [Handlers -> BOOLEAN]
    BY <1>1 DEF IInv, TypeOK, Turns
  <1>4. CASE RequestFails(u)
    <2>1. Finish(u, "error", 0) /\ data' = data
      BY <1>4 DEF RequestFails
    <2> QED
      BY <1>1, <1>2, <2>1, FinishResults
  <1>5. CASE ResponseIsResult(u)
    <2>1. PICK r \in {"ok", "error"} : Finish(u, r, 0)
      BY <1>5 DEF ResponseIsResult
    <2>2. data' = [data EXCEPT ![u] = mine[u]]
      BY <1>5 DEF ResponseIsResult
    <2>3. data'[u] = mine[u] /\ \A v \in Updaters : v # u => data'[v] = data[v]
      BY <1>3, <2>2
    <2> QED
      BY <1>1, <2>1, <2>3, FinishResults
  <1>6. CASE Rejected(u)
    <2>1. CASE Finish(u, "error", 0) /\ UNCHANGED data
      BY <1>1, <1>2, <2>1, FinishResults
    <2>2. CASE Finish(u, "ok", 0) /\ data' = [data EXCEPT ![u] = mine[u]]
      <3>1. data'[u] = mine[u] /\ \A v \in Updaters : v # u => data'[v] = data[v]
        BY <1>3, <2>2
      <3> QED
        BY <1>1, <2>2, <3>1, FinishResults
    <2> QED
      BY <1>6, <2>1, <2>2 DEF Rejected
  <1>7. CASE Accepted(u)
    <2>1. /\ acceptId' = [acceptId EXCEPT ![handler[u]] = IdOf(mine[u])]
          /\ expired' = [expired EXCEPT ![handler[u]] = FALSE]
          /\ UNCHANGED <<longRunning, data>>
      BY <1>7 DEF Accepted
    <2>2. CASE Finish(u, "error", 1)
      BY <1>1, <1>2, <2>1, <2>2, FinishResults
    <2>3. CASE /\ timer' = [timer EXCEPT ![handler[u]] = "armed"]
               /\ pc' = [pc EXCEPT ![u] = "waiting"] /\ UNCHANGED result
      <3>1. \A v \in Updaters : v # u => ~Busy(v)
        BY <1>1 DEF IInv, Turns
      <3>2. \A v \in Updaters : v # u => ~Busy(v)'
        BY <1>3, <2>3, <3>1 DEF Busy
      <3>3. ResultOf(u)'
        BY <1>1, <1>2, <2>1, <2>3 DEF ResultOf
      <3>4. /\ pc'[u] = "waiting" /\ timer'[handler[u]] = "armed"
            /\ acceptId'[handler[u]] = IdOf(mine[u])
        BY <1>3, <2>1, <2>3
      <3>5. ~expired'[handler[u]]
        BY <1>3, <2>1, Zenon
      <3>6. (IdOf(mine[u]))' = IdOf(mine[u])
        BY <1>1 DEF IdOf
      <3>7. UnderWay(u)'
        BY <1>1, <1>2, <2>1, <2>3, <3>4, <3>5, <3>6 DEF UnderWay
      <3> QED
        BY <1>1, <2>1, <2>3, <3>2, <3>3, <3>7, OthersResults
    <2> QED
      BY <1>7, <2>2, <2>3 DEF Accepted
  <1> QED
    BY <1>4, <1>5, <1>6, <1>7 DEF Respond

LEMMA WakeResults ==
    ASSUME IInv, Results, NEW u \in Updaters, Wake(u)
    PROVE  Results'
  <1>1. pc[u] = "waiting" /\ Busy(u) /\ UNCHANGED <<mine, data>>
    BY DEF Wake, TimerFires, TimerStopped, Busy
  <1>2. UnderWay(u) /\ ResultOf(u)
    BY <1>1 DEF Results
  <1>3. CASE TimerFires(u)
    <2>1. Finish(u, "timeout", 0) /\ timer[handler[u]] = "armed"
      BY <1>3 DEF TimerFires
    <2>2. data[u] = 0 /\ mine[u] # 0
      BY <1>1, <1>2, <2>1 DEF UnderWay
    <2> QED
      BY <1>1, <2>1, <2>2, FinishResults
  <1>4. CASE TimerStopped(u)
    <2>1. PICK r : Finish(u, r, 0) /\ r = (IF handler[u] \in Raw THEN eventRc[handler[u]] ELSE "ok")
      BY <1>4 DEF TimerStopped
    <2>2. data[u] = mine[u] /\ (handler[u] \in Raw => eventRc[handler[u]] = "ok")
      BY <1>1, <1>2, <1>4 DEF UnderWay, TimerStopped
    <2>3. r = "ok"
      BY <2>1, <2>2
    <2> QED
      BY <1>1, <2>1, <2>2, <2>3, FinishResults
  <1> QED
    BY <1>3, <1>4 DEF Wake

(* The event that reaches the handler is the one it waits for.             *)
LEMMA EventIsAwaited ==
    ASSUME PromptDevice, IInv, Results, NEW u \in Updaters, NEW e \in events, HandleEvent(u, e)
    PROVE  pc[u] = "waiting" /\ mine[u] = e.call /\ Valid(e, active) /\ active = handler[u]
  <1>1. Busy(u) /\ active = handler[u] /\ Deliverable(e) /\ IsForHandler(e)
    BY DEF HandleEvent
  <1>2. Awaited(e)
    BY <1>1 DEF Deliverable, IsForHandler
  <1>3. PICK v \in Updaters : pc[v] = "waiting" /\ mine[v] = e.call
    BY <1>2 DEF Awaited
  <1>4. v = u
    BY <1>1, <1>3 DEF IInv, Turns, Busy
  <1>5. UnderWay(u)
    BY <1>1 DEF Results
  <1>6. Valid(e, active)
    BY <1>1, <1>3, <1>4, <1>5 DEF UnderWay, Valid
  <1> QED
    BY <1>1, <1>3, <1>4, <1>6

LEMMA EventResults ==
    ASSUME PromptDevice, IInv, Results, NEW u \in Updaters, NEW e \in events, HandleEvent(u, e)
    PROVE  Results'
  <1>1. pc[u] = "waiting" /\ mine[u] = e.call /\ Valid(e, active) /\ active = handler[u]
    BY EventIsAwaited
  <1>2. /\ data' = [data EXCEPT ![u] = e.call] /\ eventRc' = [eventRc EXCEPT ![active] = "ok"]
        /\ StopTimer(active)
        /\ UNCHANGED <<acceptId, longRunning, expired, pc, handler, mine, result>>
    BY <1>1 DEF HandleEvent
  <1>3. /\ data \in [Updaters -> 0 .. MaxCalls] /\ handler[u] \in Handlers
        /\ timer \in [Handlers -> {"off", "armed", "stopping", "lost"}]
        /\ eventRc \in [Handlers -> {"ok", "error"}]
    BY <1>1 DEF IInv, TypeOK, Turns
  <1>4. UnderWay(u) /\ Busy(u)
    BY <1>1 DEF Results, Busy
  <1>5. \A v \in Updaters : v # u => data'[v] = data[v] /\ ~Busy(v)'
    BY <1>2, <1>3, <1>4 DEF IInv, Turns, Busy
  <1>6. data'[u] = mine[u] /\ eventRc'[handler[u]] = "ok"
    BY <1>1, <1>2, <1>3
  <1>7. timer'[handler[u]] # "armed"
    BY <1>1, <1>2, <1>3 DEF StopTimer
  <1>8. ResultOf(u)'
    BY <1>2, <1>4, <1>6 DEF ResultOf, UnderWay
  <1>9. (IdOf(mine[u]))' = IdOf(mine[u])
    BY <1>2 DEF IdOf
  <1>10. UnderWay(u)'
    BY <1>1, <1>2, <1>4, <1>6, <1>7, <1>9 DEF UnderWay
  <1> QED
    BY <1>2, <1>5, <1>8, <1>10, OthersResults

LEMMA NextResults == PromptDevice /\ IInv /\ Results /\ [Next]_vars => Results'
  <1> SUFFICES ASSUME PromptDevice, IInv, Results, [Next]_vars PROVE Results'
    OBVIOUS
  <1>1. ASSUME NEW u \in Updaters, NEW h \in Uses[u], Acquire(u, h)
        PROVE  Results'
    <2>1. h \in Handlers /\ handler \in [Updaters -> Handlers \union {NoOne}]
          /\ pc \in [Updaters -> {"idle", "queued", "sending", "waiting"}]
      BY UsesAssumption DEF IInv, TypeOK
    <2>2. handler' = [handler EXCEPT ![u] = h] /\ pc[u] = "idle"
      BY <1>1 DEF Acquire
    <2>3. CASE ~taken /\ Begin(u, h)
      <3>1. \A v \in Updaters : ~Busy(v)
        BY <2>3 DEF IInv, Turns
      <3> QED
        BY <2>1, <2>2, <2>3, <3>1, BeginResults
    <2>4. CASE /\ pc' = [pc EXCEPT ![u] = "queued"]
               /\ UNCHANGED <<handlerVars, mine, data, result>>
      <3>1. ~Busy(u) /\ ~Busy(u)'
        BY <2>1, <2>2, <2>4 DEF Busy
      <3>2. \A v \in Updaters : v # u => handler'[v] = handler[v] /\ pc'[v] = pc[v]
        BY <2>1, <2>2, <2>4
      <3>3. \A v \in Updaters : ResultOf(v)'
        BY <2>4 DEF Results, ResultOf
      <3>4. ASSUME NEW v \in Updaters, Busy(v)'
            PROVE  UnderWay(v)'
        <4>1. v # u
          BY <3>1, <3>4
        <4>2. pc'[v] = pc[v] /\ handler'[v] = handler[v] /\ (IdOf(mine[v]))' = IdOf(mine[v])
          BY <2>4, <3>2, <4>1 DEF IdOf
        <4>3. UnderWay(v)
          BY <3>4, <4>2 DEF Results, Busy
        <4> QED
          BY <2>4, <4>2, <4>3 DEF UnderWay, handlerVars
      <3> QED
        BY <3>3, <3>4 DEF Results
    <2> QED
      BY <1>1, <2>3, <2>4 DEF Acquire
  <1>2. ASSUME ResumeDeferred
        PROVE  Results'
    <2>1. scheduled # <<>> /\ scheduled \in Seq(Updaters)
      BY <1>2 DEF ResumeDeferred, IInv, TypeOK
    <2>2. PICK u \in Updaters : u = Head(scheduled) /\ u = scheduled[1] /\ 1 \in DOMAIN scheduled
      BY <2>1, TailFacts
    <2>3. Begin(u, handler[u]) /\ handler' = handler
      BY <1>2, <2>2 DEF ResumeDeferred
    <2>4. pc[u] = "queued" /\ \A v \in Updaters : ~Busy(v)
      BY <2>1, <2>2 DEF IInv, Queues, Turns
    <2>5. handler[u] \in Handlers
      BY <2>4 DEF IInv, Turns
    <2> QED
      BY <2>3, <2>4, <2>5, BeginResults
  <1>3. CASE UNCHANGED vars
    BY <1>3 DEF Results, ResultOf, UnderWay, Busy, IdOf, vars, handlerVars, updateVars
  <1> QED
    BY <1>1, <1>2, <1>3, RespondResults, WakeResults, EventResults DEF Next

LEMMA ResultsHold ==
    ASSUME PromptDevice
    PROVE  Spec => []Results
  <1>1. Init => Results
    BY DEF Init, Results, ResultOf, Busy
  <1>2. IInv /\ Results /\ [Next]_vars => Results'
    BY NextResults
  <1> QED
    BY <1>1, <1>2, Inductive, PTL DEF Spec

(* An update that ends well has handled the result of its call.            *)
THEOREM OkMeansItsResult ==
    ASSUME PromptDevice
    PROVE  Spec => []OkMeansResult
  <1>1. Results => OkMeansResult
    BY DEF Results, ResultOf, OkMeansResult
  <1> QED
    BY <1>1, ResultsHold, PTL

(* A timeout is reported only if the result was not handled: an event that *)
(* stops the timer is never reported as missing.                           *)
THEOREM TimeoutMeansNone ==
    ASSUME PromptDevice
    PROVE  Spec => []TimeoutMeansNoResult
  <1>1. Results => TimeoutMeansNoResult
    BY DEF Results, ResultOf, TimeoutMeansNoResult
  <1> QED
    BY <1>1, ResultsHold, PTL
-----------------------------------------------------------------------------
(* Raw commands, whatever the device does.  Their handlers are new, so an  *)
(* event of an earlier call is told apart by the instance ID alone, as     *)
(* long as the IDs do not wrap around while an event is in flight.         *)

(* Two calls less than INST_ID_MAX apart have different instance IDs.      *)
LEMMA IdsApart ==
    ASSUME NEW k \in Nat, NEW j \in Nat, j <= k, k - j < INST_ID_MAX, IdOf(k) = IdOf(j)
    PROVE  j = k
  <1>1. \A x, y, z \in Int : x * (y - z) = (x * y) - (x * z)
    OBVIOUS
  <1>2. /\ k = (INST_ID_MAX * (k \div INST_ID_MAX)) + (k % INST_ID_MAX)
        /\ j = (INST_ID_MAX * (j \div INST_ID_MAX)) + (j % INST_ID_MAX)
    BY InstIdMaxAssumption
  <1>3. k \div INST_ID_MAX \in Int /\ j \div INST_ID_MAX \in Int /\ k % INST_ID_MAX \in Int
    BY InstIdMaxAssumption
  <1>4. PICK a \in Int, b \in Int, m \in Int :
           k = (INST_ID_MAX * a) + m /\ j = (INST_ID_MAX * b) + m
    BY <1>2, <1>3 DEF IdOf
  <1>5. PICK c \in Int : c = a - b
    OBVIOUS
  <1>6. /\ INST_ID_MAX * a \in Int /\ INST_ID_MAX * b \in Int
        /\ INST_ID_MAX * c = (INST_ID_MAX * a) - (INST_ID_MAX * b)
    BY <1>1, <1>5, InstIdMaxAssumption
  <1>7. k - j = INST_ID_MAX * c
    BY ONLY <1>4, <1>6
  <1>8. c >= 1 => INST_ID_MAX * c >= INST_ID_MAX
    BY InstIdMaxAssumption
  <1>9. c <= -1 => INST_ID_MAX * c < 0
    BY InstIdMaxAssumption
  <1>10. c = 0
    BY <1>7, <1>8, <1>9, InstIdMaxAssumption
  <1> QED
    BY <1>7, <1>10, InstIdMaxAssumption

(* A raw command handles the result of its own call or none; it reports    *)
(* success for a result, a timeout for none.                               *)
RawResult(u) == handler[u] \in Raw /\ pc[u] # "queued" => ResultOf(u)

(* The one under way: it expects the event of the newest call, and no      *)
(* event before that is accepted; once its timer was stopped, eventRc says *)
(* whether it has handled its event.                                       *)
RawUnderWay(u) ==
    /\ mine[u] = calls /\ calls # 0
    /\ pc[u] = "waiting" => acceptId[handler[u]] = IdOf(calls)
    /\ handler[u] \in Raw =>
          /\ result[u] = "none"
          /\ pc[u] = "sending" => acceptId[handler[u]] = NoId /\ data[u] = 0
          /\ pc[u] = "waiting" =>
                /\ timer[handler[u]] = "armed" => data[u] = 0
                /\ timer[handler[u]] # "armed" /\ eventRc[handler[u]] = "ok" => data[u] = calls

RawResults ==
    /\ \A u \in Updaters : RawResult(u) /\ (Busy(u) => RawUnderWay(u))
    /\ \A e \in events : e.call <= calls

(* What raw commands report.                                               *)
RawCallsAreOwn == \A u \in Updaters : RawResult(u)

(* Only the coroutine that takes a step can disturb its own part.          *)
LEMMA OthersRaw ==
    ASSUME IInv, RawResults, NEW u \in Updaters,
           \A v \in Updaters : v # u =>
              /\ data'[v] = data[v] /\ mine'[v] = mine[v] /\ result'[v] = result[v]
              /\ handler'[v] = handler[v] /\ pc'[v] = pc[v] /\ ~Busy(v)',
           RawResult(u)', Busy(u)' => RawUnderWay(u)',
           \A e \in events' : e.call <= calls'
    PROVE  RawResults'
  <1>1. ASSUME NEW v \in Updaters, v # u
        PROVE  RawResult(v)' /\ (Busy(v)' => RawUnderWay(v)')
    BY <1>1 DEF RawResults, RawResult, ResultOf
  <1> QED
    BY <1>1 DEF RawResults

LEMMA BeginRaw ==
    ASSUME IInv, RawResults, NEW u \in Updaters, NEW h \in Handlers, Begin(u, h),
           \A v \in Updaters : ~Busy(v), handler' = [handler EXCEPT ![u] = h]
    PROVE  RawResults'
  <1>1. /\ pc \in [Updaters -> {"idle", "queued", "sending", "waiting"}]
        /\ mine \in [Updaters -> 0 .. MaxCalls] /\ data \in [Updaters -> 0 .. MaxCalls]
        /\ result \in [Updaters -> {"none", "ok", "error", "timeout"}]
        /\ handler \in [Updaters -> Handlers \union {NoOne}]
        /\ acceptId \in [Handlers -> Ids \union {NoId}] /\ calls \in Nat
        /\ events \subseteq [call : 1 .. MaxCalls, command : {Command[g] : g \in Handlers}]
    BY BoundsAssumption DEF IInv, TypeOK
  <1>2. /\ pc' = [pc EXCEPT ![u] = "sending"] /\ mine' = [mine EXCEPT ![u] = calls + 1]
        /\ data' = [data EXCEPT ![u] = 0] /\ result' = [result EXCEPT ![u] = "none"]
        /\ calls' = calls + 1 /\ events' = events \union {Event(calls + 1, h)}
        /\ h \in Raw => acceptId' = [acceptId EXCEPT ![h] = NoId]
    BY DEF Begin
  <1>3. \A v \in Updaters : v # u =>
           /\ data'[v] = data[v] /\ mine'[v] = mine[v] /\ result'[v] = result[v]
           /\ handler'[v] = handler[v] /\ pc'[v] = pc[v]
    BY <1>1, <1>2
  <1>4. \A v \in Updaters : v # u => ~Busy(v)'
    BY <1>3 DEF Busy
  <1>5. /\ data'[u] = 0 /\ mine'[u] = calls + 1 /\ result'[u] = "none" /\ pc'[u] = "sending"
        /\ handler'[u] = h
    BY <1>1, <1>2
  <1>6. RawResult(u)'
    BY <1>5 DEF RawResult, ResultOf
  <1>7. h \in Raw => acceptId'[h] = NoId
    BY <1>1, <1>2
  <1>8. calls + 1 # 0
    BY <1>1
  <1>9. RawUnderWay(u)'
    BY <1>2, <1>5, <1>7, <1>8 DEF RawUnderWay
  <1>10. \A e \in events' : e.call <= calls'
    <2>1. Event(calls + 1, h).call = calls + 1
      BY DEF Event
    <2>2. \A e \in events : e.call \in Nat /\ e.call <= calls
      BY <1>1 DEF RawResults
    <2> QED
      BY <1>1, <1>2, <2>1, <2>2
  <1> QED
    BY <1>3, <1>4, <1>6, <1>9, <1>10, OthersRaw

LEMMA FinishRaw ==
    ASSUME IInv, RawResults, NEW u \in Updaters, Busy(u), NEW r, NEW n, Finish(u, r, n),
           UNCHANGED <<mine, handler, calls, events>>,
           \A v \in Updaters : v # u => data'[v] = data[v],
           handler[u] \in Raw => /\ data'[u] \in {0, mine[u]}
                                 /\ r = "ok" => data'[u] = mine[u]
                                 /\ r = "timeout" => data'[u] # mine[u]
    PROVE  RawResults'
  <1>1. /\ pc \in [Updaters -> {"idle", "queued", "sending", "waiting"}]
        /\ result \in [Updaters -> {"none", "ok", "error", "timeout"}]
    BY DEF IInv, TypeOK
  <1>2. pc' = [pc EXCEPT ![u] = "idle"] /\ result' = [result EXCEPT ![u] = r]
    BY DEF Finish
  <1>3. \A v \in Updaters : v # u => ~Busy(v)
    BY DEF IInv, Turns
  <1>4. \A v \in Updaters : v # u => result'[v] = result[v] /\ pc'[v] = pc[v] /\ ~Busy(v)'
    BY <1>1, <1>2, <1>3 DEF Busy
  <1>5. ~Busy(u)' /\ result'[u] = r
    BY <1>1, <1>2 DEF Busy
  <1>6. RawResult(u)'
    BY <1>5 DEF RawResult, ResultOf
  <1>7. \A e \in events' : e.call <= calls'
    BY DEF RawResults
  <1> QED
    BY <1>4, <1>5, <1>6, <1>7, OthersRaw

LEMMA RespondRaw ==
    ASSUME IInv, RawResults, NEW u \in Updaters, Respond(u)
    PROVE  RawResults'
  <1>1. pc[u] = "sending" /\ Busy(u) /\ UNCHANGED <<mine, handler, calls, events>>
    BY DEF Respond, RequestFails, ResponseIsResult, Rejected, Accepted, Busy
  <1>2. /\ RawUnderWay(u) /\ mine[u] = calls /\ calls # 0
        /\ handler[u] \in Raw => data[u] = 0 /\ result[u] = "none"
    BY <1>1 DEF RawResults, RawUnderWay
  <1>3. /\ pc \in [Updaters -> {"idle", "queued", "sending", "waiting"}]
        /\ data \in [Updaters -> 0 .. MaxCalls] /\ handler[u] \in Handlers
        /\ timer \in [Handlers -> {"off", "armed", "stopping", "lost"}]
        /\ acceptId \in [Handlers -> Ids \union {NoId}]
    BY <1>1 DEF IInv, TypeOK, Turns
  <1>4. CASE RequestFails(u)
    <2>1. Finish(u, "error", 0) /\ data' = data
      BY <1>4 DEF RequestFails
    <2> QED
      BY <1>1, <1>2, <2>1, FinishRaw
  <1>5. CASE ResponseIsResult(u)
    <2>1. PICK r \in {"ok", "error"} : Finish(u, r, 0)
      BY <1>5 DEF ResponseIsResult
    <2>2. data' = [data EXCEPT ![u] = mine[u]]
      BY <1>5 DEF ResponseIsResult
    <2>3. data'[u] = mine[u] /\ \A v \in Updaters : v # u => data'[v] = data[v]
      BY <1>3, <2>2
    <2> QED
      BY <1>1, <2>1, <2>3, FinishRaw
  <1>6. CASE Rejected(u)
    <2>1. CASE handler[u] \notin Raw /\ Finish(u, "error", 0) /\ UNCHANGED data
      BY <1>1, <2>1, FinishRaw
    <2>2. CASE Finish(u, "ok", 0) /\ data' = [data EXCEPT ![u] = mine[u]]
      <3>1. data'[u] = mine[u] /\ \A v \in Updaters : v # u => data'[v] = data[v]
        BY <1>3, <2>2
      <3> QED
        BY <1>1, <2>2, <3>1, FinishRaw
    <2> QED
      BY <1>6, <2>1, <2>2 DEF Rejected
  <1>7. CASE Accepted(u)
    <2>1. acceptId' = [acceptId EXCEPT ![handler[u]] = IdOf(mine[u])] /\ UNCHANGED data
      BY <1>7 DEF Accepted
    <2>2. CASE Finish(u, "error", 1)
      BY <1>1, <1>2, <2>1, <2>2, FinishRaw
    <2>3. CASE /\ timer' = [timer EXCEPT ![handler[u]] = "armed"]
               /\ pc' = [pc EXCEPT ![u] = "waiting"] /\ UNCHANGED result
      <3>1. \A v \in Updaters : v # u => ~Busy(v)
        BY <1>1 DEF IInv, Turns
      <3>2. \A v \in Updaters : v # u => pc'[v] = pc[v] /\ ~Busy(v)'
        BY <1>3, <2>3, <3>1 DEF Busy
      <3>3. RawResult(u)'
        BY <1>1, <1>2, <2>1, <2>3 DEF RawResult, ResultOf
      <3>4. /\ pc'[u] = "waiting" /\ timer'[handler[u]] = "armed"
            /\ acceptId'[handler[u]] = IdOf(calls)
        BY <1>2, <1>3, <2>1, <2>3
      <3>5. (IdOf(calls))' = IdOf(calls)
        BY <1>1 DEF IdOf
      <3>6. RawUnderWay(u)'
        BY <1>1, <1>2, <2>1, <2>3, <3>4, <3>5 DEF RawUnderWay
      <3>7. \A e \in events' : e.call <= calls'
        BY <1>1 DEF RawResults
      <3> QED
        BY <1>1, <2>1, <2>3, <3>2, <3>3, <3>6, <3>7, OthersRaw
    <2> QED
      BY <1>7, <2>2, <2>3 DEF Accepted
  <1> QED
    BY <1>4, <1>5, <1>6, <1>7 DEF Respond

LEMMA WakeRaw ==
    ASSUME IInv, RawResults, NEW u \in Updaters, Wake(u)
    PROVE  RawResults'
  <1>1. /\ pc[u] = "waiting" /\ Busy(u)
        /\ UNCHANGED <<mine, data, handler, calls, events>>
    BY DEF Wake, TimerFires, TimerStopped, Busy
  <1>2. RawUnderWay(u) /\ RawResult(u)
    BY <1>1 DEF RawResults
  <1>3. CASE TimerFires(u)
    <2>1. Finish(u, "timeout", 0) /\ timer[handler[u]] = "armed"
      BY <1>3 DEF TimerFires
    <2>2. handler[u] \in Raw => data[u] = 0 /\ mine[u] # 0
      BY <1>1, <1>2, <2>1 DEF RawUnderWay
    <2> QED
      BY <1>1, <2>1, <2>2, FinishRaw
  <1>4. CASE TimerStopped(u)
    <2>1. PICK r : Finish(u, r, 0) /\ r = (IF handler[u] \in Raw THEN eventRc[handler[u]] ELSE "ok")
      BY <1>4 DEF TimerStopped
    <2>2. handler[u] \in Raw =>
             /\ eventRc[handler[u]] = "ok" => data[u] = mine[u]
             /\ data[u] \in {0, mine[u]}
      BY <1>1, <1>2, <1>4 DEF RawUnderWay, RawResult, ResultOf, TimerStopped
    <2>3. handler[u] \in Raw => r = eventRc[handler[u]] /\ r # "timeout"
      <3>1. eventRc[handler[u]] \in {"ok", "error"}
        BY <1>1 DEF IInv, TypeOK, Turns
      <3> QED
        BY <2>1, <3>1
    <2> QED
      BY <1>1, <2>1, <2>2, <2>3, FinishRaw
  <1> QED
    BY <1>3, <1>4 DEF Wake

(* An event that validateEvent lets through is that of the newest call.    *)
LEMMA ValidIsNewest ==
    ASSUME Lifetime <= INST_ID_MAX, IInv, RawResults, NEW e \in events,
           Deliverable(e), IdOf(e.call) = IdOf(calls)
    PROVE  e.call = calls
  <1>1. e.call \in Nat /\ calls \in Nat
    BY BoundsAssumption DEF IInv, TypeOK
  <1>2. e.call <= calls
    BY DEF RawResults
  <1>3. calls - e.call < Lifetime
    BY DEF Deliverable
  <1>4. calls - e.call < INST_ID_MAX
    BY <1>1, <1>3, InstIdMaxAssumption, SettingAssumption
  <1> QED
    BY <1>1, <1>2, <1>4, IdsApart

LEMMA EventRaw ==
    ASSUME Lifetime <= INST_ID_MAX, INST_ID_MAX <= NoId,
           IInv, RawResults, NEW u \in Updaters, NEW e \in events, HandleEvent(u, e)
    PROVE  RawResults'
  <1>1. /\ Busy(u) /\ active = handler[u] /\ Deliverable(e) /\ StopTimer(active)
        /\ UNCHANGED <<acceptId, pc, handler, mine, result, calls, events>>
    BY DEF HandleEvent
  <1>2. /\ data \in [Updaters -> 0 .. MaxCalls] /\ handler[u] \in Handlers
        /\ timer \in [Handlers -> {"off", "armed", "stopping", "lost"}]
        /\ eventRc \in [Handlers -> {"ok", "error"}]
        /\ e.call \in Nat /\ calls \in Nat
    BY <1>1, BoundsAssumption DEF IInv, TypeOK, Turns, Busy
  <1>3. RawUnderWay(u) /\ RawResult(u)
    BY <1>1 DEF RawResults
  <1>4. \A v \in Updaters : v # u => ~Busy(v)' /\ pc'[v] = pc[v]
    BY <1>1 DEF IInv, Turns, Busy
  <1>5. timer'[handler[u]] # "armed"
    BY <1>1, <1>2 DEF StopTimer
  <1>6. (IdOf(calls))' = IdOf(calls)
    BY <1>1 DEF IdOf
  <1>7. \A f \in events' : f.call <= calls'
    BY <1>1 DEF RawResults
  <1>8. CASE /\ Valid(e, active) /\ data' = [data EXCEPT ![u] = e.call]
             /\ eventRc' = [eventRc EXCEPT ![active] = "ok"]
    <2>1. data'[u] = e.call /\ \A v \in Updaters : v # u => data'[v] = data[v]
      BY <1>2, <1>8
    <2>2. ASSUME handler[u] \in Raw
          PROVE  pc[u] = "waiting" /\ e.call = calls /\ mine[u] = calls /\ result[u] = "none"
      <3>1. acceptId[handler[u]] = IdOf(e.call)
        BY <1>1, <1>8 DEF Valid
      <3>2. IdOf(e.call) # NoId
        BY <1>2, InstIdMaxAssumption DEF IdOf, NoId
      <3>3. pc[u] = "waiting" /\ IdOf(e.call) = IdOf(calls)
        BY <1>1, <1>3, <2>2, <3>1, <3>2 DEF RawUnderWay, Busy
      <3>4. e.call = calls
        BY <1>1, <3>3, ValidIsNewest
      <3> QED
        BY <1>3, <2>2, <3>3, <3>4 DEF RawUnderWay
    <2>3. RawResult(u)'
      BY <1>1, <2>1, <2>2 DEF RawResult, ResultOf
    <2>4. RawUnderWay(u)'
      <3>1. mine'[u] = calls' /\ calls' # 0
        BY <1>1, <1>3 DEF RawUnderWay
      <3>2. CASE handler[u] \notin Raw
        BY <1>1, <1>3, <1>6, <3>1, <3>2 DEF RawUnderWay
      <3>3. CASE handler[u] \in Raw
        BY <1>1, <1>3, <1>5, <1>6, <2>1, <2>2, <3>1, <3>3 DEF RawUnderWay
      <3> QED
        BY <3>2, <3>3
    <2> QED
      BY <1>1, <1>4, <1>7, <2>1, <2>3, <2>4, OthersRaw
  <1>9. CASE ~Valid(e, active) /\ eventRc' = [eventRc EXCEPT ![active] = "error"] /\ UNCHANGED data
    <2>1. eventRc'[handler[u]] = "error"
      BY <1>1, <1>2, <1>9
    <2>2. RawResult(u)'
      BY <1>1, <1>3, <1>9 DEF RawResult, ResultOf
    <2>3. RawUnderWay(u)'
      BY <1>1, <1>3, <1>5, <1>6, <1>9, <2>1 DEF RawUnderWay
    <2> QED
      BY <1>1, <1>4, <1>7, <1>9, <2>2, <2>3, OthersRaw
  <1> QED
    BY <1>8, <1>9 DEF HandleEvent

LEMMA NextRaw ==
    ASSUME Lifetime <= INST_ID_MAX, INST_ID_MAX <= NoId
    PROVE  IInv /\ RawResults /\ [Next]_vars => RawResults'
  <1> SUFFICES ASSUME IInv, RawResults, [Next]_vars PROVE RawResults'
    OBVIOUS
  <1>1. ASSUME NEW u \in Updaters, NEW h \in Uses[u], Acquire(u, h)
        PROVE  RawResults'
    <2>1. h \in Handlers /\ handler \in [Updaters -> Handlers \union {NoOne}]
          /\ pc \in [Updaters -> {"idle", "queued", "sending", "waiting"}]
      BY UsesAssumption DEF IInv, TypeOK
    <2>2. handler' = [handler EXCEPT ![u] = h] /\ pc[u] = "idle"
      BY <1>1 DEF Acquire
    <2>3. CASE ~taken /\ Begin(u, h)
      <3>1. \A v \in Updaters : ~Busy(v)
        BY <2>3 DEF IInv, Turns
      <3> QED
        BY <2>1, <2>2, <2>3, <3>1, BeginRaw
    <2>4. CASE /\ pc' = [pc EXCEPT ![u] = "queued"]
               /\ UNCHANGED <<handlerVars, mine, data, result, calls, events>>
      <3>1. pc'[u] = "queued"
        BY <2>1, <2>4
      <3>2. ASSUME NEW v \in Updaters, v # u
            PROVE  RawResult(v)' /\ (Busy(v)' => RawUnderWay(v)')
        <4>1. handler'[v] = handler[v] /\ pc'[v] = pc[v] /\ (IdOf(calls))' = IdOf(calls)
          BY <2>1, <2>2, <2>4, <3>2 DEF IdOf
        <4>2. RawResult(v) /\ (Busy(v) => RawUnderWay(v))
          BY DEF RawResults
        <4>3. RawResult(v)'
          BY <2>4, <4>1, <4>2 DEF RawResult, ResultOf
        <4>4. Busy(v)' => RawUnderWay(v)'
          BY <2>4, <4>1, <4>2 DEF Busy, RawUnderWay, handlerVars
        <4> QED
          BY <4>3, <4>4
      <3>3. RawResult(u)' /\ ~Busy(u)'
        BY <3>1 DEF RawResult, Busy
      <3>4. \A e \in events' : e.call <= calls'
        BY <2>4 DEF RawResults
      <3> QED
        BY <3>2, <3>3, <3>4 DEF RawResults
    <2> QED
      BY <1>1, <2>3, <2>4 DEF Acquire
  <1>2. ASSUME ResumeDeferred
        PROVE  RawResults'
    <2>1. scheduled # <<>> /\ scheduled \in Seq(Updaters)
      BY <1>2 DEF ResumeDeferred, IInv, TypeOK
    <2>2. PICK u \in Updaters : u = Head(scheduled) /\ u = scheduled[1] /\ 1 \in DOMAIN scheduled
      BY <2>1, TailFacts
    <2>3. Begin(u, handler[u]) /\ handler' = handler
      BY <1>2, <2>2 DEF ResumeDeferred
    <2>4. pc[u] = "queued" /\ \A v \in Updaters : ~Busy(v)
      BY <2>1, <2>2 DEF IInv, Queues, Turns
    <2>5. handler[u] \in Handlers /\ handler = [handler EXCEPT ![u] = handler[u]]
      BY <2>4 DEF IInv, Turns, TypeOK
    <2> QED
      BY <2>3, <2>4, <2>5, BeginRaw
  <1>3. CASE UNCHANGED vars
    BY <1>3 DEF RawResults, RawResult, RawUnderWay, ResultOf, Busy, IdOf,
                vars, handlerVars, updateVars
  <1> QED
    BY <1>1, <1>2, <1>3, RespondRaw, WakeRaw, EventRaw DEF Next

LEMMA RawResultsHold ==
    ASSUME Lifetime <= INST_ID_MAX, INST_ID_MAX <= NoId
    PROVE  Spec => []RawResults
  <1>1. Init => RawResults
    BY DEF Init, RawResults, RawResult, ResultOf, Busy
  <1>2. IInv /\ RawResults /\ [Next]_vars => RawResults'
    BY NextRaw
  <1> QED
    BY <1>1, <1>2, Inductive, PTL DEF Spec

(* Late, early or repeated events do not lead a raw command to take the    *)
(* result of another call for its own, to succeed without its result or to *)
(* report it missing, if no event outlives all instance IDs.  An object    *)
(* that keeps its handler has no such protection (OkMeansResult in the     *)
(* run long_running_late).                                                 *)
THEOREM RawCommandsAreSafe ==
    ASSUME Lifetime <= INST_ID_MAX, INST_ID_MAX <= NoId
    PROVE  Spec => []RawCallsAreOwn
  <1>1. RawResults => RawCallsAreOwn
    BY DEF RawResults, RawCallsAreOwn
  <1> QED
    BY <1>1, RawResultsHold, PTL

-----------------------------------------------------------------------------
(* Only an event changes what a waiting update has handled, and only one   *)
(* with the instance ID its call was accepted with, which is that of the   *)
(* newest call.                                                            *)
LEMMA AwaitedStep ==
    ASSUME Lifetime <= INST_ID_MAX, IInv, RawResults, [Next]_vars,
           NEW u \in Updaters, pc[u] = "waiting", data'[u] # data[u]
    PROVE  data'[u] = mine[u]
  <1>1. /\ data \in [Updaters -> 0 .. MaxCalls]
        /\ \A v \in Updaters : Busy(v) => v = u
        /\ Busy(u) /\ taken /\ scheduled = <<>>
    BY DEF IInv, TypeOK, Turns, Busy
  <1>2. ASSUME NEW v \in Updaters, NEW h \in Uses[v], Acquire(v, h)
        PROVE  FALSE
    BY <1>1, <1>2 DEF Acquire
  <1>3. ASSUME NEW v \in Updaters, Respond(v)
        PROVE  FALSE
    <2>1. pc[v] = "sending"
      BY <1>3 DEF Respond, RequestFails, ResponseIsResult, Rejected, Accepted
    <2> QED
      BY <1>1, <2>1 DEF Busy
  <1>4. ASSUME NEW v \in Updaters, Wake(v)
        PROVE  FALSE
    BY <1>4 DEF Wake, TimerFires, TimerStopped
  <1>5. ASSUME NEW v \in Updaters, NEW e \in events, HandleEvent(v, e)
        PROVE  data'[u] = mine[u]
    <2>1. v = u /\ active = handler[u] /\ Deliverable(e)
      BY <1>1, <1>5 DEF HandleEvent
    <2>2. Valid(e, active) /\ data' = [data EXCEPT ![u] = e.call]
      BY <1>5, <2>1 DEF HandleEvent
    <2>3. acceptId[handler[u]] = IdOf(calls) /\ mine[u] = calls
      BY <1>1 DEF RawResults, RawUnderWay
    <2>4. e.call = calls
      BY <2>1, <2>2, <2>3, ValidIsNewest DEF Valid
    <2> QED
      BY <1>1, <2>2, <2>3, <2>4
  <1>6. ~ResumeDeferred
    BY <1>1 DEF ResumeDeferred
  <1>7. ~UNCHANGED vars
    BY DEF vars, updateVars
  <1> QED
    BY <1>2, <1>3, <1>4, <1>5, <1>6, <1>7 DEF Next

(* A result that an update takes while it waits is that of its own call,   *)
(* whatever the device sends late, early or again, and however the         *)
(* instance IDs wrap around, if no event outlives all of them.             *)
THEOREM AwaitedResults ==
    ASSUME Lifetime <= INST_ID_MAX, INST_ID_MAX <= NoId
    PROVE  Spec => AwaitedResultIsOwn
  <1> DEFINE Own == \A u \in Updaters :
                       pc[u] = "waiting" /\ data'[u] # data[u] => data'[u] = mine[u]
  <1>1. IInv /\ RawResults /\ [Next]_vars => [Own]_vars
    BY AwaitedStep
  <1> QED
    BY <1>1, Inductive, RawResultsHold, PTL DEF Spec, AwaitedResultIsOwn
=============================================================================
