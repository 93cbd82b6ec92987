------------------------ MODULE AsyncOperations_proofs ------------------------
(***************************************************************************)
(* Proofs about AsyncOperations, for any set of operations and any number  *)
(* of result objects.                                                      *)
(***************************************************************************)
EXTENDS AsyncOperations, TLAPS

USE NobodyAssumption, SetsAssumption, OthersAssumption, CountAssumption

(* The index after s.                                                      *)
LEMMA NextSlot ==
    ASSUME NEW s \in Slots
    PROVE  /\ (s + 1) % maxObjectCount \in Slots
           /\ s + 1 < maxObjectCount => (s + 1) % maxObjectCount = s + 1
  BY DEF Slots

(* What acquire does to the line and the holder.                           *)
LEMMA AskTypes ==
    ASSUME NEW u \in Operations \union {Others}, TypeOK, Ask(u) \/ ReleaseAndAsk(u)
    PROVE  /\ holder' \in Operations \union {Others, Nobody}
           /\ line' \in Seq(Operations \union {Others})
  BY DEF TypeOK, Ask, ReleaseAndAsk, lockVars

(* What giving out a result object does to the ring.                       *)
LEMMA GiveOutTypes ==
    ASSUME NEW o \in Operations, NEW s \in Slots, TypeOK, GiveOut(o, s)
    PROVE  /\ status' \in [Slots -> Outcomes]
           /\ currentObjectCount' \in Slots
           /\ slot' \in [Operations -> Slots]
  <1>1. currentObjectCount' \in Slots
    BY NextSlot DEF GiveOut
  <1> QED
    BY <1>1 DEF GiveOut, TypeOK, Outcomes

(* Every variable keeps its type.                                          *)
THEOREM TypeCorrect == Spec => []TypeOK
<1>1. Init => TypeOK
  BY DEF Init, TypeOK, Slots, Outcomes
<1>2. TypeOK /\ [Next]_vars => TypeOK'
  <2> SUFFICES ASSUME TypeOK, [Next]_vars PROVE TypeOK'
    OBVIOUS
  <2>1. ASSUME NEW o \in Operations, Refuse(o) PROVE TypeOK'
    BY <2>1 DEF Refuse, TypeOK, ringVars, sensorVars, lockVars, sentVars, setVars
  <2>2. ASSUME NEW o \in Operations, Call(o) \/ SetUnknown(o) \/ SetByFunction(o) PROVE TypeOK'
    BY <2>2, GiveOutTypes
    DEF Call, SetUnknown, SetByFunction, TypeOK, sensorVars, lockVars, sentVars, setVars
  <2>3. ASSUME NEW o \in Operations, SetBySensor(o) PROVE TypeOK'
    <3>1. PICK s \in Slots : GiveOut(o, s)
      BY <2>3 DEF SetBySensor
    <3>2. /\ status' \in [Slots -> Outcomes]
          /\ currentObjectCount' \in Slots
          /\ slot' \in [Operations -> Slots]
      BY <3>1, GiveOutTypes
    <3>3. /\ holder' \in Operations \union {Others, Nobody}
          /\ line' \in Seq(Operations \union {Others})
      BY <2>3, AskTypes DEF SetBySensor
    <3>4. valueOf' = o /\ statusOf' = o /\ newest' = o /\ localStatus' = localStatus
      BY <2>3 DEF SetBySensor, TakePointers
    <3>5. overlapped' \subseteq Operations
      BY <2>3 DEF SetBySensor, TypeOK
    <3>6. CASE holder' = o /\ Send(o, valueOf')
      BY <3>2, <3>3, <3>4, <3>5, <3>6 DEF Send, TypeOK
    <3>7. CASE holder' # o /\ pc' = [pc EXCEPT ![o] = "queued"] /\ UNCHANGED sentVars
      BY <3>2, <3>3, <3>4, <3>5, <3>7 DEF sentVars, TypeOK
    <3> QED
      BY <2>3, <3>6, <3>7 DEF SetBySensor
  <2>4. ASSUME NEW o \in Operations, CallEnds(o) PROVE TypeOK'
    BY <2>4 DEF CallEnds, Conclude, TypeOK, Outcomes, sensorVars, lockVars, sentVars, setVars
  <2>5. ASSUME NEW o \in Operations, FunctionEnds(o) PROVE TypeOK'
    <3>1. localStatus' \in [Operations -> {"Success", "WriteFailure"}]
      BY <2>5 DEF FunctionEnds, TypeOK
    <3> QED
      BY <2>5, <3>1
      DEF FunctionEnds, Conclude, TypeOK, Outcomes, sensorVars, lockVars, sentVars, setVars
  <2>6. ASSUME NEW o \in Operations, UpdateEnds(o) PROVE TypeOK'
    <3>1. /\ localStatus' \in [Operations -> {"Success", "WriteFailure"}]
          /\ failed' \subseteq Operations
      BY <2>6 DEF UpdateEnds, Failure, TypeOK
    <3>2. CASE ReleaseAndAsk(o) /\ UNCHANGED ringVars
               /\ pc' = [pc EXCEPT ![o] = IF holder' = o THEN "refreshing" ELSE "refreshQueued"]
      BY <2>6, <3>1, <3>2, AskTypes
      DEF UpdateEnds, TypeOK, ringVars, sensorVars, setVars
    <3>3. CASE holder' = Nobody /\ UNCHANGED line /\ Conclude(o, localStatus'[o])
      BY <2>6, <3>1, <3>3 DEF UpdateEnds, Conclude, TypeOK, Outcomes, sensorVars, setVars
    <3> QED
      BY <2>6, <3>2, <3>3 DEF UpdateEnds, AfterUpdate
  <2>7. ASSUME NEW o \in Operations, RefreshEnds(o) PROVE TypeOK'
    BY <2>7 DEF RefreshEnds, Conclude, TypeOK, Outcomes, sensorVars, sentVars, setVars
  <2>8. CASE OthersAsk
    BY <2>8, AskTypes DEF OthersAsk, TypeOK, ringVars, sensorVars, sentVars, setVars
  <2>9. CASE OthersRelease
    BY <2>9 DEF OthersRelease, TypeOK, ringVars, sensorVars, sentVars, setVars
  <2>10. CASE Resume
    <3>1. /\ Head(line) \in Operations \union {Others}
          /\ Tail(line) \in Seq(Operations \union {Others})
      BY <2>10 DEF Resume, TypeOK
    <3>2. CASE UNCHANGED <<pc, sentVars>>
      BY <2>10, <3>1, <3>2 DEF Resume, TypeOK, ringVars, sensorVars, sentVars, setVars
    <3>3. ASSUME NEW o \in Operations,
                 \/ pc[o] = "queued" /\ Send(o, valueOf)
                 \/ pc' = [pc EXCEPT ![o] = "refreshing"] /\ UNCHANGED sentVars
          PROVE  TypeOK'
      BY <2>10, <3>1, <3>3 DEF Resume, Send, TypeOK, ringVars, sensorVars, sentVars, setVars
    <3> QED
      BY <2>10, <3>2, <3>3 DEF Resume
  <2>11. CASE UNCHANGED vars
    BY <2>11 DEF vars, TypeOK, ringVars, sensorVars, lockVars, sentVars, setVars
  <2> QED
    BY <2>1, <2>2, <2>3, <2>4, <2>5, <2>6, <2>7, <2>8, <2>9, <2>10, <2>11 DEF Next, Start, Proceed
<1> QED
  BY <1>1, <1>2, PTL DEF Spec

-----------------------------------------------------------------------------
(* While objects are still made, those before the index have been made.   *)
MadeInOrder == AllMade \/ \A s \in Slots : status[s] = "none" <=> s >= currentObjectCount

(* The ring and its operations: an operation that has an object has it for *)
(* itself, and in progress.                                                *)
SlotDiscipline ==
    /\ MadeInOrder
    /\ \A o \in Operations : Holding(o) => status[slot[o]] = "InProgress"
    /\ \A o, p \in Operations : Holding(o) /\ Holding(p) /\ slot[o] = slot[p] => o = p
    /\ OnlyUnknownIsLost

(* The three effects a step may have on the ring, or none.                 *)
OthersHold(o) == \A p \in Operations \ {o} : Holding(p)' = Holding(p)

Gives(o, s) == ~Holding(o) /\ Holding(o)' /\ GiveOut(o, s) /\ OthersHold(o)

Ends(o, r) ==
    /\ Holding(o) /\ ~Holding(o)'
    /\ status' = [status EXCEPT ![slot[o]] = r]
    /\ UNCHANGED <<slot, currentObjectCount>>
    /\ OthersHold(o)

Keeps == UNCHANGED ringVars /\ \A p \in Operations : Holding(p)' = Holding(p)

LEMMA SlotSteps ==
    ASSUME TypeOK, [Next]_vars
    PROVE  \/ \E o \in Operations, s \in Slots : Gives(o, s)
           \/ \E o \in Operations, r \in {"Success", "WriteFailure"} : Ends(o, r)
           \/ Keeps
  <1> USE DEF TypeOK, Holding, Running
  <1>1. ASSUME NEW o \in Operations, Refuse(o) PROVE Keeps
    BY <1>1 DEF Refuse, Keeps
  <1>2. ASSUME NEW o \in Operations, Call(o) \/ SetUnknown(o) \/ SetByFunction(o)
        PROVE  \E s \in Slots : Gives(o, s)
    BY <1>2 DEF Call, SetUnknown, SetByFunction, Gives, OthersHold
  <1>3. ASSUME NEW o \in Operations, SetBySensor(o) PROVE \E s \in Slots : Gives(o, s)
    <2>1. pc[o] = "idle" /\ pc' \in {[pc EXCEPT ![o] = "sending"], [pc EXCEPT ![o] = "queued"]}
      BY <1>3 DEF SetBySensor, Send
    <2> QED
      BY <1>3, <2>1 DEF SetBySensor, Gives, OthersHold
  <1>4. ASSUME NEW o \in Operations, CallEnds(o)
        PROVE  \E r \in {"Success", "WriteFailure"} : Ends(o, r)
    BY <1>4 DEF CallEnds, Conclude, Ends, OthersHold
  <1>5. ASSUME NEW o \in Operations, FunctionEnds(o)
        PROVE  \E r \in {"Success", "WriteFailure"} : Ends(o, r)
    <2>1. localStatus'[o] \in {"Success", "WriteFailure"}
      BY <1>5 DEF FunctionEnds
    <2> QED
      BY <1>5, <2>1 DEF FunctionEnds, Conclude, Ends, OthersHold
  <1>6. ASSUME NEW o \in Operations, UpdateEnds(o)
        PROVE  Keeps \/ \E r \in {"Success", "WriteFailure"} : Ends(o, r)
    <2>1. localStatus'[o] \in {"Success", "WriteFailure"}
      BY <1>6 DEF UpdateEnds, Failure
    <2>2. pc[o] = "sending"
      BY <1>6 DEF UpdateEnds
    <2>3. CASE UNCHANGED ringVars
               /\ pc' = [pc EXCEPT ![o] = IF holder' = o THEN "refreshing" ELSE "refreshQueued"]
      BY <2>2, <2>3 DEF Keeps
    <2>4. CASE Conclude(o, localStatus'[o])
      BY <2>1, <2>2, <2>4 DEF Conclude, Ends, OthersHold
    <2> QED
      BY <1>6, <2>3, <2>4 DEF UpdateEnds, AfterUpdate
  <1>7. ASSUME NEW o \in Operations, RefreshEnds(o)
        PROVE  \E r \in {"Success", "WriteFailure"} : Ends(o, r)
    BY <1>7 DEF RefreshEnds, Conclude, Ends, OthersHold
  <1>8. CASE OthersAsk \/ OthersRelease \/ UNCHANGED vars
    BY <1>8 DEF OthersAsk, OthersRelease, vars, ringVars, Keeps
  <1>9. CASE Resume
    BY <1>9 DEF Resume, Send, ringVars, Keeps
  <1> QED
    BY <1>1, <1>2, <1>3, <1>4, <1>5, <1>6, <1>7, <1>8, <1>9 DEF Next, Start, Proceed

(* An object that is given out is not in progress.                         *)
LEMMA AvailableIsFree ==
    ASSUME TypeOK, MadeInOrder, NEW s \in Slots, Available(s)
    PROVE  status[s] # "InProgress"
  <1>1. CASE AllMade
    BY <1>1 DEF Available
  <1>2. CASE ~AllMade
    BY <1>2 DEF Available, MadeInOrder, TypeOK, Slots
  <1> QED
    BY <1>1, <1>2

LEMMA SlotsKept == ASSUME TypeOK, SlotDiscipline, [Next]_vars PROVE SlotDiscipline'
  <1>1. ASSUME NEW o \in Operations, NEW s \in Slots, Gives(o, s) PROVE SlotDiscipline'
    <2>0. /\ status[s] # "InProgress"
          /\ slot' = [slot EXCEPT ![o] = s] /\ slot'[o] = s
          /\ status' = [status EXCEPT ![s] = "InProgress"]
          /\ \A p \in Operations \ {o} : slot'[p] = slot[p] /\ Holding(p)' = Holding(p)
          /\ \A p \in Operations : slot[p] \in Slots
          /\ ~Holding(o) /\ Holding(o)'
      BY <1>1, AvailableIsFree DEF Gives, GiveOut, SlotDiscipline, OthersHold, TypeOK
    <2>1. MadeInOrder'
      <3>1. CASE AllMade
        BY <2>0, <3>1 DEF AllMade, MadeInOrder, TypeOK
      <3>2. CASE ~AllMade
        <4>1. /\ s = currentObjectCount
              /\ \A t \in Slots : status[t] = "none" <=> t >= s
              /\ currentObjectCount' = (s + 1) % maxObjectCount
          BY <1>1, <3>2 DEF Gives, GiveOut, Available, SlotDiscipline, MadeInOrder
        <4>2. \A t \in Slots : status'[t] = "none" <=> t >= s + 1
          BY <2>0, <4>1 DEF TypeOK, Slots
        <4>3. CASE s + 1 < maxObjectCount
          BY <4>1, <4>2, <4>3, NextSlot DEF MadeInOrder
        <4>4. CASE s + 1 >= maxObjectCount
          BY <4>2, <4>4 DEF MadeInOrder, AllMade, Slots
        <4> QED
          BY <4>3, <4>4 DEF Slots
      <3> QED
        BY <3>1, <3>2
    <2>2. \A p \in Operations : Holding(p)' => status'[slot'[p]] = "InProgress"
      BY <2>0 DEF SlotDiscipline, TypeOK
    <2>3. \A p, q \in Operations : Holding(p)' /\ Holding(q)' /\ slot'[p] = slot'[q] => p = q
      BY <2>0 DEF SlotDiscipline
    <2>4. \A t \in Slots : status'[t] = "InProgress" =>
             \E p \in Operations : slot'[p] = t /\ Holding(p)'
      BY <2>0 DEF SlotDiscipline, OnlyUnknownIsLost, TypeOK
    <2> QED
      BY <2>1, <2>2, <2>3, <2>4 DEF SlotDiscipline, OnlyUnknownIsLost
  <1>2. ASSUME NEW o \in Operations, NEW r \in {"Success", "WriteFailure"}, Ends(o, r)
        PROVE  SlotDiscipline'
    <2>0. /\ status' = [status EXCEPT ![slot[o]] = r]
          /\ slot' = slot /\ currentObjectCount' = currentObjectCount
          /\ \A p \in Operations \ {o} : Holding(p)' = Holding(p)
          /\ \A p \in Operations : slot[p] \in Slots
          /\ Holding(o) /\ ~Holding(o)'
          /\ status[slot[o]] = "InProgress"
      BY <1>2 DEF Ends, SlotDiscipline, OthersHold, TypeOK
    <2>1. MadeInOrder'
      BY <2>0 DEF SlotDiscipline, MadeInOrder, AllMade, TypeOK
    <2>2. \A p \in Operations : Holding(p)' => status'[slot'[p]] = "InProgress"
      BY <2>0 DEF SlotDiscipline, TypeOK
    <2>3. \A p, q \in Operations : Holding(p)' /\ Holding(q)' /\ slot'[p] = slot'[q] => p = q
      BY <2>0 DEF SlotDiscipline
    <2>4. \A t \in Slots : status'[t] = "InProgress" =>
             \E p \in Operations : slot'[p] = t /\ Holding(p)'
      BY <2>0 DEF SlotDiscipline, OnlyUnknownIsLost, TypeOK
    <2> QED
      BY <2>1, <2>2, <2>3, <2>4 DEF SlotDiscipline, OnlyUnknownIsLost
  <1>3. CASE Keeps
    BY <1>3 DEF Keeps, ringVars, SlotDiscipline, MadeInOrder, AllMade, OnlyUnknownIsLost
  <1> QED
    BY <1>1, <1>2, <1>3, SlotSteps

LEMMA SlotsHold == Spec => []SlotDiscipline
<1>1. Init => SlotDiscipline
  BY DEF Init, SlotDiscipline, MadeInOrder, AllMade, OnlyUnknownIsLost, Holding, Running, Slots
<1> QED
  BY <1>1, SlotsKept, TypeCorrect, PTL DEF Spec

(* A result object stays in progress only while its operation runs, or if  *)
(* the property of the set is unknown.                                     *)
THEOREM OnlyUnknownLeaks == Spec => []OnlyUnknownIsLost
  BY SlotsHold, PTL DEF SlotDiscipline

-----------------------------------------------------------------------------
LEMMA OwnerIsUnique ==
    ASSUME SlotDiscipline, NEW o \in Operations, Holding(o)
    PROVE  Owner(slot[o]) = o
  BY DEF SlotDiscipline, Owner

LEMMA OwnerOfUnique ==
    ASSUME NEW s \in Slots
    PROVE  \/ Owner(s) = Nobody /\ \A o \in Operations : ~(slot[o] = s /\ Holding(o))
           \/ Owner(s) \in Operations /\ slot[Owner(s)] = s /\ Holding(Owner(s))
  BY DEF Owner

(* The result objects implement the pool clients rely on.                  *)
THEOREM PoolRefinement == Spec => ImplementsResultPool
<1>1. Init => Pool!Init
  BY DEF Init, Pool!Init, Owner, Holding, Running, Outcomes
<1>2. TypeOK /\ SlotDiscipline /\ SlotDiscipline' /\ [Next]_vars
         => [Pool!Next]_<<[s \in Slots |-> Owner(s)], status>>
  <2> SUFFICES ASSUME TypeOK, SlotDiscipline, SlotDiscipline', [Next]_vars
               PROVE  [Pool!Next]_<<[s \in Slots |-> Owner(s)], status>>
    OBVIOUS
  <2>1. ASSUME NEW o \in Operations, NEW s \in Slots, Gives(o, s) PROVE Pool!GiveOut(o, s)
    <3>0. /\ status[s] # "InProgress"
          /\ slot' = [slot EXCEPT ![o] = s] /\ slot'[o] = s
          /\ status' = [status EXCEPT ![s] = "InProgress"]
          /\ \A p \in Operations \ {o} : slot'[p] = slot[p] /\ Holding(p)' = Holding(p)
          /\ ~Holding(o) /\ Holding(o)'
      BY <2>1, AvailableIsFree DEF Gives, GiveOut, SlotDiscipline, OthersHold, TypeOK
    <3>1. Owner(s) = Nobody
      BY <3>0, OwnerOfUnique DEF SlotDiscipline
    <3>2. Owner(s)' = o
      BY <3>0 DEF SlotDiscipline, Owner
    <3>3. ASSUME NEW t \in Slots, t # s PROVE Owner(t)' = Owner(t)
      <4>1. \A p \in Operations : (slot'[p] = t /\ Holding(p)') <=> (slot[p] = t /\ Holding(p))
        BY <3>0, <3>3
      <4> QED
        BY <4>1 DEF Owner
    <3> QED
      BY <3>0, <3>1, <3>2, <3>3 DEF Pool!GiveOut, Outcomes
  <2>2. ASSUME NEW o \in Operations, NEW r \in {"Success", "WriteFailure"}, Ends(o, r)
        PROVE  Pool!End(slot[o], r)
    <3>0. /\ status' = [status EXCEPT ![slot[o]] = r]
          /\ slot' = slot
          /\ \A p \in Operations \ {o} : Holding(p)' = Holding(p)
          /\ slot[o] \in Slots
          /\ Holding(o) /\ ~Holding(o)'
      BY <2>2 DEF Ends, OthersHold, TypeOK
    <3>1. Owner(slot[o]) = o
      BY <3>0, OwnerIsUnique
    <3>2. Owner(slot[o])' = Nobody
      BY <3>0 DEF SlotDiscipline, Owner
    <3>3. ASSUME NEW t \in Slots, t # slot[o] PROVE Owner(t)' = Owner(t)
      <4>1. \A p \in Operations : (slot'[p] = t /\ Holding(p)') <=> (slot[p] = t /\ Holding(p))
        BY <3>0, <3>3
      <4> QED
        BY <4>1 DEF Owner
    <3> QED
      BY <3>0, <3>1, <3>2, <3>3 DEF Pool!End
  <2>3. ASSUME Keeps PROVE UNCHANGED <<[s \in Slots |-> Owner(s)], status>>
    <3>1. ASSUME NEW t \in Slots PROVE Owner(t)' = Owner(t)
      <4>1. \A p \in Operations : (slot'[p] = t /\ Holding(p)') <=> (slot[p] = t /\ Holding(p))
        BY <2>3 DEF Keeps, ringVars
      <4> QED
        BY <4>1 DEF Owner
    <3> QED
      BY <2>3, <3>1 DEF Keeps, ringVars
  <2>4. \A o \in Operations : slot[o] \in Slots
    BY DEF TypeOK
  <2> QED
    BY <2>1, <2>2, <2>3, <2>4, SlotSteps DEF Pool!Next, Outcomes
<1> QED
  BY <1>1, <1>2, TypeCorrect, SlotsHold, PTL DEF Spec, ImplementsResultPool, Pool!Spec

-----------------------------------------------------------------------------
(* The semaphore and its line: the one that sends or refreshes has it,     *)
(* who is queued stands in line, and nobody stands there twice.            *)
LineDiscipline ==
    /\ \A o \in Operations : pc[o] \in {"sending", "refreshing"} <=> holder = o
    /\ \A o \in Operations : pc[o] = "queued" => \E i \in DOMAIN line : line[i] = o
    /\ \A i \in DOMAIN line : line[i] \in Operations => pc[line[i]] \in {"queued", "refreshQueued"}
    /\ \A i, j \in DOMAIN line : line[i] = line[j] /\ line[i] \in Operations => i = j

(* The pointers lead to the set asked for last, and while any set is       *)
(* queued that one is queued too, behind all others.                       *)
NewestIsLast ==
    /\ newest = valueOf /\ statusOf = valueOf
    /\ \A i \in DOMAIN line : line[i] \in Operations /\ pc[line[i]] = "queued" =>
          /\ pc[valueOf] = "queued"
          /\ \E j \in DOMAIN line : j >= i /\ line[j] = valueOf
    /\ PointersAlive

SetDiscipline == LineDiscipline /\ NewestIsLast

Away == {"idle", "calling", "handling", "done", "lost", "refused"}

(* Operations that have nothing to do with the sensor disturb nothing.     *)
LEMMA OthersDisturbNothing ==
    ASSUME TypeOK, SetDiscipline, NEW o \in Operations, pc[o] \in Away,
           NEW a \in Away, pc' = [pc EXCEPT ![o] = a],
           UNCHANGED <<lockVars, sensorVars, newest>>
    PROVE  SetDiscipline'
  <1>0. /\ \A p \in Operations : pc'[p] = pc[p] \/ p = o
        /\ pc'[o] \in Away
        /\ holder' = holder /\ line' = line /\ valueOf' = valueOf /\ statusOf' = statusOf
        /\ newest' = newest
    BY DEF TypeOK, lockVars, sensorVars
  <1>1. \A p \in Operations : Updating(p)' <=> Updating(p)
    BY <1>0 DEF Away, Updating
  <1>2. LineDiscipline'
    BY <1>0 DEF SetDiscipline, LineDiscipline, Away
  <1>3. NewestIsLast'
    BY <1>0, <1>1 DEF SetDiscipline, NewestIsLast, PointersAlive, LineDiscipline, Away, TypeOK, Updating
  <1> QED
    BY <1>2, <1>3 DEF SetDiscipline

(* Nobody who is away stands in line.                                      *)
LEMMA AwayNotInLine ==
    ASSUME TypeOK, LineDiscipline, NEW o \in Operations,
           pc[o] \in Away \/ pc[o] \in {"sending", "refreshing"}
    PROVE  \A i \in DOMAIN line : line[i] # o
  BY DEF LineDiscipline, Away

(* What joining the line does to its members.                              *)
LEMMA Joined ==
    ASSUME TypeOK, NEW u \in Operations \union {Others}, line' = Append(line, u)
    PROVE  /\ Len(line) + 1 \in DOMAIN line' /\ line'[Len(line) + 1] = u
           /\ \A i \in DOMAIN line : i \in DOMAIN line' /\ line'[i] = line[i] /\ i < Len(line) + 1
           /\ \A i \in DOMAIN line' : i \in DOMAIN line \/ i = Len(line) + 1
  BY DEF TypeOK

(* What leaving it at its head does.                                       *)
LEMMA Left ==
    ASSUME TypeOK, line # <<>>, line' = Tail(line)
    PROVE  /\ 1 \in DOMAIN line /\ Head(line) = line[1]
           /\ \A i \in DOMAIN line' : i \in Nat /\ i + 1 \in DOMAIN line /\ line'[i] = line[i + 1]
           /\ \A i \in DOMAIN line : i \in Nat /\ (i # 1 => i - 1 \in DOMAIN line' /\ line'[i - 1] = line[i])
  BY DEF TypeOK

LEMMA SetsKept == ASSUME TypeOK, TypeOK', SetDiscipline, [Next]_vars PROVE SetDiscipline'
  <1>1. ASSUME NEW o \in Operations, Refuse(o) \/ Call(o) \/ SetUnknown(o) \/ SetByFunction(o)
        PROVE  SetDiscipline'
    <2>1. /\ pc[o] \in Away
          /\ \E a \in Away : pc' = [pc EXCEPT ![o] = a]
          /\ UNCHANGED <<lockVars, sensorVars, newest>>
      BY <1>1 DEF Refuse, Call, SetUnknown, SetByFunction, Away, setVars
    <2> QED
      BY <2>1, OthersDisturbNothing
  <1>2. ASSUME NEW o \in Operations, CallEnds(o) \/ FunctionEnds(o) PROVE SetDiscipline'
    <2>1. /\ pc[o] \in Away
          /\ "done" \in Away /\ pc' = [pc EXCEPT ![o] = "done"]
          /\ UNCHANGED <<lockVars, sensorVars, newest>>
      BY <1>2 DEF CallEnds, FunctionEnds, Conclude, Away, setVars
    <2> QED
      BY <2>1, OthersDisturbNothing
  <1>3. ASSUME NEW o \in Operations, SetBySensor(o) PROVE SetDiscipline'
    <2>0. /\ pc[o] = "idle" /\ valueOf' = o /\ statusOf' = o /\ newest' = o
          /\ Ask(o)
          /\ \A i \in DOMAIN line : line[i] # o
      BY <1>3, AwayNotInLine DEF SetBySensor, TakePointers, SetDiscipline, Away
    <2>1. CASE holder = Nobody /\ line = <<>>
      <3>1. /\ holder' = o /\ line' = <<>>
            /\ pc' = [pc EXCEPT ![o] = "sending"]
        BY <1>3, <2>0, <2>1 DEF SetBySensor, Send, Ask
      <3>2. \A p \in Operations : pc[p] \notin {"queued", "sending", "refreshing"}
        BY <2>1 DEF SetDiscipline, LineDiscipline
      <3>3. LineDiscipline'
        BY <3>1, <3>2 DEF LineDiscipline, TypeOK
      <3>4. NewestIsLast'
        BY <2>0, <3>1, <3>2 DEF NewestIsLast, PointersAlive, Updating, TypeOK
      <3> QED
        BY <3>3, <3>4 DEF SetDiscipline
    <2>2. CASE ~(holder = Nobody /\ line = <<>>)
      <3>1. /\ line' = Append(line, o) /\ holder' = holder
        BY <2>0, <2>2 DEF Ask
      <3>2. holder # o
        BY <2>0 DEF SetDiscipline, LineDiscipline
      <3>3. pc' = [pc EXCEPT ![o] = "queued"]
        BY <1>3, <3>1, <3>2 DEF SetBySensor
      <3>4. LineDiscipline'
        <4>1. \A p \in Operations : pc'[p] \in {"sending", "refreshing"} <=> holder' = p
          BY <2>0, <3>1, <3>2, <3>3 DEF SetDiscipline, LineDiscipline, TypeOK
        <4>2. \A p \in Operations : pc'[p] = "queued" => \E i \in DOMAIN line' : line'[i] = p
          BY <3>1, <3>3, Joined DEF SetDiscipline, LineDiscipline, TypeOK
        <4>3. \A i \in DOMAIN line' :
                 line'[i] \in Operations => pc'[line'[i]] \in {"queued", "refreshQueued"}
          BY <3>1, <3>3, Joined DEF SetDiscipline, LineDiscipline, TypeOK
        <4>4. \A i, j \in DOMAIN line' : line'[i] = line'[j] /\ line'[i] \in Operations => i = j
          BY <2>0, <3>1, Joined DEF SetDiscipline, LineDiscipline
        <4> QED
          BY <4>1, <4>2, <4>3, <4>4 DEF LineDiscipline
      <3>5. NewestIsLast'
        <4>1. pc'[o] = "queued"
          BY <3>3 DEF TypeOK
        <4>2. \A i \in DOMAIN line' : \E j \in DOMAIN line' : j >= i /\ line'[j] = o
          BY <3>1, Joined DEF TypeOK
        <4> QED
          BY <2>0, <4>1, <4>2 DEF NewestIsLast, PointersAlive, Updating
      <3> QED
        BY <3>4, <3>5 DEF SetDiscipline
    <2> QED
      BY <2>1, <2>2
  <1>4. ASSUME NEW o \in Operations, UpdateEnds(o) PROVE SetDiscipline'
    <2>0. /\ pc[o] = "sending" /\ holder = o
          /\ valueOf' = valueOf /\ statusOf' = statusOf /\ newest' = newest
          /\ \A i \in DOMAIN line : line[i] # o
      BY <1>4, AwayNotInLine DEF UpdateEnds, SetDiscipline, LineDiscipline, sensorVars, setVars
    <2>1. \A p \in Operations \ {o} : pc'[p] = pc[p] /\ pc[p] \notin {"sending", "refreshing"}
      BY <1>4, <2>0 DEF UpdateEnds, AfterUpdate, Conclude, SetDiscipline, LineDiscipline, TypeOK
    <2>2. pc'[o] \in {"refreshing", "refreshQueued", "done"}
      BY <1>4 DEF UpdateEnds, AfterUpdate, Conclude, TypeOK
    <2>3. CASE UNCHANGED line /\ holder' = o /\ pc'[o] = "refreshing" /\ line = <<>>
      <3>1. LineDiscipline'
        BY <2>0, <2>1, <2>3 DEF SetDiscipline, LineDiscipline
      <3>2. \A p \in Operations : ~Updating(p)'
        BY <2>1, <2>2, <2>3 DEF SetDiscipline, LineDiscipline, Updating
      <3> QED
        BY <2>0, <2>3, <3>1, <3>2 DEF SetDiscipline, NewestIsLast, PointersAlive
    <2>4. CASE UNCHANGED line /\ holder' = Nobody /\ pc'[o] = "done"
      <3>1. LineDiscipline'
        BY <2>0, <2>1, <2>4 DEF SetDiscipline, LineDiscipline
      <3> QED
        BY <2>0, <2>1, <2>4, <3>1
        DEF SetDiscipline, NewestIsLast, PointersAlive, LineDiscipline, Updating, TypeOK
    <2>5. CASE line' = Append(line, o) /\ holder' = Nobody /\ pc'[o] = "refreshQueued"
      <3>1. LineDiscipline'
        <4>1. \A p \in Operations : pc'[p] \in {"sending", "refreshing"} <=> holder' = p
          BY <2>1, <2>5
        <4>2. \A p \in Operations : pc'[p] = "queued" => \E i \in DOMAIN line' : line'[i] = p
          BY <2>1, <2>5, Joined DEF SetDiscipline, LineDiscipline
        <4>3. \A i \in DOMAIN line' :
                 line'[i] \in Operations => pc'[line'[i]] \in {"queued", "refreshQueued"}
          BY <2>0, <2>1, <2>5, Joined DEF SetDiscipline, LineDiscipline
        <4>4. \A i, j \in DOMAIN line' : line'[i] = line'[j] /\ line'[i] \in Operations => i = j
          BY <2>0, <2>5, Joined DEF SetDiscipline, LineDiscipline
        <4> QED
          BY <4>1, <4>2, <4>3, <4>4 DEF LineDiscipline
      <3>2. ASSUME NEW i \in DOMAIN line', line'[i] \in Operations, pc'[line'[i]] = "queued"
            PROVE  /\ pc'[valueOf] = "queued"
                   /\ \E j \in DOMAIN line' : j >= i /\ line'[j] = valueOf
        <4>1. i \in DOMAIN line /\ line'[i] = line[i] /\ line[i] # o
          BY <2>0, <2>5, <3>2, Joined
        <4>2. /\ pc[valueOf] = "queued"
              /\ \E j \in DOMAIN line : j >= i /\ line[j] = valueOf
          BY <2>1, <3>2, <4>1 DEF SetDiscipline, NewestIsLast
        <4>3. valueOf # o /\ valueOf \in Operations
          BY <2>0, <3>2, <4>1, <4>2, <2>1 DEF SetDiscipline, NewestIsLast, PointersAlive, Updating, TypeOK
        <4> QED
          BY <2>1, <2>5, <4>2, <4>3, Joined
      <3>3. PointersAlive'
        <4> SUFFICES ASSUME NEW p \in Operations, Updating(p)'
                     PROVE  valueOf # Nobody /\ Updating(valueOf)'
          BY <2>0 DEF PointersAlive, SetDiscipline, NewestIsLast
        <4>1. pc'[p] = "queued"
          BY <2>1, <2>5 DEF Updating
        <4>2. PICK i \in DOMAIN line' : line'[i] = p
          BY <3>1, <4>1 DEF LineDiscipline
        <4>3. pc'[valueOf] = "queued"
          BY <3>2, <4>1, <4>2
        <4>4. valueOf # Nobody
          BY <2>1, <2>5, <4>1 DEF SetDiscipline, NewestIsLast, PointersAlive, Updating
        <4> QED
          BY <2>0, <4>3, <4>4 DEF Updating
      <3> QED
        BY <2>0, <3>1, <3>2, <3>3 DEF SetDiscipline, NewestIsLast
    <2> QED
      BY <1>4, <2>0, <2>3, <2>4, <2>5
      DEF UpdateEnds, AfterUpdate, ReleaseAndAsk, Conclude, lockVars, TypeOK
  <1>5. ASSUME NEW o \in Operations, RefreshEnds(o) PROVE SetDiscipline'
    <2>0. /\ pc[o] = "refreshing" /\ holder = o /\ holder' = Nobody /\ line' = line
          /\ valueOf' = valueOf /\ statusOf' = statusOf /\ newest' = newest
          /\ pc'[o] = "done" /\ \A p \in Operations \ {o} : pc'[p] = pc[p]
          /\ \A i \in DOMAIN line : line[i] # o
      BY <1>5, AwayNotInLine
      DEF RefreshEnds, Conclude, SetDiscipline, LineDiscipline, sensorVars, setVars, TypeOK
    <2>1. LineDiscipline'
      BY <2>0 DEF SetDiscipline, LineDiscipline
    <2>2. \A p \in Operations : Updating(p)' <=> Updating(p)
      BY <2>0 DEF Updating
    <2> QED
      BY <2>0, <2>1, <2>2
      DEF SetDiscipline, NewestIsLast, PointersAlive, LineDiscipline, TypeOK, Updating
  <1>6. CASE OthersAsk
    <2>0. /\ \/ line' = Append(line, Others) /\ holder' = holder
             \/ line' = line /\ holder = Nobody /\ holder' = Others
          /\ pc' = pc /\ valueOf' = valueOf /\ statusOf' = statusOf /\ newest' = newest
      BY <1>6 DEF OthersAsk, Ask, sensorVars, setVars
    <2>1. CASE line' = line
      BY <2>0, <2>1 DEF SetDiscipline, LineDiscipline, NewestIsLast, PointersAlive, Updating
    <2>2. CASE line' = Append(line, Others) /\ holder' = holder
      <3>1. LineDiscipline'
        BY <2>0, <2>2, Joined DEF SetDiscipline, LineDiscipline
      <3>2. NewestIsLast'
        BY <2>0, <2>2, Joined DEF SetDiscipline, NewestIsLast, PointersAlive, Updating
      <3> QED
        BY <3>1, <3>2 DEF SetDiscipline
    <2> QED
      BY <2>0, <2>1, <2>2
  <1>7. CASE OthersRelease
    BY <1>7 DEF OthersRelease, sensorVars, setVars, SetDiscipline, LineDiscipline, NewestIsLast,
       PointersAlive, Updating
  <1>8. CASE Resume
    <2>0. /\ holder = Nobody /\ line # <<>> /\ holder' = Head(line) /\ line' = Tail(line)
          /\ valueOf' = valueOf /\ statusOf' = statusOf /\ newest' = newest
          /\ Head(line) \in Operations \union {Others}
          /\ Head(line) = line[1] /\ 1 \in DOMAIN line
      BY <1>8, Left DEF Resume, sensorVars, setVars, TypeOK
    <2>1. /\ \A p \in Operations : p # Head(line) => pc'[p] = pc[p]
          /\ \A p \in Operations : pc[p] \notin {"sending", "refreshing"}
          /\ Head(line) \in Operations =>
                \/ pc[Head(line)] = "queued" /\ pc'[Head(line)] = "sending"
                \/ pc[Head(line)] = "refreshQueued" /\ pc'[Head(line)] = "refreshing"
      BY <1>8, <2>0 DEF Resume, Send, SetDiscipline, LineDiscipline, TypeOK
    <2>2. \A i \in DOMAIN line' : line'[i] \in Operations => line'[i] # Head(line)
      BY <2>0, Left DEF SetDiscipline, LineDiscipline
    <2>3. LineDiscipline'
      <3>1. \A p \in Operations : pc'[p] \in {"sending", "refreshing"} <=> holder' = p
        BY <2>0, <2>1
      <3>2. \A p \in Operations : pc'[p] = "queued" => \E i \in DOMAIN line' : line'[i] = p
        BY <2>0, <2>1, Left DEF SetDiscipline, LineDiscipline
      <3>3. \A i \in DOMAIN line' :
               line'[i] \in Operations => pc'[line'[i]] \in {"queued", "refreshQueued"}
        BY <2>0, <2>1, <2>2, Left DEF SetDiscipline, LineDiscipline
      <3>4. \A i, j \in DOMAIN line' : line'[i] = line'[j] /\ line'[i] \in Operations => i = j
        <4> SUFFICES ASSUME NEW i \in DOMAIN line', NEW j \in DOMAIN line', line'[i] = line'[j],
                            line'[i] \in Operations
                     PROVE  i = j
          OBVIOUS
        <4>1. i \in Nat /\ j \in Nat /\ i + 1 = j + 1
          BY <2>0, Left DEF SetDiscipline, LineDiscipline
        <4> QED
          BY <4>1
      <3> QED
        BY <3>1, <3>2, <3>3, <3>4 DEF LineDiscipline
    <2>4. ASSUME NEW i \in DOMAIN line', line'[i] \in Operations, pc'[line'[i]] = "queued"
          PROVE  /\ pc'[valueOf] = "queued"
                 /\ \E j \in DOMAIN line' : j >= i /\ line'[j] = valueOf
      <3>1. i \in Nat /\ i + 1 \in DOMAIN line /\ line[i + 1] = line'[i] /\ pc[line[i + 1]] = "queued"
        BY <2>0, <2>1, <2>2, <2>4, Left
      <3>2. pc[valueOf] = "queued"
        BY <2>4, <3>1 DEF SetDiscipline, NewestIsLast
      <3>3. PICK j \in DOMAIN line : j >= i + 1 /\ line[j] = valueOf
        BY <2>4, <3>1 DEF SetDiscipline, NewestIsLast
      <3>4. j \in Nat /\ j - 1 \in DOMAIN line' /\ line'[j - 1] = valueOf /\ j - 1 >= i
        BY <2>0, <3>1, <3>3, Left
      <3>5. valueOf \in Operations
        BY <2>4, <3>1 DEF SetDiscipline, NewestIsLast, PointersAlive, Updating, TypeOK
      <3>6. pc'[valueOf] = "queued"
        BY <2>1, <2>2, <3>2, <3>4, <3>5
      <3> QED
        BY <3>4, <3>6
    <2>5. PointersAlive'
      <3> SUFFICES ASSUME NEW p \in Operations, Updating(p)'
                   PROVE  valueOf # Nobody /\ Updating(valueOf)'
        BY <2>0 DEF PointersAlive, SetDiscipline, NewestIsLast
      <3>0. Updating(p)
        BY <2>0, <2>1 DEF Updating
      <3>1. valueOf \in Operations /\ valueOf # Nobody /\ Updating(valueOf)
        BY <3>0 DEF SetDiscipline, NewestIsLast, PointersAlive, TypeOK
      <3>2. Updating(valueOf)'
        BY <2>0, <2>1, <3>1 DEF Updating
      <3> QED
        BY <3>1, <3>2
    <2> QED
      BY <2>0, <2>3, <2>4, <2>5 DEF SetDiscipline, NewestIsLast
  <1>9. CASE UNCHANGED vars
    BY <1>9 DEF vars, lockVars, sensorVars, setVars, SetDiscipline, LineDiscipline, NewestIsLast,
       PointersAlive, Updating
  <1> QED
    BY <1>1, <1>2, <1>3, <1>4, <1>5, <1>6, <1>7, <1>8, <1>9 DEF Next, Start, Proceed

LEMMA SetsHold == Spec => []SetDiscipline
<1>1. Init => SetDiscipline
  BY DEF Init, SetDiscipline, LineDiscipline, NewestIsLast, PointersAlive, Updating
<1> QED
  BY <1>1, SetsKept, TypeCorrect, PTL DEF Spec

(* The pointers of the sensor lead into the frame of a set that has not    *)
(* ended, as long as any set may use them.                                 *)
THEOREM PointersStayAlive == Spec => []PointersAlive
  BY SetsHold, PTL DEF SetDiscipline, NewestIsLast

-----------------------------------------------------------------------------
(* Once no set is queued, the value sent last is the one asked for last.   *)
LastIsNewest ==
    valueOf # Nobody /\ (\A o \in Operations : pc[o] # "queued") =>
        lastSent = valueOf \/ valueOf \in IllTyped

(* Two sets under way at once have met, and a set that met no other has    *)
(* sent its own value and knows of its own failure.                        *)
OwnAccounts ==
    /\ \A o \in Operations : Updating(o) => o \in SensorSets
    /\ \A o \in Operations : pc[o] = "handling" => o \notin SensorSets
    /\ \A o \in Operations : sent[o] # Nobody => o \in SensorSets
    /\ \A o, p \in Operations : Updating(o) /\ Updating(p) /\ o # p => o \in overlapped
    /\ \A o \in SensorSets \ overlapped :
          /\ sent[o] \in {Nobody, o}
          /\ o \in failed <=> localStatus[o] = "WriteFailure"

LEMMA AccountsKept ==
    ASSUME TypeOK, SetDiscipline, LastIsNewest, OwnAccounts, [Next]_vars
    PROVE  LastIsNewest' /\ OwnAccounts'
  <1>1. ASSUME NEW o \in Operations, o \notin SensorSets, pc'[o] \notin {"queued", "sending"},
               pc[o] \notin {"queued", "sending"},
               \A p \in Operations \ {o} : pc'[p] = pc[p] /\ localStatus'[p] = localStatus[p],
               UNCHANGED <<sensorVars, sentVars, setVars>>
        PROVE  LastIsNewest' /\ OwnAccounts'
    BY <1>1 DEF LastIsNewest, OwnAccounts, sensorVars, sentVars, setVars, Updating
  <1>2. ASSUME NEW o \in Operations, o \notin SensorSets, Call(o) \/ SetUnknown(o) \/ SetByFunction(o)
        PROVE  LastIsNewest' /\ OwnAccounts'
    <2>1. /\ pc'[o] \notin {"queued", "sending"} /\ pc[o] \notin {"queued", "sending"}
          /\ \A p \in Operations \ {o} : pc'[p] = pc[p] /\ localStatus'[p] = localStatus[p]
          /\ UNCHANGED <<sensorVars, sentVars, setVars>>
      BY <1>2 DEF Call, SetUnknown, SetByFunction, TypeOK
    <2> QED
      BY <1>1, <1>2, <2>1
  <1>3. ASSUME NEW o \in Operations, FunctionEnds(o) PROVE LastIsNewest' /\ OwnAccounts'
    <2>1. /\ pc'[o] \notin {"queued", "sending"} /\ pc[o] \notin {"queued", "sending"}
          /\ \A p \in Operations \ {o} : pc'[p] = pc[p] /\ localStatus'[p] = localStatus[p]
          /\ UNCHANGED <<sensorVars, sentVars, setVars>>
          /\ o \notin SensorSets
      BY <1>3 DEF FunctionEnds, Conclude, TypeOK, OwnAccounts
    <2> QED
      BY <1>1, <2>1
  <1>4. ASSUME NEW o \in Operations, Refuse(o) \/ CallEnds(o) \/ RefreshEnds(o)
        PROVE  LastIsNewest' /\ OwnAccounts'
    <2>1. /\ pc'[o] \in {"refused", "done"} /\ pc[o] \notin {"queued", "sending"}
          /\ \A p \in Operations \ {o} : pc'[p] = pc[p]
          /\ localStatus' = localStatus
          /\ UNCHANGED <<sensorVars, sentVars, setVars>>
      BY <1>4 DEF Refuse, CallEnds, RefreshEnds, Conclude, TypeOK
    <2> QED
      BY <2>1 DEF LastIsNewest, OwnAccounts, sensorVars, sentVars, setVars, Updating
  <1>5. ASSUME NEW o \in SensorSets, SetBySensor(o) PROVE LastIsNewest' /\ OwnAccounts'
    <2>0. /\ o \in Operations /\ pc[o] = "idle" /\ valueOf' = o /\ localStatus' = localStatus
          /\ failed' = failed
          /\ \A p \in Operations \ {o} : pc'[p] = pc[p] /\ sent'[p] = sent[p]
          /\ pc'[o] \in {"queued", "sending"}
          /\ sent'[o] \in {sent[o], o}
      BY <1>5 DEF SetBySensor, TakePointers, Send, sentVars, TypeOK
    <2>1. LastIsNewest'
      BY <1>5, <2>0 DEF SetBySensor, Send, LastIsNewest, TypeOK
    <2>2. /\ overlapped \subseteq overlapped'
          /\ \A p \in Operations : Updating(p) => p \in overlapped' /\ o \in overlapped'
      BY <1>5 DEF SetBySensor
    <2>3. OwnAccounts'
      BY <2>0, <2>2 DEF OwnAccounts, Updating
    <2> QED
      BY <2>1, <2>3
  <1>6. ASSUME NEW o \in Operations, UpdateEnds(o) PROVE LastIsNewest' /\ OwnAccounts'
    <2>0. /\ pc[o] = "sending" /\ pc'[o] \notin {"queued", "sending", "handling"}
          /\ \A p \in Operations \ {o} : pc'[p] = pc[p]
          /\ sent' = sent /\ lastSent' = lastSent /\ valueOf' = valueOf /\ overlapped' = overlapped
      BY <1>6 DEF UpdateEnds, AfterUpdate, Conclude, TypeOK, sensorVars, setVars
    <2>1. LastIsNewest'
      BY <2>0 DEF LastIsNewest
    <2>2. /\ statusOf = valueOf /\ valueOf \in Operations /\ Updating(valueOf)
      BY <2>0 DEF SetDiscipline, NewestIsLast, PointersAlive, Updating, TypeOK
    <2>3. \A p \in SensorSets \ overlapped : p \in failed' <=> localStatus'[p] = "WriteFailure"
      <3>1. CASE UNCHANGED <<failed, localStatus>>
        BY <3>1 DEF OwnAccounts
      <3>2. CASE Failure(o)
        <4>1. /\ failed' = failed \union {o}
              /\ localStatus' = [localStatus EXCEPT ![valueOf] = "WriteFailure"]
          BY <2>2, <3>2 DEF Failure
        <4>2. CASE valueOf = o
          BY <4>1, <4>2 DEF OwnAccounts, TypeOK
        <4>3. CASE valueOf # o
          <5>1. o \in overlapped /\ valueOf \in overlapped
            BY <2>0, <2>2, <4>3 DEF OwnAccounts, Updating
          <5> QED
            BY <4>1, <5>1 DEF OwnAccounts, TypeOK
        <4> QED
          BY <4>2, <4>3
      <3> QED
        BY <1>6, <3>1, <3>2 DEF UpdateEnds
    <2>4. OwnAccounts'
      BY <2>0, <2>3 DEF OwnAccounts, Updating
    <2> QED
      BY <2>1, <2>4
  <1>7. CASE Resume
    <2>0. valueOf' = valueOf /\ overlapped' = overlapped /\ localStatus' = localStatus
      BY <1>7 DEF Resume, sensorVars, setVars
    <2>1. CASE UNCHANGED <<pc, sentVars>>
      BY <2>0, <2>1 DEF LastIsNewest, OwnAccounts, Updating, sentVars
    <2>2. ASSUME NEW o \in Operations, pc[o] = "refreshQueued",
                 pc' = [pc EXCEPT ![o] = "refreshing"], UNCHANGED sentVars
          PROVE  LastIsNewest' /\ OwnAccounts'
      BY <2>0, <2>2 DEF LastIsNewest, OwnAccounts, Updating, sentVars, TypeOK
    <2>3. ASSUME NEW o \in Operations, pc[o] = "queued", Send(o, valueOf)
          PROVE  LastIsNewest' /\ OwnAccounts'
      <3>0. /\ pc'[o] = "sending" /\ failed' = failed
            /\ \A p \in Operations \ {o} : pc'[p] = pc[p] /\ sent'[p] = sent[p]
            /\ sent'[o] \in {sent[o], valueOf}
            /\ lastSent' = valueOf \/ valueOf \in IllTyped
        BY <2>3 DEF Send, TypeOK
      <3>1. \A p \in Operations : Updating(p)' <=> Updating(p)
        BY <2>3, <3>0 DEF Updating
      <3>2. valueOf = o \/ o \in overlapped
        BY <2>3 DEF SetDiscipline, NewestIsLast, PointersAlive, OwnAccounts, Updating, TypeOK
      <3>3. LastIsNewest'
        BY <2>0, <3>0 DEF LastIsNewest
      <3>4. OwnAccounts'
        BY <2>0, <2>3, <3>0, <3>1, <3>2 DEF OwnAccounts, Updating
      <3> QED
        BY <3>3, <3>4
    <2> QED
      BY <1>7, <2>1, <2>2, <2>3 DEF Resume
  <1>8. CASE OthersAsk \/ OthersRelease \/ UNCHANGED vars
    BY <1>8 DEF OthersAsk, OthersRelease, vars, sensorVars, sentVars, setVars, LastIsNewest,
       OwnAccounts, Updating
  <1> QED
    BY <1>2, <1>3, <1>4, <1>5, <1>6, <1>7, <1>8 DEF Next, Start, Proceed

LEMMA AccountsHold == Spec => [](LastIsNewest /\ OwnAccounts)
<1>1. Init => LastIsNewest /\ OwnAccounts
  BY DEF Init, LastIsNewest, OwnAccounts, Updating
<1> QED
  BY <1>1, AccountsKept, TypeCorrect, SetsHold, PTL DEF Spec

(* When all sets are over, the value sent last is the one asked for last.  *)
THEOREM SetsConverge == Spec => []LastSetWins
<1>1. SetDiscipline /\ LastIsNewest => LastSetWins
  BY DEF SetDiscipline, NewestIsLast, LastIsNewest, LastSetWins, Updating
<1> QED
  BY <1>1, SetsHold, AccountsHold, PTL

(* A set that meets no other one answers for itself.                       *)
THEOREM AloneIsOwn == Spec => []OwnOutcome
<1>1. OwnAccounts => OwnOutcome
  BY DEF OwnAccounts, OwnOutcome
<1> QED
  BY <1>1, AccountsHold, PTL
=============================================================================
