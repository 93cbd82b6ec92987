-------------------------- MODULE InstanceId_proofs --------------------------
(***************************************************************************)
(* Proofs about InstanceId, for any number of processes and any            *)
(* INST_ID_MAX >= 2.                                                       *)
(***************************************************************************)
EXTENDS InstanceId, TLAPS

(* The next ID in scanning order is an ID.                                 *)
LEMMA NextIsId == ASSUME NEW i \in Ids PROVE iid_next(i) \in Ids
  BY InstIdMaxAssumption DEF Ids, iid_next

(* Every variable keeps its type.                                          *)
THEOREM TypeCorrect == Spec => []TypeOK
<1>1. Init => TypeOK
  BY InstIdMaxAssumption DEF Init, TypeOK, Ids
<1>2. TypeOK /\ [Next]_vars => TypeOK'
  <2> SUFFICES ASSUME TypeOK, [Next]_vars PROVE TypeOK'
    OBVIOUS
  <2> USE DEF TypeOK
  <2>0. INST_ID_MAX - 1 \in Ids
    BY InstIdMaxAssumption DEF Ids
  <2>1. ASSUME NEW p \in Procs, StartAlloc(p) PROVE TypeOK'
    BY <2>1 DEF StartAlloc
  <2>2. ASSUME NEW p \in Procs, CallStep(p) PROVE TypeOK'
    <3>1. CASE ScanExhausted(p)
      BY <3>1 DEF ScanExhausted
    <3>2. CASE SkipOwn(p)
      BY <3>2, NextIsId DEF SkipOwn
    <3>3. CASE Reserve(p)
      BY <3>3, NextIsId DEF Reserve
    <3>4. CASE Claim(p)
      BY <3>4 DEF Claim
    <3>5. CASE TryNext(p)
      BY <3>5 DEF TryNext
    <3>6. CASE ClearBit(p)
      BY <3>6 DEF ClearBit
    <3> QED
      BY <2>2, <3>1, <3>2, <3>3, <3>4, <3>5, <3>6 DEF CallStep
  <2>3. ASSUME NEW p \in Procs, FcntlFails(p) PROVE TypeOK'
    BY <2>3 DEF FcntlFails
  <2>4. ASSUME NEW p \in Procs, NEW i \in Ids, Unlock(p, i) PROVE TypeOK'
    BY <2>4 DEF Unlock
  <2>5. ASSUME NEW p \in Procs, Restart(p) PROVE TypeOK'
    BY <2>5, <2>0 DEF Restart
  <2>6. CASE UNCHANGED vars
    BY <2>6 DEF vars
  <2> QED
    BY <2>1, <2>2, <2>3, <2>4, <2>5, <2>6 DEF Next
<1> QED
  BY <1>1, <1>2, PTL DEF Spec

-----------------------------------------------------------------------------
(* The inductive invariant: what is in use is locked, a process about to   *)
(* ask about an ID holds its lock and has not allocated it, and an ID on   *)
(* its way out of instance_id_free is still recorded as allocated.         *)
LockDiscipline ==
    /\ InUseIsLocked
    /\ \A p \in Procs : pc[p] = "test" => cur[p] \in rdlck[p] /\ cur[p] \notin allocations[p]
    /\ NoSharedId

(* One process changes its entries, the others keep theirs.                *)
LEMMA OthersKeep ==
    ASSUME NEW p \in Procs, NEW q \in Procs \ {p}, TypeOK,
           \/ StartAlloc(p)
           \/ CallStep(p)
           \/ FcntlFails(p)
           \/ \E i \in Ids : Unlock(p, i)
           \/ Restart(p)
    PROVE  /\ pc'[q] = pc[q] /\ cur'[q] = cur[q] /\ rdlck'[q] = rdlck[q]
           /\ allocations'[q] = allocations[q] /\ prev'[q] = prev[q]
           /\ InUse(q)' = InUse(q)
  BY DEF StartAlloc, CallStep, ScanExhausted, SkipOwn, Reserve, Claim, TryNext, ClearBit,
         FcntlFails, Unlock, Restart, TypeOK, InUse

(* What a step of p does to the IDs p uses: a claim adds an ID nobody has  *)
(* a lock on, every other step keeps or drops IDs.                         *)
LEMMA OwnUse ==
    ASSUME NEW p \in Procs, TypeOK, LockDiscipline,
           \/ StartAlloc(p)
           \/ CallStep(p)
           \/ FcntlFails(p)
           \/ \E i \in Ids : Unlock(p, i)
           \/ Restart(p)
    PROVE  /\ InUse(p)' \subseteq rdlck'[p]
           /\ pc'[p] = "test" => cur'[p] \in rdlck'[p] /\ cur'[p] \notin allocations'[p]
           /\ \/ /\ CouldPromote(p, cur[p])
                 /\ cur[p] \in Ids
                 /\ InUse(p)' = InUse(p) \union {cur[p]}
              \/ InUse(p)' \subseteq InUse(p)
  <1> USE DEF TypeOK, InUse
  <1>0. /\ allocations[p] \subseteq Ids /\ rdlck[p] \subseteq Ids
        /\ InUse(p) \subseteq rdlck[p]
        /\ pc[p] = "test" => cur[p] \in rdlck[p] /\ cur[p] \notin allocations[p]
    BY DEF LockDiscipline, InUseIsLocked
  <1>1. CASE StartAlloc(p)
    BY <1>0, <1>1 DEF StartAlloc
  <1>2. CASE ScanExhausted(p)
    BY <1>0, <1>2 DEF ScanExhausted
  <1>3. CASE SkipOwn(p)
    BY <1>0, <1>3 DEF SkipOwn
  <1>4. CASE Reserve(p)
    BY <1>0, <1>4 DEF Reserve
  <1>5. CASE Claim(p)
    BY <1>0, <1>5 DEF Claim
  <1>6. CASE TryNext(p)
    BY <1>0, <1>6 DEF TryNext
  <1>7. CASE ClearBit(p)
    BY <1>0, <1>7 DEF ClearBit
  <1>8. CASE FcntlFails(p)
    BY <1>0, <1>8 DEF FcntlFails
  <1>9. CASE \E i \in Ids : Unlock(p, i)
    BY <1>0, <1>9 DEF Unlock
  <1>10. CASE Restart(p)
    BY <1>0, <1>10 DEF Restart
  <1> QED
    BY <1>1, <1>2, <1>3, <1>4, <1>5, <1>6, <1>7, <1>8, <1>9, <1>10 DEF CallStep

(* A step keeps the lock discipline.                                       *)
LEMMA LockDisciplineStep ==
    ASSUME TypeOK, LockDiscipline, [Next]_vars PROVE LockDiscipline'
  <1>1. CASE UNCHANGED vars
    BY <1>1 DEF vars, LockDiscipline, InUseIsLocked, NoSharedId, InUse
  <1>2. ASSUME NEW p \in Procs,
               \/ StartAlloc(p)
               \/ CallStep(p)
               \/ FcntlFails(p)
               \/ \E i \in Ids : Unlock(p, i)
               \/ Restart(p)
        PROVE  LockDiscipline'
    <2>1. \A q \in Procs \ {p} :
            /\ pc'[q] = pc[q] /\ cur'[q] = cur[q] /\ rdlck'[q] = rdlck[q]
            /\ allocations'[q] = allocations[q]
            /\ InUse(q)' = InUse(q)
      BY <1>2, OthersKeep
    <2>2. /\ InUse(p)' \subseteq rdlck'[p]
          /\ pc'[p] = "test" => cur'[p] \in rdlck'[p] /\ cur'[p] \notin allocations'[p]
          /\ \/ /\ CouldPromote(p, cur[p])
                /\ InUse(p)' = InUse(p) \union {cur[p]}
             \/ InUse(p)' \subseteq InUse(p)
      BY <1>2, OwnUse
    <2>3. InUseIsLocked'
      BY <2>1, <2>2 DEF LockDiscipline, InUseIsLocked
    <2>4. \A q \in Procs \ {p} : InUse(p)' \intersect InUse(q)' = {}
      BY <2>1, <2>2 DEF LockDiscipline, InUseIsLocked, NoSharedId, CouldPromote
    <2>5. NoSharedId'
      BY <2>1, <2>4 DEF LockDiscipline, NoSharedId
    <2> QED
      BY <2>1, <2>2, <2>3, <2>5 DEF LockDiscipline
  <1> QED
    BY <1>1, <1>2 DEF Next

LEMMA LockDisciplineHolds == Spec => []LockDiscipline
<1>1. Init => LockDiscipline
  BY DEF Init, LockDiscipline, InUseIsLocked, NoSharedId, InUse
<1>2. TypeOK /\ LockDiscipline /\ [Next]_vars => LockDiscipline'
  BY LockDisciplineStep
<1> QED
  BY <1>1, <1>2, TypeCorrect, PTL DEF Spec

(* No two processes ever use the same instance ID of an endpoint.          *)
THEOREM MutualExclusion == Spec => []NoSharedId
<1>1. LockDiscipline => NoSharedId
  BY DEF LockDiscipline
<1> QED
  BY <1>1, LockDisciplineHolds, PTL

(* What a process uses it has locked.                                      *)
THEOREM UseIsLocked == Spec => []InUseIsLocked
<1>1. LockDiscipline => InUseIsLocked
  BY DEF LockDiscipline
<1> QED
  BY <1>1, LockDisciplineHolds, PTL

-----------------------------------------------------------------------------
(* Between the two fcntl calls the scan is not at prev.                    *)
ScanOffPrev == \A p \in Procs : pc[p] = "test" => cur[p] # prev[p]

LEMMA ScanOffPrevHolds == Spec => []ScanOffPrev
<1>1. Init => ScanOffPrev
  BY DEF Init, ScanOffPrev
<1>2. TypeOK /\ ScanOffPrev /\ [Next]_vars => ScanOffPrev'
  BY DEF TypeOK, ScanOffPrev, Next, vars, StartAlloc, CallStep, ScanExhausted, SkipOwn, Reserve,
         Claim, TryNext, ClearBit, FcntlFails, Unlock, Restart
<1> QED
  BY <1>1, <1>2, TypeCorrect, PTL DEF Spec

(* The ID of an allocation differs from the ID of the one before it.       *)
THEOREM SuccessiveIdsDiffer == Spec => NoImmediateReuse
<1>1. TypeOK /\ ScanOffPrev /\ [Next]_vars
        => [\A p \in Procs : \A i \in allocations'[p] \ allocations[p] : i # prev[p]]_vars
  BY DEF TypeOK, ScanOffPrev, Next, vars, StartAlloc, CallStep, ScanExhausted, SkipOwn, Reserve,
         Claim, TryNext, ClearBit, FcntlFails, Unlock, Restart
<1> QED
  BY <1>1, TypeCorrect, ScanOffPrevHolds, PTL DEF Spec, NoImmediateReuse

-----------------------------------------------------------------------------
(* Every behaviour of the allocator is one of the pool.                    *)
THEOREM PoolRefinement == Spec => ImplementsPool
<1> DEFINE held == [p \in Procs |-> InUse(p)]
<1>1. Init => Pool!Init
  BY DEF Init, Pool!Init, InUse
<1>2. TypeOK /\ LockDiscipline /\ [Next]_vars => [Pool!Next]_held
  <2> SUFFICES ASSUME TypeOK, LockDiscipline, [Next]_vars PROVE [Pool!Next]_held
    OBVIOUS
  <2>1. CASE UNCHANGED vars
    BY <2>1 DEF vars, InUse
  <2>2. ASSUME NEW p \in Procs,
               \/ StartAlloc(p)
               \/ CallStep(p)
               \/ FcntlFails(p)
               \/ \E i \in Ids : Unlock(p, i)
               \/ Restart(p)
        PROVE  Pool!Next
    <3>1. \A q \in Procs \ {p} : InUse(q)' = InUse(q)
      BY <2>2, OthersKeep
    <3>2. \/ /\ CouldPromote(p, cur[p])
             /\ cur[p] \in Ids
             /\ InUse(p)' = InUse(p) \union {cur[p]}
          \/ InUse(p)' \subseteq InUse(p)
      BY <2>2, OwnUse
    <3>3. \A q \in Procs : InUse(q) \subseteq Ids
      BY DEF TypeOK, InUse
    <3>4. held' = [held EXCEPT ![p] = InUse(p)']
      BY <3>1
    <3>5. CASE /\ CouldPromote(p, cur[p])
               /\ cur[p] \in Ids
               /\ InUse(p)' = InUse(p) \union {cur[p]}
               /\ cur[p] \notin InUse(p)
      <4>1. \A q \in Procs : cur[p] \notin held[q]
        BY <3>5 DEF CouldPromote, LockDiscipline, InUseIsLocked
      <4>2. held' = [held EXCEPT ![p] = @ \union {cur[p]}]
        BY <3>4, <3>5
      <4>3. Pool!Take(p, cur[p])
        BY <4>1, <4>2 DEF Pool!Take
      <4> QED
        BY <3>5, <4>3 DEF Pool!Next
    <3>6. CASE InUse(p)' \subseteq InUse(p)
      <4> DEFINE S == InUse(p) \ InUse(p)'
      <4>1. S \in SUBSET Ids /\ S \subseteq held[p]
        BY <3>3
      <4>2. held' = [held EXCEPT ![p] = @ \ S]
        BY <3>4, <3>6
      <4>3. Pool!Drop(p, S)
        BY <4>1, <4>2 DEF Pool!Drop
      <4> QED
        BY <4>1, <4>3 DEF Pool!Next
    <3> QED
      BY <3>2, <3>5, <3>6
  <2> QED
    BY <2>1, <2>2 DEF Next
<1> QED
  BY <1>1, <1>2, TypeCorrect, LockDisciplineHolds, PTL DEF Spec, ImplementsPool, Pool!Spec

-----------------------------------------------------------------------------
(* The scan of instance_id_alloc.                                          *)

(* The IDs after a, up to and including c, around the end of the IDs.      *)
Visited(a, c) ==
    {i \in Ids : IF a <= c THEN a < i /\ i <= c ELSE a < i \/ i <= c}

LEMMA NextCases ==
    ASSUME NEW c \in Ids
    PROVE  iid_next(c) = IF c = INST_ID_MAX - 1 THEN 0 ELSE c + 1
<1>1. INST_ID_MAX \in Nat /\ INST_ID_MAX >= 2 /\ c \in 0 .. INST_ID_MAX - 1
  BY InstIdMaxAssumption DEF Ids
<1>2. CASE c = INST_ID_MAX - 1
  BY <1>1, <1>2 DEF iid_next
<1>3. CASE c # INST_ID_MAX - 1
  BY <1>1, <1>3 DEF iid_next
<1> QED
  BY <1>2, <1>3

(* A step of the scan visits one more ID.                                  *)
LEMMA VisitNext ==
    ASSUME NEW a \in Ids, NEW c \in Ids, iid_next(c) # a
    PROVE  Visited(a, iid_next(c)) = Visited(a, c) \union {iid_next(c)}
<1>1. INST_ID_MAX \in Nat /\ a \in 0 .. INST_ID_MAX - 1 /\ c \in 0 .. INST_ID_MAX - 1
  BY InstIdMaxAssumption DEF Ids
<1>2. CASE c = INST_ID_MAX - 1
  BY <1>1, <1>2, NextCases, NextIsId DEF Visited, Ids
<1>3. CASE c # INST_ID_MAX - 1
  BY <1>1, <1>3, NextCases, NextIsId DEF Visited, Ids
<1> QED
  BY <1>2, <1>3

(* Back at its start, the scan has visited every other ID.                 *)
LEMMA VisitedAll ==
    ASSUME NEW a \in Ids, NEW c \in Ids, iid_next(c) = a
    PROVE  Visited(a, c) = Ids \ {a}
<1>1. INST_ID_MAX \in Nat /\ INST_ID_MAX >= 2 /\ a \in 0 .. INST_ID_MAX - 1
      /\ c \in 0 .. INST_ID_MAX - 1
  BY InstIdMaxAssumption DEF Ids
<1>2. CASE c = INST_ID_MAX - 1
  BY <1>1, <1>2, NextCases DEF Visited, Ids
<1>3. CASE c # INST_ID_MAX - 1
  BY <1>1, <1>3, NextCases DEF Visited, Ids
<1> QED
  BY <1>2, <1>3

(* A scan that goes on has a shared lock on every ID it has visited.       *)
ScanLocks ==
    \A p \in Procs : pc[p] \in {"scan", "test"} => Visited(prev[p], cur[p]) \subseteq rdlck[p]

LEMMA ScanLocksStep ==
    ASSUME TypeOK, LockDiscipline, ScanLocks, [Next]_vars PROVE ScanLocks'
<1>1. CASE UNCHANGED vars
  BY <1>1 DEF vars, ScanLocks
<1>2. ASSUME NEW p \in Procs,
             \/ StartAlloc(p)
             \/ CallStep(p)
             \/ FcntlFails(p)
             \/ \E i \in Ids : Unlock(p, i)
             \/ Restart(p)
      PROVE  ScanLocks'
  <2>1. \A q \in Procs \ {p} :
           pc'[q] = pc[q] /\ cur'[q] = cur[q] /\ prev'[q] = prev[q] /\ rdlck'[q] = rdlck[q]
    BY <1>2, OthersKeep
  <2>2. SUFFICES pc'[p] \in {"scan", "test"} => Visited(prev'[p], cur'[p]) \subseteq rdlck'[p]
    BY <2>1 DEF ScanLocks
  <2>3. /\ pc \in [Procs -> {"idle", "scan", "test", "unlocked"}]
        /\ prev \in [Procs -> Ids] /\ cur \in [Procs -> Ids]
        /\ rdlck \in [Procs -> SUBSET Ids] /\ allocations \in [Procs -> SUBSET Ids]
    BY DEF TypeOK
  <2>4. CASE StartAlloc(p)
    <3>1. cur'[p] = prev[p] /\ prev'[p] = prev[p]
      BY <2>3, <2>4 DEF StartAlloc
    <3>2. prev[p] \in 0 .. INST_ID_MAX - 1
      BY <2>3 DEF Ids
    <3>3. Visited(prev[p], prev[p]) = {}
      BY <3>2, InstIdMaxAssumption DEF Visited, Ids
    <3> QED
      BY <3>1, <3>3
  <2>5. CASE SkipOwn(p) \/ Reserve(p)
    <3> DEFINE i == iid_next(cur[p])
    <3>1. /\ pc[p] = "scan" /\ i # prev[p]
          /\ cur' = [cur EXCEPT ![p] = i] /\ prev' = prev
      BY <2>5 DEF SkipOwn, Reserve
    <3>2. rdlck[p] \subseteq rdlck'[p] /\ i \in rdlck'[p]
      <4>1. CASE SkipOwn(p)
        <5>1. i \in allocations[p] /\ rdlck' = rdlck
          BY <4>1 DEF SkipOwn
        <5>2. i \in InUse(p)
          BY <3>1, <5>1 DEF InUse
        <5> QED
          BY <5>1, <5>2 DEF LockDiscipline, InUseIsLocked
      <4>2. CASE Reserve(p)
        <5>1. rdlck' = [rdlck EXCEPT ![p] = rdlck[p] \union {i}]
          BY <4>2 DEF Reserve
        <5> QED
          BY <2>3, <5>1
      <4> QED
        BY <2>5, <4>1, <4>2
    <3>3. cur'[p] = i /\ prev'[p] = prev[p]
      BY <2>3, <3>1
    <3>4. Visited(prev[p], i) = Visited(prev[p], cur[p]) \union {i}
      BY <2>3, <3>1, VisitNext
    <3>5. Visited(prev[p], cur[p]) \subseteq rdlck[p]
      BY <3>1 DEF ScanLocks
    <3> QED
      BY <3>2, <3>3, <3>4, <3>5
  <2>6. CASE TryNext(p)
    <3>1. pc[p] = "test" /\ UNCHANGED <<cur, prev, rdlck>>
      BY <2>6 DEF TryNext
    <3> QED
      BY <3>1 DEF ScanLocks
  <2>7. CASE \/ ScanExhausted(p) \/ Claim(p) \/ ClearBit(p) \/ FcntlFails(p) \/ Restart(p)
             \/ \E i \in Ids : Unlock(p, i)
    <3>1. pc' = [pc EXCEPT ![p] = "idle"] \/ pc' = [pc EXCEPT ![p] = "unlocked"]
      BY <2>7 DEF ScanExhausted, Claim, ClearBit, FcntlFails, Restart, Unlock
    <3> QED
      BY <2>3, <3>1
  <2> QED
    BY <1>2, <2>4, <2>5, <2>6, <2>7 DEF CallStep
<1> QED
  BY <1>1, <1>2 DEF Next

(* An allocation that fails for want of an ID leaves the process with a    *)
(* shared lock on every ID of the endpoint but prev: whoever shares the    *)
(* database finds no ID there until this process ends.                     *)
THEOREM FailedScanKeepsAll == Spec => []FailedScanReservesAll
<1>1. Init => ScanLocks
  BY DEF Init, ScanLocks
<1>2. TypeOK /\ LockDiscipline /\ ScanLocks /\ [Next]_vars => ScanLocks'
  BY ScanLocksStep
<1>3. TypeOK /\ ScanLocks => FailedScanReservesAll
  <2> SUFFICES ASSUME TypeOK, ScanLocks, NEW p \in Procs, AboutToReportExhaustion(p)
               PROVE  Ids \ {prev[p]} \subseteq rdlck[p]
    BY DEF FailedScanReservesAll
  <2>1. prev[p] \in Ids /\ cur[p] \in Ids
    BY DEF TypeOK
  <2>2. pc[p] = "scan" /\ iid_next(cur[p]) = prev[p]
    BY DEF AboutToReportExhaustion
  <2> QED
    BY <2>1, <2>2, VisitedAll DEF ScanLocks
<1> QED
  BY <1>1, <1>2, <1>3, TypeCorrect, LockDisciplineHolds, PTL DEF Spec
=============================================================================
