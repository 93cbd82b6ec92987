----------------------------- MODULE InstanceId -----------------------------
(***************************************************************************)
(* The instance-ID allocator of libnsm (libnsm/instance-id.c), shared by   *)
(* every process that opens the lock database.                             *)
(*                                                                         *)
(* An instance ID of an endpoint is one byte of the database file.  A      *)
(* process claims an ID by taking a shared (F_RDLCK) open-file-description *)
(* lock on its byte and then asking, with F_OFD_GETLK, whether an          *)
(* exclusive lock could be granted: it could exactly when nobody else has  *)
(* a shared lock there.  The two fcntl calls are separate steps, and the   *)
(* other processes run between them.                                       *)
(*                                                                         *)
(* Bytes of different endpoints never interact, so the module models the   *)
(* INST_ID_MAX bytes of one endpoint.                                      *)
(***************************************************************************)
EXTENDS Integers, FiniteSets

CONSTANTS
    Procs,        \* processes (open file descriptions) using the database
    INST_ID_MAX   \* instance IDs per endpoint; 32 in the code

ASSUME ProcsAssumption == IsFiniteSet(Procs)
ASSUME InstIdMaxAssumption == INST_ID_MAX \in Nat /\ INST_ID_MAX >= 2

Ids == 0 .. INST_ID_MAX - 1

VARIABLES
    pc,           \* "idle", or where the process is inside a library call
    cur,          \* l_iid of the running call
    prev,         \* ctx->state[eid].prev
    allocations,  \* ctx->state[eid].allocations, the set bits
    rdlck         \* bytes on which the process has a shared lock

vars == <<pc, cur, prev, allocations, rdlck>>

Init ==
    /\ pc = [p \in Procs |-> "idle"]
    /\ cur = [p \in Procs |-> INST_ID_MAX - 1]
    /\ prev = [p \in Procs |-> INST_ID_MAX - 1]
    /\ allocations = [p \in Procs |-> {}]
    /\ rdlck = [p \in Procs |-> {}]

\* Mutant of iid_next: does not wrap around.
iid_next_unbounded(i) == i + 1

iid_next(i) == (i + 1) % INST_ID_MAX

\* Mutant of CouldPromote: the answer is ignored.
PromoteUnchecked(p, i) == TRUE

(* What F_OFD_GETLK for an exclusive lock answers: no database user ever   *)
(* takes a write lock, so only a shared lock of somebody else conflicts.   *)
CouldPromote(p, i) == \A q \in Procs \ {p} : i \notin rdlck[q]

(***************************************************************************)
(* instance_id_alloc                                                       *)
(***************************************************************************)
StartAlloc(p) ==
    /\ pc[p] = "idle"
    /\ pc' = [pc EXCEPT ![p] = "scan"]
    /\ cur' = [cur EXCEPT ![p] = prev[p]]
    /\ UNCHANGED <<prev, allocations, rdlck>>

\* Mutant of ScanExhausted: waits for the number of IDs instead of prev.
ScanEndMissed(p) ==
    /\ pc[p] = "scan"
    /\ iid_next(cur[p]) = INST_ID_MAX
    /\ pc' = [pc EXCEPT ![p] = "idle"]
    /\ UNCHANGED <<cur, prev, allocations, rdlck>>

\* The scan is back at prev: return -EAGAIN.
ScanExhausted(p) ==
    /\ pc[p] = "scan"
    /\ iid_next(cur[p]) = prev[p]
    /\ pc' = [pc EXCEPT ![p] = "idle"]
    /\ UNCHANGED <<cur, prev, allocations, rdlck>>

\* "Have we already allocated this instance ID?"
SkipOwn(p) ==
    LET i == iid_next(cur[p])
    IN  /\ pc[p] = "scan"
        /\ i # prev[p]
        /\ i \in allocations[p]
        /\ cur' = [cur EXCEPT ![p] = i]
        /\ UNCHANGED <<pc, prev, allocations, rdlck>>

\* Mutant of Reserve: the shared lock is mistaken for the ID.
ReserveIsClaim(p) ==
    LET i == iid_next(cur[p])
    IN  /\ pc[p] = "scan"
        /\ i # prev[p]
        /\ i \notin allocations[p]
        /\ cur' = [cur EXCEPT ![p] = i]
        /\ prev' = [prev EXCEPT ![p] = i]
        /\ rdlck' = [rdlck EXCEPT ![p] = @ \union {i}]
        /\ allocations' = [allocations EXCEPT ![p] = @ \union {i}]
        /\ pc' = [pc EXCEPT ![p] = "idle"]

\* F_OFD_SETLK, F_RDLCK.  Nobody holds a write lock: it is granted.
Reserve(p) ==
    LET i == iid_next(cur[p])
    IN  /\ pc[p] = "scan"
        /\ i # prev[p]
        /\ i \notin allocations[p]
        /\ cur' = [cur EXCEPT ![p] = i]
        /\ rdlck' = [rdlck EXCEPT ![p] = @ \union {i}]
        /\ pc' = [pc EXCEPT ![p] = "test"]
        /\ UNCHANGED <<prev, allocations>>

\* F_OFD_GETLK says F_UNLCK: the ID is ours.
Claim(p) ==
    /\ pc[p] = "test"
    /\ CouldPromote(p, cur[p])
    /\ prev' = [prev EXCEPT ![p] = cur[p]]
    /\ allocations' = [allocations EXCEPT ![p] = @ \union {cur[p]}]
    /\ pc' = [pc EXCEPT ![p] = "idle"]
    /\ UNCHANGED <<cur, rdlck>>

\* F_OFD_GETLK says F_RDLCK: try the next ID.  The shared lock just taken
\* stays, since only instance_id_free unlocks.
TryNext(p) ==
    /\ pc[p] = "test"
    /\ ~CouldPromote(p, cur[p])
    /\ pc' = [pc EXCEPT ![p] = "scan"]
    /\ UNCHANGED <<cur, prev, allocations, rdlck>>

\* fcntl fails: -EAGAIN (EAGAIN, EINTR) or -EPROTO.  A lock already taken stays.
FcntlFails(p) ==
    /\ \/ pc[p] = "test"
       \/ /\ pc[p] = "scan"
          /\ iid_next(cur[p]) # prev[p]
          /\ iid_next(cur[p]) \notin allocations[p]
    /\ pc' = [pc EXCEPT ![p] = "idle"]
    /\ UNCHANGED <<cur, prev, allocations, rdlck>>

(***************************************************************************)
(* instance_id_free: first the byte is unlocked, then the bit is cleared.  *)
(* Freeing an ID whose bit is clear is -EINVAL and changes nothing; so     *)
(* does a failing unlock.                                                  *)
(***************************************************************************)
Unlock(p, i) ==
    /\ pc[p] = "idle"
    /\ i \in allocations[p]
    /\ rdlck' = [rdlck EXCEPT ![p] = @ \ {i}]
    /\ cur' = [cur EXCEPT ![p] = i]
    /\ pc' = [pc EXCEPT ![p] = "unlocked"]
    /\ UNCHANGED <<prev, allocations>>

\* Mutant of ClearBit: the bit stays set.
ClearBitForgotten(p) ==
    /\ pc[p] = "unlocked"
    /\ pc' = [pc EXCEPT ![p] = "idle"]
    /\ UNCHANGED <<cur, prev, allocations, rdlck>>

ClearBit(p) ==
    /\ pc[p] = "unlocked"
    /\ allocations' = [allocations EXCEPT ![p] = @ \ {cur[p]}]
    /\ pc' = [pc EXCEPT ![p] = "idle"]
    /\ UNCHANGED <<cur, prev, rdlck>>

(***************************************************************************)
(* The process ends, at any point, and starts again: closing the           *)
(* descriptor drops its locks, instance_db_init starts with prev = 31.     *)
(***************************************************************************)
Restart(p) ==
    /\ pc' = [pc EXCEPT ![p] = "idle"]
    /\ cur' = [cur EXCEPT ![p] = INST_ID_MAX - 1]
    /\ prev' = [prev EXCEPT ![p] = INST_ID_MAX - 1]
    /\ allocations' = [allocations EXCEPT ![p] = {}]
    /\ rdlck' = [rdlck EXCEPT ![p] = {}]

CallStep(p) ==
    \/ ScanExhausted(p)
    \/ SkipOwn(p)
    \/ Reserve(p)
    \/ Claim(p)
    \/ TryNext(p)
    \/ ClearBit(p)

Next ==
    \E p \in Procs :
        \/ StartAlloc(p)
        \/ CallStep(p)
        \/ FcntlFails(p)
        \/ \E i \in Ids : Unlock(p, i)
        \/ Restart(p)

Spec == Init /\ [][Next]_vars

\* The library calls do not block: a process inside one keeps executing it.
FairSpec == Spec /\ \A p \in Procs : WF_vars(CallStep(p))

-----------------------------------------------------------------------------
TypeOK ==
    /\ pc \in [Procs -> {"idle", "scan", "test", "unlocked"}]
    /\ cur \in [Procs -> Ids]
    /\ prev \in [Procs -> Ids]
    /\ allocations \in [Procs -> SUBSET Ids]
    /\ rdlck \in [Procs -> SUBSET Ids]

(* The IDs a process may stamp on a request: its allocations, without one  *)
(* it has already unlocked on its way out of instance_id_free.             *)
InUse(p) == allocations[p] \ (IF pc[p] = "unlocked" THEN {cur[p]} ELSE {})

(* No two processes use one instance ID of an endpoint at the same time,   *)
(* although claiming is lock-then-ask in two steps and freeing is          *)
(* unlock-then-clear in two more.                                          *)
NoSharedId ==
    \A p, q \in Procs : p # q => InUse(p) \intersect InUse(q) = {}

(* An ID in use is one the process still has its shared lock on; without   *)
(* it another process could claim the same ID.                             *)
InUseIsLocked == \A p \in Procs : InUse(p) \subseteq rdlck[p]

(* A call that is about to report exhaustion has visited every ID but      *)
(* prev, and the process now has a shared lock on each of them, its own    *)
(* or left behind by the scan: a failed scan reserves the whole endpoint.  *)
AboutToReportExhaustion(p) == pc[p] = "scan" /\ iid_next(cur[p]) = prev[p]

FailedScanReservesAll ==
    \A p \in Procs : AboutToReportExhaustion(p) => Ids \ {prev[p]} \subseteq rdlck[p]

(* An allocation never returns the ID the previous one returned, even if   *)
(* it is free again: a late answer to the previous request cannot carry    *)
(* the ID of the next one.                                                 *)
NoImmediateReuse ==
    [][\A p \in Procs : \A i \in allocations'[p] \ allocations[p] : i # prev[p]]_vars

(* The allocator implements the pool of IdPool.                            *)
Pool == INSTANCE IdPool WITH held <- [p \in Procs |-> InUse(p)]

ImplementsPool == Pool!Spec

(* Every library call returns.                                             *)
CallsReturn == \A p \in Procs : pc[p] # "idle" ~> pc[p] = "idle"

(* What nsmd/instance_id.hpp says of next(): -EAGAIN "if there are no      *)
(* available instance IDs".  Weakened to: not while every ID is free.      *)
AgainOnlyWhenSomeInUse ==
    \A p \in Procs :
        AboutToReportExhaustion(p) => \E q \in Procs : allocations[q] # {}
=============================================================================
