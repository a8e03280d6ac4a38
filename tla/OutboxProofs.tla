---------------------------- MODULE OutboxProofs ----------------------------
(***************************************************************************)
(* Proofs about OutboxKernel, for every number of events and pools, every  *)
(* limit on attempts, and without the bounds TLC needs.                    *)
(***************************************************************************)
EXTENDS OutboxKernel, TLAPS

-----------------------------------------------------------------------------
(* Dispatch.  What the properties rest on is the life of one dispatch: a   *)
(* pool works on a published event, and it reaches its mark only with the  *)
(* effect in place; nothing takes an effect away or makes a job again.     *)
SlotOK == \A p \in Pools : at[p] # "idle" => doing[p] \in Events /\ row[doing[p]] # "none"
IdleOK == \A p \in Pools : at[p] = "idle" => doing[p] = NoEvent
JobOK  == \A e \in jobs : row[e] # "none"
DeliveredOK == \A p \in Pools : at[p] = "delivered" => doing[p] \in effects

DispatchInv ==
  /\ TypeOK
  /\ SlotOK /\ IdleOK /\ JobOK /\ DeliveredOK
  /\ DispatchIsRecordedOnce /\ UndeliveredHasJob

LEMMA DispatchInit == Init => DispatchInv
BY KernelAssumption
   DEF Init, DispatchInv, TypeOK, Rows, Steps, Processes, Registries, SlotOK, IdleOK, JobOK,
       DeliveredOK, DispatchIsRecordedOnce, UndeliveredHasJob

LEMMA DispatchKept ==
  ASSUME DispatchInv, NEW p \in Pools, Dispatch(p)
  PROVE  DispatchInv'
<1> USE KernelAssumption
    DEF DispatchInv, TypeOK, Rows, Steps, SlotOK, IdleOK, JobOK, DeliveredOK,
        DispatchIsRecordedOnce, UndeliveredHasJob, eventVars, jobVars, poolVars, boundVars,
        SlotFreed, JobCompletes, JobFails, Claimed, StillMine, Fails
<1>1. CASE Claim(p)
  BY <1>1 DEF Claim
<1>2. CASE AlreadyDispatched(p)
  BY <1>2 DEF AlreadyDispatched
<1>3. CASE Abort(p)
  BY <1>3 DEF Abort
<1>4. CASE Deliver(p)
  BY <1>4 DEF Deliver
<1>5. CASE SinkFails(p)
  BY <1>5 DEF SinkFails
<1>6. CASE Mark(p)
  BY <1>6 DEF Mark
<1>7. CASE MarkLost(p)
  BY <1>7 DEF MarkLost
<1>8. CASE MarkFailed(p)
  BY <1>8 DEF MarkFailed
<1>9. CASE TransactionFails(p)
  BY <1>9 DEF TransactionFails
<1> QED
  BY <1>1, <1>2, <1>3, <1>4, <1>5, <1>6, <1>7, <1>8, <1>9 DEF Dispatch

LEMMA LifecycleKept ==
  ASSUME DispatchInv, NEW p \in Pools, Lifecycle(p)
  PROVE  DispatchInv'
<1> USE KernelAssumption
    DEF DispatchInv, TypeOK, Rows, Steps, Processes, Registries, SlotOK, IdleOK, JobOK,
        DeliveredOK, DispatchIsRecordedOnce, UndeliveredHasJob, eventVars, jobVars,
        dispatchVars, boundVars, SlotFreed, SweepEnds, ForceUnlock, Ends
<1>1. CASE Start(p)
  BY <1>1 DEF Start
<1>2. CASE Register(p)
  BY <1>2 DEF Register
<1>3. CASE Heartbeat(p)
  BY <1>3 DEF Heartbeat
<1>4. CASE Lapse(p)
  BY <1>4 DEF Lapse
<1>5. CASE Crash(p)
  BY <1>5 DEF Crash
<1>6. CASE Stop(p)
  BY <1>6 DEF Stop
<1>7. CASE ReleaseJobs(p)
  BY <1>7 DEF ReleaseJobs
<1>8. CASE ReleaseRow(p)
  BY <1>8 DEF ReleaseRow
<1>9. CASE Scan(p)
  BY <1>9 DEF Scan
<1>10. CASE UnlockSuspects(p)
  BY <1>10 DEF UnlockSuspects
<1>11. CASE RetireSuspects(p)
  BY <1>11 DEF RetireSuspects
<1> QED
  BY <1>1, <1>2, <1>3, <1>4, <1>5, <1>6, <1>7, <1>8, <1>9, <1>10, <1>11 DEF Lifecycle

LEMMA DispatchStep == DispatchInv /\ [Next]_vars => DispatchInv'
<1> SUFFICES ASSUME DispatchInv, [Next]_vars PROVE DispatchInv'
  OBVIOUS
<1> USE KernelAssumption
    DEF DispatchInv, TypeOK, Rows, Steps, SlotOK, IdleOK, JobOK, DeliveredOK,
        DispatchIsRecordedOnce, UndeliveredHasJob, eventVars, jobVars, dispatchVars,
        poolVars, boundVars
<1>1. ASSUME NEW e \in Events, Publish(e) PROVE DispatchInv'
  BY <1>1 DEF Publish
<1>2. ASSUME NEW p \in Pools, NEW e \in Events, LockJob(p, e) PROVE DispatchInv'
  BY <1>2 DEF LockJob, AttemptsLeft
<1>3. CASE UNCHANGED vars
  BY <1>3 DEF vars
<1> HIDE DEF DispatchInv
<1> QED
  BY <1>1, <1>2, <1>3, DispatchKept, LifecycleKept DEF Next

LEMMA DispatchHolds == Spec => []DispatchInv
BY DispatchInit, DispatchStep, PTL DEF Spec

\* Every variable has its type, whatever the number of events and pools.
THEOREM KernelTypeCorrect == Spec => []TypeOK
BY DispatchHolds, PTL DEF DispatchInv

\* A dispatched event took effect and was audited as dispatched once, however
\* many pools dispatched it (dispatcher.ts).
THEOREM RecordedOnce == Spec => []DispatchIsRecordedOnce
BY DispatchHolds, PTL DEF DispatchInv

\* An event that has no effect yet has a job (publisher.ts, dispatcher.ts).
THEOREM NothingIsDropped == Spec => []UndeliveredHasJob
BY DispatchHolds, PTL DEF DispatchInv

-----------------------------------------------------------------------------
(* The promise.  Of the 22 actions four are seen: a publication announces, a *)
(* delivery (or a sink that failed after its commit) takes effect, a mark    *)
(* records, and a job that is done settles; each of them is a stutter when   *)
(* another pool was first.                                                   *)

\* A job is done only when its event has taken effect: the step is a
\* settlement, or nothing if another pool had completed the job.
LEMMA CompletionSettles ==
  ASSUME DispatchInv, NEW p \in Pools, JobCompletes(p), UNCHANGED eventVars,
         at[p] # "idle", doing[p] \in effects
  PROVE  [Promise!PromiseNext]_(Promise!promiseVars)
<1>1. doing[p] \in Events /\ jobs \subseteq Events
  BY DEF DispatchInv, TypeOK, SlotOK
<1>2. CASE doing[p] \in jobs
  <2>1. Promise!Settle(doing[p])
    BY <1>2 DEF Promise!Settle, JobCompletes, eventVars
  <2> QED
    BY <1>1, <2>1 DEF Promise!PromiseNext
<1>3. CASE doing[p] \notin jobs
  BY <1>3 DEF Promise!promiseVars, JobCompletes, eventVars
<1> QED
  BY <1>2, <1>3

\* An effect is new, and its event is owed; or it was there and nothing is seen.
LEMMA DeliveryTakesEffect ==
  ASSUME DispatchInv, NEW p \in Pools, at[p] # "idle",
         effects' \in {effects, effects \union {doing[p]}}, UNCHANGED <<row, audits, jobs>>
  PROVE  [Promise!PromiseNext]_(Promise!promiseVars)
<1>1. doing[p] \in Events /\ row[doing[p]] # "none"
  BY DEF DispatchInv, SlotOK
<1>2. CASE effects' # effects
  <2>1. doing[p] \in jobs \ effects /\ effects' = effects \union {doing[p]}
    BY <1>1, <1>2 DEF DispatchInv, UndeliveredHasJob
  <2>2. Promise!TakeEffect(doing[p])
    BY <2>1 DEF Promise!TakeEffect
  <2> QED
    BY <1>1, <2>2 DEF Promise!PromiseNext
<1>3. CASE effects' = effects
  BY <1>3 DEF Promise!promiseVars
<1> QED
  BY <1>2, <1>3

\* What is announced does not change with the state of a row that has one.
LEMMA StaysAnnounced ==
  ASSUME DispatchInv, NEW p \in Pools, at[p] # "idle",
         NEW s \in Rows \ {"none"}, row' = [row EXCEPT ![doing[p]] = s]
  PROVE  {e \in Events : row'[e] # "none"} = {e \in Events : row[e] # "none"}
BY DEF DispatchInv, TypeOK, SlotOK

LEMMA DispatchKeepsThePromise ==
  ASSUME DispatchInv, NEW p \in Pools, Dispatch(p)
  PROVE  [Promise!PromiseNext]_(Promise!promiseVars)
<1>0. /\ row \in [Events -> Rows]
      /\ audits \in [Events -> Nat]
      /\ at[p] # "idle" => doing[p] \in Events /\ row[doing[p]] # "none"
  BY DEF DispatchInv, TypeOK, SlotOK
<1>1. CASE Claim(p)
  <2>1. {e \in Events : row'[e] # "none"} = {e \in Events : row[e] # "none"}
    BY <1>1, StaysAnnounced DEF Claim, Rows
  <2> QED
    BY <1>1, <2>1 DEF Claim, Promise!promiseVars, jobVars
<1>2. CASE AlreadyDispatched(p)
  <2>1. at[p] # "idle" /\ doing[p] \in effects
    BY <1>0, <1>2 DEF AlreadyDispatched, Claimed, DispatchInv, DispatchIsRecordedOnce
  <2> QED
    BY <1>2, <2>1, CompletionSettles DEF AlreadyDispatched
<1>3. CASE Abort(p)
  BY <1>3 DEF Abort, Promise!promiseVars, eventVars, jobVars
<1>4. CASE Deliver(p)
  BY <1>4, DeliveryTakesEffect DEF Deliver, jobVars
<1>5. CASE SinkFails(p)
  BY <1>5, DeliveryTakesEffect DEF SinkFails, jobVars
<1>6. CASE Mark(p)
  <2>1. at[p] # "idle" /\ doing[p] \in effects /\ row[doing[p]] = "dispatching"
    BY <1>6 DEF Mark, StillMine, DispatchInv, DeliveredOK
  <2>2. {e \in Events : row'[e] # "none"} = {e \in Events : row[e] # "none"}
    BY <1>6, <2>1, StaysAnnounced DEF Mark, Rows
  <2>3. audits[doing[p]] = 0
    BY <1>0, <2>1 DEF DispatchInv, DispatchIsRecordedOnce
  <2>4. audits' = [audits EXCEPT ![doing[p]] = 1]
    BY <1>0, <1>6, <2>1, <2>3 DEF Mark
  <2>5. Promise!Record(doing[p])
    BY <1>6, <2>1, <2>2, <2>3, <2>4 DEF Mark, JobCompletes, Promise!Record
  <2> QED
    BY <1>0, <2>1, <2>5 DEF Promise!PromiseNext
<1>7. CASE MarkLost(p)
  <2>1. at[p] # "idle" /\ doing[p] \in effects
    BY <1>7 DEF MarkLost, DispatchInv, DeliveredOK
  <2> QED
    BY <1>7, <2>1, CompletionSettles DEF MarkLost
<1>8. CASE MarkFailed(p)
  <2>1. {e \in Events : row'[e] # "none"} = {e \in Events : row[e] # "none"}
    BY <1>0, <1>8 DEF MarkFailed, StillMine
  <2> QED
    BY <1>8, <2>1 DEF MarkFailed, JobFails, Promise!promiseVars
<1>9. CASE TransactionFails(p)
  BY <1>9 DEF TransactionFails, JobFails, Promise!promiseVars, eventVars
<1> QED
  BY <1>1, <1>2, <1>3, <1>4, <1>5, <1>6, <1>7, <1>8, <1>9 DEF Dispatch

LEMMA LifecycleIsUnseen ==
  ASSUME NEW p \in Pools, Lifecycle(p)
  PROVE  UNCHANGED Promise!promiseVars
BY DEF Lifecycle, Start, Register, Heartbeat, Lapse, Crash, Stop, ReleaseJobs, ReleaseRow,
       Scan, UnlockSuspects, RetireSuspects, eventVars, jobVars, Promise!promiseVars

LEMMA PromiseStep == DispatchInv /\ [Next]_vars => [Promise!PromiseNext]_(Promise!promiseVars)
<1> SUFFICES ASSUME DispatchInv, [Next]_vars
             PROVE  [Promise!PromiseNext]_(Promise!promiseVars)
  OBVIOUS
<1>1. ASSUME NEW e \in Events, Publish(e)
      PROVE  [Promise!PromiseNext]_(Promise!promiseVars)
  <2>1. {f \in Events : row'[f] # "none"} = {f \in Events : row[f] # "none"} \union {e}
    BY <1>1 DEF Publish, DispatchInv, TypeOK
  <2>2. Promise!Announce(e)
    BY <1>1, <2>1 DEF Publish, Promise!Announce
  <2> QED
    BY <2>2 DEF Promise!PromiseNext
<1>2. ASSUME NEW p \in Pools, NEW e \in Events, LockJob(p, e)
      PROVE  [Promise!PromiseNext]_(Promise!promiseVars)
  BY <1>2 DEF LockJob, eventVars, Promise!promiseVars
<1>3. CASE UNCHANGED vars
  BY <1>3 DEF vars, eventVars, jobVars, Promise!promiseVars
<1> QED
  BY <1>1, <1>2, <1>3, DispatchKeepsThePromise, LifecycleIsUnseen DEF Next

\* The dispatchers, in three transactions with other pools and crashes between
\* them, keep the promise of the outbox (dispatcher.ts, publisher.ts).
THEOREM DispatchersKeepThePromise == Spec => DispatchesAsPromised
<1>1. Init => Promise!PromiseInit
  BY DEF Init, Promise!PromiseInit
<1> QED
  BY <1>1, PromiseStep, DispatchHolds, PTL
     DEF Spec, DispatchesAsPromised, Promise!PromiseSpec

-----------------------------------------------------------------------------
(* Leases.  As long as no live pool lapses, the registry is right about    *)
(* who is up: a stale, suspected or released pool is not, so no lock that  *)
(* is taken from a pool is one that a live pool relies on, and no pool     *)
(* whose row is released can take another.                                 *)
RegistryOK ==
  \A p \in Pools :
    /\ process[p] = "new" => registry[p] = "never" /\ doing[p] = NoEvent
    /\ registry[p] \in {"stale", "released"} => process[p] # "up"
SuspectsOK == \A q \in Pools : \A p \in suspects[q] : process[p] \notin {"new", "up"}
LockersOK ==
  /\ \A e \in Events : lockedBy[e] \in Pools => process[lockedBy[e]] \notin {"new", "unlocked"}
  /\ \A q \in Pools : unlocked[q] => /\ suspects[q] # {}
                                   /\ \A e \in Events : lockedBy[e] \notin suspects[q]
LeaseHeld ==
  \A p \in Pools : process[p] = "up" /\ doing[p] \in jobs => lockedBy[doing[p]] = p

LeaseInv ==
  lapses = 0 =>
    RegistryOK /\ SuspectsOK /\ LockersOK /\ LeaseHeld /\ ReleasedHoldsNoLock
      /\ LeaseIsExclusive

LEMMA LeaseInit == Init => LeaseInv
BY KernelAssumption
   DEF Init, LeaseInv, RegistryOK, SuspectsOK, LockersOK, LeaseHeld, ReleasedHoldsNoLock,
       LeaseIsExclusive

LEMMA LeaseDispatchKept ==
  ASSUME DispatchInv, LeaseInv, NEW p \in Pools, Dispatch(p), lapses = 0
  PROVE  LeaseInv'
<1> USE KernelAssumption
    DEF DispatchInv, TypeOK, SlotOK, IdleOK, LeaseInv, RegistryOK, SuspectsOK, LockersOK, LeaseHeld,
        ReleasedHoldsNoLock, LeaseIsExclusive,
        eventVars, jobVars, poolVars, boundVars, SlotFreed, JobCompletes, JobFails
<1>1. CASE Claim(p)
  BY <1>1 DEF Claim
<1>2. CASE AlreadyDispatched(p)
  BY <1>2 DEF AlreadyDispatched
<1>3. CASE Abort(p)
  BY <1>3 DEF Abort
<1>4. CASE Deliver(p)
  BY <1>4 DEF Deliver
<1>5. CASE SinkFails(p)
  BY <1>5 DEF SinkFails
<1>6. CASE Mark(p)
  BY <1>6 DEF Mark
<1>7. CASE MarkLost(p)
  BY <1>7 DEF MarkLost
<1>8. CASE MarkFailed(p)
  BY <1>8 DEF MarkFailed
<1>9. CASE TransactionFails(p)
  BY <1>9 DEF TransactionFails
<1> QED
  BY <1>1, <1>2, <1>3, <1>4, <1>5, <1>6, <1>7, <1>8, <1>9 DEF Dispatch

LEMMA LeaseLifecycleKept ==
  ASSUME DispatchInv, LeaseInv, NEW p \in Pools, Lifecycle(p), lapses = 0
  PROVE  LeaseInv'
<1> USE KernelAssumption
    DEF DispatchInv, TypeOK, Processes, Registries, SlotOK, IdleOK, LeaseInv, RegistryOK, SuspectsOK, LockersOK, LeaseHeld,
        ReleasedHoldsNoLock, LeaseIsExclusive,
        eventVars, jobVars, dispatchVars, boundVars, SlotFreed, SweepEnds, ForceUnlock
<1>1. CASE Start(p)
  BY <1>1 DEF Start
<1>2. CASE Register(p)
  BY <1>2 DEF Register
<1>3. CASE Heartbeat(p)
  BY <1>3 DEF Heartbeat
<1>4. CASE Lapse(p)
  BY <1>4 DEF Lapse
<1>5. CASE Crash(p)
  BY <1>5 DEF Crash
<1>6. CASE Stop(p)
  BY <1>6 DEF Stop
<1>7. CASE ReleaseJobs(p)
  BY <1>7 DEF ReleaseJobs
<1>8. CASE ReleaseRow(p)
  BY <1>8 DEF ReleaseRow
<1>9. CASE Scan(p)
  BY <1>9 DEF Scan, IsStale
<1>10. CASE UnlockSuspects(p)
  BY <1>10 DEF UnlockSuspects
<1>11. CASE RetireSuspects(p)
  BY <1>11 DEF RetireSuspects
<1> QED
  BY <1>1, <1>2, <1>3, <1>4, <1>5, <1>6, <1>7, <1>8, <1>9, <1>10, <1>11 DEF Lifecycle

LEMMA LapsesStay == DispatchInv /\ [Next]_vars /\ lapses' = 0 => lapses = 0
<1> SUFFICES ASSUME DispatchInv, [Next]_vars, lapses' = 0 PROVE lapses = 0
  OBVIOUS
<1>0. lapses \in Nat
  BY KernelAssumption DEF DispatchInv, TypeOK
<1> USE <1>0 DEF boundVars
<1>1. ASSUME NEW e \in Events, Publish(e) PROVE lapses = 0
  BY <1>1 DEF Publish
<1>2. ASSUME NEW p \in Pools, NEW e \in Events, LockJob(p, e) PROVE lapses = 0
  BY <1>2 DEF LockJob
<1>3. ASSUME NEW p \in Pools, Dispatch(p) PROVE lapses = 0
  BY <1>3 DEF Dispatch, Claim, AlreadyDispatched, Abort, Deliver, SinkFails, Mark, MarkLost,
              MarkFailed, TransactionFails
<1>4. ASSUME NEW p \in Pools, Lifecycle(p) PROVE lapses = 0
  BY <1>4 DEF Lifecycle, Start, Register, Heartbeat, Lapse, Crash, Stop, ReleaseJobs,
              ReleaseRow, Scan, UnlockSuspects, RetireSuspects
<1>5. CASE UNCHANGED vars
  BY <1>5 DEF vars
<1> QED
  BY <1>1, <1>2, <1>3, <1>4, <1>5 DEF Next

LEMMA LeaseStep == DispatchInv /\ LeaseInv /\ [Next]_vars => LeaseInv'
<1> SUFFICES ASSUME DispatchInv, LeaseInv, [Next]_vars, lapses' = 0 PROVE LeaseInv'
  BY DEF LeaseInv
<1>0. lapses = 0
  BY LapsesStay
<1> USE KernelAssumption, <1>0
    DEF LeaseInv, RegistryOK, SuspectsOK, LockersOK, LeaseHeld,
        ReleasedHoldsNoLock, LeaseIsExclusive,
        eventVars, jobVars, dispatchVars, poolVars, boundVars
<1>1. ASSUME NEW e \in Events, Publish(e) PROVE LeaseInv'
  BY <1>1 DEF Publish, DispatchInv, TypeOK, SlotOK, IdleOK
<1>2. ASSUME NEW p \in Pools, NEW e \in Events, LockJob(p, e) PROVE LeaseInv'
  BY <1>2 DEF LockJob, DispatchInv, TypeOK, IdleOK
<1>3. CASE UNCHANGED vars
  BY <1>3 DEF vars
<1> HIDE DEF LeaseInv
<1> QED
  BY <1>1, <1>2, <1>3, LeaseDispatchKept, LeaseLifecycleKept DEF Next

LEMMA LeaseHolds == Spec => []LeaseInv
<1>1. DispatchInv /\ LeaseInv /\ [Next]_vars => LeaseInv'
  BY LeaseStep
<1> QED
  BY LeaseInit, <1>1, DispatchHolds, PTL DEF Spec

\* While live pools beat in time, no two of them work on one job, whatever the
\* crashes, the shutdowns and the sweeps of others (queue-pools.ts).
THEOREM LeaseExclusive == Spec => []LeaseIsExclusive
<1>1. LeaseInv => LeaseIsExclusive
  BY DEF LeaseInv, LeaseIsExclusive
<1> QED
  BY LeaseHolds, <1>1, PTL

\* While live pools beat in time, no released pool holds a lock, so nothing is
\* out of the sweeps' reach (queue-pools.ts).
THEOREM ReleasesClean == Spec => []CleanReleases
<1>1. LeaseInv => CleanReleases
  BY DEF LeaseInv, CleanReleases
<1> QED
  BY LeaseHolds, <1>1, PTL
=============================================================================
