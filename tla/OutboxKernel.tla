---------------------------- MODULE OutboxKernel ----------------------------
(***************************************************************************)
(* The asynchronous kernel: outbox events published with the change they   *)
(* announce, graphile-worker pools that dispatch them in three separate    *)
(* transactions, and the registry by which pools recover the jobs of pools *)
(* that are gone (apps/api/src/outbox, db/queue-pools.ts, migration 0003). *)
(*                                                                         *)
(* An action is one committed statement or transaction of one process.     *)
(* A pool dispatches one event at a time, which is the runner's default.   *)
(***************************************************************************)
EXTENDS Naturals, FiniteSets

CONSTANTS
  Events,        \* outbox events; the idempotency key of an event is its own
  Pools,         \* worker processes, each with the pool id it gets when it starts
  MaxAttempts,   \* max_attempts of a job
  MaxLapses,     \* bound: live pools that miss their heartbeats for too long
  MaxEnds,       \* bound: processes that die or are shut down
  MaxFailures,   \* bound: deliveries and transactions that fail
  NoEvent, NoPool

ASSUME KernelAssumption ==
  /\ NoEvent \notin Events /\ NoPool \notin Pools
  /\ MaxAttempts \in Nat \ {0}
  /\ MaxLapses \in Nat /\ MaxEnds \in Nat /\ MaxFailures \in Nat

VARIABLES
  \* outbox_events.state, outbox_effects, outbox.dispatched audit events
  row, effects, audits,
  \* graphile_worker jobs, one per event: present, attempts, locked_by
  jobs, tries, lockedBy,
  \* the dispatcher of a pool: the step it is at and its event
  at, doing,
  \* the processes, and queue_pools
  process, registry,
  \* reclaimStalePools in progress: the ids it selected, and the unlock done
  suspects, unlocked,
  lapses, ends, failures

eventVars    == <<row, effects, audits>>
jobVars      == <<jobs, tries, lockedBy>>
dispatchVars == <<at, doing>>
poolVars     == <<process, registry, suspects, unlocked>>
boundVars    == <<lapses, ends, failures>>
vars == <<eventVars, jobVars, dispatchVars, poolVars, boundVars>>

Rows  == {"none", "pending", "dispatching", "dispatched", "failed"}
Steps == {"idle", "picked", "claimed", "delivered", "failing"}
Processes  == {"new", "up", "stopping", "unlocked", "down"}
Registries == {"never", "fresh", "stale", "released"}

TypeOK ==
  /\ row \in [Events -> Rows]
  /\ effects \subseteq Events
  /\ audits \in [Events -> Nat]
  /\ jobs \subseteq Events
  /\ tries \in [Events -> 0 .. MaxAttempts]
  /\ lockedBy \in [Events -> Pools \union {NoPool}]
  /\ at \in [Pools -> Steps]
  /\ doing \in [Pools -> Events \union {NoEvent}]
  /\ process \in [Pools -> Processes]
  /\ registry \in [Pools -> Registries]
  /\ suspects \in [Pools -> SUBSET Pools]
  /\ unlocked \in [Pools -> BOOLEAN]
  /\ lapses \in 0 .. MaxLapses /\ ends \in 0 .. MaxEnds /\ failures \in 0 .. MaxFailures

Init ==
  /\ row = [e \in Events |-> "none"] /\ effects = {}
  /\ audits = [e \in Events |-> 0]
  /\ jobs = {} /\ tries = [e \in Events |-> 0]
  /\ lockedBy = [e \in Events |-> NoPool]
  /\ at = [p \in Pools |-> "idle"] /\ doing = [p \in Pools |-> NoEvent]
  /\ process = [p \in Pools |-> "new"] /\ registry = [p \in Pools |-> "never"]
  /\ suspects = [p \in Pools |-> {}] /\ unlocked = [p \in Pools |-> FALSE]
  /\ lapses = 0 /\ ends = 0 /\ failures = 0

Alive(p) == process[p] \in {"up", "stopping", "unlocked"}
Fails    == failures < MaxFailures /\ failures' = failures + 1
Ends     == ends < MaxEnds /\ ends' = ends + 1

-----------------------------------------------------------------------------
(* Publication and dispatch.                                               *)

\* PgOutboxPublisher.publish: the row and its job commit with the change.
Publish(e) ==
  /\ row[e] = "none"
  /\ row' = [row EXCEPT ![e] = "pending"]
  /\ jobs' = jobs \union {e}
  /\ UNCHANGED <<effects, audits, tries, lockedBy, dispatchVars, poolVars, boundVars>>

MutantAttemptsLeft(e) == tries[e] <= MaxAttempts
AttemptsLeft(e) == tries[e] < MaxAttempts

\* graphile-worker locks an unlocked job that has attempts left.
LockJob(p, e) ==
  /\ process[p] = "up" /\ at[p] = "idle"
  /\ e \in jobs /\ lockedBy[e] = NoPool /\ AttemptsLeft(e)
  /\ lockedBy' = [lockedBy EXCEPT ![e] = p]
  /\ tries' = [tries EXCEPT ![e] = @ + 1]
  /\ at' = [at EXCEPT ![p] = "picked"]
  /\ doing' = [doing EXCEPT ![p] = e]
  /\ UNCHANGED <<eventVars, jobs, poolVars, boundVars>>

SlotFreed(p) ==
  /\ at' = [at EXCEPT ![p] = "idle"]
  /\ doing' = [doing EXCEPT ![p] = NoEvent]

\* The task returned: the job is deleted, whoever holds its lock by now.
JobCompletes(p) ==
  /\ jobs' = jobs \ {doing[p]}
  /\ lockedBy' = [lockedBy EXCEPT ![doing[p]] = NoPool]
  /\ SlotFreed(p) /\ UNCHANGED tries

\* The task threw: the job is unlocked, if it is still locked by this pool.
JobFails(p) ==
  /\ lockedBy' = [lockedBy EXCEPT ![doing[p]] = IF @ = p THEN NoPool ELSE @]
  /\ SlotFreed(p) /\ UNCHANGED <<jobs, tries>>

\* dispatchOutboxEvent, the claim: any state but dispatched.
MutantClaimed(e) == row[e] \in {"pending", "failed"}
Claimed(e) == row[e] # "dispatched"

Claim(p) ==
  /\ Alive(p) /\ at[p] = "picked" /\ Claimed(doing[p])
  /\ row' = [row EXCEPT ![doing[p]] = "dispatching"]
  /\ at' = [at EXCEPT ![p] = "claimed"]
  /\ UNCHANGED <<effects, audits, jobVars, doing, poolVars, boundVars>>

AlreadyDispatched(p) ==
  /\ Alive(p) /\ at[p] = "picked" /\ ~Claimed(doing[p])
  /\ JobCompletes(p)
  /\ UNCHANGED <<eventVars, poolVars, boundVars>>

\* The pool is shutting down: the event is not delivered.
Abort(p) ==
  /\ process[p] \in {"stopping", "unlocked"} /\ at[p] = "claimed"
  /\ at' = [at EXCEPT ![p] = "failing"]
  /\ UNCHANGED <<eventVars, jobVars, doing, poolVars, boundVars>>

\* OutboxSink.deliver: the effect's primary key is the idempotency key.
Deliver(p) ==
  /\ Alive(p) /\ at[p] = "claimed"
  /\ effects' = effects \union {doing[p]}
  /\ at' = [at EXCEPT ![p] = "delivered"]
  /\ UNCHANGED <<row, audits, jobVars, doing, poolVars, boundVars>>

\* The sink throws, before its effect commits or after.
SinkFails(p) ==
  /\ Alive(p) /\ at[p] = "claimed"
  /\ effects' \in {effects, effects \union {doing[p]}}
  /\ at' = [at EXCEPT ![p] = "failing"]
  /\ Fails
  /\ UNCHANGED <<row, audits, jobVars, doing, poolVars, lapses, ends>>

\* The compare-and-set of both ends of a dispatch.
MutantStillMine(e) == row[e] # "pending"
StillMine(e) == row[e] = "dispatching"

Mark(p) ==
  /\ Alive(p) /\ at[p] = "delivered" /\ StillMine(doing[p])
  /\ row' = [row EXCEPT ![doing[p]] = "dispatched"]
  /\ audits' = [audits EXCEPT ![doing[p]] = @ + 1]
  /\ JobCompletes(p)
  /\ UNCHANGED <<effects, poolVars, boundVars>>

\* The compare-and-set lost: the dispatch counts as done all the same.
MarkLost(p) ==
  /\ Alive(p) /\ at[p] = "delivered" /\ ~StillMine(doing[p])
  /\ JobCompletes(p)
  /\ UNCHANGED <<eventVars, poolVars, boundVars>>

MarkFailed(p) ==
  /\ Alive(p) /\ at[p] = "failing"
  /\ row' = [row EXCEPT ![doing[p]] = IF StillMine(doing[p]) THEN "failed" ELSE @]
  /\ JobFails(p)
  /\ UNCHANGED <<effects, audits, poolVars, boundVars>>

\* A transaction of the dispatch rolls back, and the task throws.
TransactionFails(p) ==
  /\ Alive(p) /\ at[p] \in {"picked", "delivered", "failing"}
  /\ JobFails(p)
  /\ Fails
  /\ UNCHANGED <<eventVars, poolVars, lapses, ends>>

-----------------------------------------------------------------------------
(* Processes and the registry.                                             *)

\* run(): the pool takes jobs from here on, before it is in the registry.
Start(p) ==
  /\ process[p] = "new"
  /\ process' = [process EXCEPT ![p] = "up"]
  /\ UNCHANGED <<eventVars, jobVars, dispatchVars, registry, suspects, unlocked, boundVars>>

Register(p) ==
  /\ process[p] = "up" /\ registry[p] = "never"
  /\ registry' = [registry EXCEPT ![p] = "fresh"]
  /\ UNCHANGED <<eventVars, jobVars, dispatchVars, process, suspects, unlocked, boundVars>>

\* heartbeat: an unreleased row only.
Heartbeat(p) ==
  /\ process[p] = "up" /\ registry[p] = "stale"
  /\ registry' = [registry EXCEPT ![p] = "fresh"]
  /\ UNCHANGED <<eventVars, jobVars, dispatchVars, process, suspects, unlocked, boundVars>>

\* staleAfterMs pass without a heartbeat: the timer is gone, or it is stalled.
Lapse(p) ==
  /\ registry[p] = "fresh"
  /\ IF process[p] = "up" THEN lapses < MaxLapses /\ lapses' = lapses + 1
                          ELSE UNCHANGED lapses
  /\ registry' = [registry EXCEPT ![p] = "stale"]
  /\ UNCHANGED <<eventVars, jobVars, dispatchVars, process, suspects, unlocked, ends, failures>>

SweepEnds(p) ==
  /\ suspects' = [suspects EXCEPT ![p] = {}]
  /\ unlocked' = [unlocked EXCEPT ![p] = FALSE]

Crash(p) ==
  /\ Alive(p)
  /\ process' = [process EXCEPT ![p] = "down"]
  /\ SlotFreed(p) /\ SweepEnds(p)
  /\ Ends
  /\ UNCHANGED <<eventVars, jobVars, registry, lapses, failures>>

\* stop(): no more jobs and no more heartbeats; what is in flight goes on.
Stop(p) ==
  /\ process[p] = "up" /\ registry[p] # "never"
  /\ process' = [process EXCEPT ![p] = "stopping"]
  /\ Ends
  /\ UNCHANGED <<eventVars, jobVars, dispatchVars, registry, suspects, unlocked, lapses, failures>>

\* force_unlock_workers.
MutantForceUnlock(ps) == lockedBy
ForceUnlock(ps) == [e \in Events |-> IF lockedBy[e] \in ps THEN NoPool ELSE lockedBy[e]]

\* release(): unlock first, ...
ReleaseJobs(p) ==
  /\ process[p] = "stopping"
  /\ lockedBy' = ForceUnlock({p})
  /\ process' = [process EXCEPT ![p] = "unlocked"]
  /\ UNCHANGED <<eventVars, jobs, tries, dispatchVars, registry, suspects, unlocked, boundVars>>

\* ... then the registry row; the process exits with what it had in flight.
ReleaseRow(p) ==
  /\ process[p] = "unlocked"
  /\ process' = [process EXCEPT ![p] = "down"]
  /\ registry' = [registry EXCEPT ![p] = "released"]
  /\ SlotFreed(p) /\ SweepEnds(p)
  /\ UNCHANGED <<eventVars, jobVars, boundVars>>

\* reclaimStalePools: three statements, no transaction around them.
MutantIsStale(p) == registry[p] \in {"fresh", "stale"}
IsStale(p) == registry[p] = "stale"

Scan(q) ==
  /\ process[q] = "up" /\ registry[q] # "never" /\ suspects[q] = {}
  /\ suspects' = [suspects EXCEPT ![q] = {p \in Pools \ {q} : IsStale(p)}]
  /\ suspects'[q] # {}
  /\ UNCHANGED <<eventVars, jobVars, dispatchVars, process, registry, unlocked, boundVars>>

UnlockSuspects(q) ==
  /\ Alive(q) /\ suspects[q] # {} /\ ~unlocked[q]
  /\ lockedBy' = ForceUnlock(suspects[q])
  /\ unlocked' = [unlocked EXCEPT ![q] = TRUE]
  /\ UNCHANGED <<eventVars, jobs, tries, dispatchVars, process, registry, suspects, boundVars>>

RetireSuspects(q) ==
  /\ Alive(q) /\ unlocked[q]
  /\ registry' = [p \in Pools |-> IF p \in suspects[q] THEN "released" ELSE registry[p]]
  /\ SweepEnds(q)
  /\ UNCHANGED <<eventVars, jobVars, dispatchVars, process, boundVars>>

-----------------------------------------------------------------------------
Dispatch(p) ==
  \/ Claim(p) \/ AlreadyDispatched(p) \/ Abort(p) \/ Deliver(p) \/ SinkFails(p)
  \/ Mark(p) \/ MarkLost(p) \/ MarkFailed(p) \/ TransactionFails(p)

Lifecycle(p) ==
  \/ Start(p) \/ Register(p) \/ Heartbeat(p) \/ Lapse(p) \/ Crash(p) \/ Stop(p)
  \/ ReleaseJobs(p) \/ ReleaseRow(p)
  \/ Scan(p) \/ UnlockSuspects(p) \/ RetireSuspects(p)

Next ==
  \/ \E e \in Events : Publish(e)
  \/ \E p \in Pools, e \in Events : LockJob(p, e)
  \/ \E p \in Pools : Dispatch(p)
  \/ \E p \in Pools : Lifecycle(p)

Spec == Init /\ [][Next]_vars

\* A process that is up goes on, its timer fires, and time passes for the row
\* of a process that is gone.  Nobody has to die, to lapse or to fail.
Fairness ==
  \A p \in Pools :
    /\ WF_vars(Start(p)) /\ WF_vars(Register(p)) /\ WF_vars(Heartbeat(p))
    /\ WF_vars(~Alive(p) /\ Lapse(p))
    /\ WF_vars(ReleaseJobs(p)) /\ WF_vars(ReleaseRow(p))
    /\ WF_vars(Scan(p)) /\ WF_vars(UnlockSuspects(p)) /\ WF_vars(RetireSuspects(p))
    /\ SF_vars(\E e \in Events : LockJob(p, e))
    /\ WF_vars(Claim(p) \/ AlreadyDispatched(p))
    /\ WF_vars(Deliver(p))
    /\ WF_vars(Mark(p) \/ MarkLost(p))
    /\ WF_vars(MarkFailed(p))

FairSpec == Spec /\ Fairness

-----------------------------------------------------------------------------
(* Properties.                                                             *)

\* An event marked dispatched took effect, and its dispatch was audited once,
\* although several pools may be between its claim and its mark (dispatcher.ts).
DispatchIsRecordedOnce ==
  \A e \in Events : /\ row[e] = "dispatched" => e \in effects
                    /\ audits[e] = IF row[e] = "dispatched" THEN 1 ELSE 0

\* An event whose effect is missing still has its job, so no failure, late
\* answer or lost compare-and-set drops an undelivered event (publisher.ts).
UndeliveredHasJob ==
  \A e \in Events : row[e] # "none" /\ e \notin effects => e \in jobs

\* Every step of a pool is one step of the promise or none: however many pools
\* are between the claim, the delivery and the mark of one event, it stays owed
\* until it takes effect, does so once, and is recorded once (dispatcher.ts).
Promise == INSTANCE DispatchPromise WITH
  announced <- {e \in Events : row[e] # "none"}, owed <- jobs, records <- audits
DispatchesAsPromised == Promise!PromiseSpec

\* As long as live pools beat in time, no two of them work on the same job; a
\* pool that is stopping may finish what another has taken (queue-pools.ts).
LeaseIsExclusive ==
  lapses = 0 =>
    \A p, q \in Pools :
      p # q /\ process[p] = "up" /\ process[q] = "up" /\ doing[p] # NoEvent =>
        doing[p] # doing[q]

\* A released pool holding locks is the state the order of release() exists to
\* prevent: no sweep would look for them.  It does, as long as live pools beat.
ReleasedHoldsNoLock ==
  \A e \in Events : lockedBy[e] \in Pools => registry[lockedBy[e]] # "released"
CleanReleases == lapses = 0 => ReleasedHoldsNoLock

\* A published event takes effect, unless its job runs out of attempts or is
\* locked by a pool that no sweep looks at: one that died before it was
\* registered, or one that was given up for dead and came back.
Exhausted(e) == e \in jobs /\ lockedBy[e] = NoPool /\ ~AttemptsLeft(e)
Overlooked(e) ==
  lockedBy[e] \in Pools /\ ~Alive(lockedBy[e]) /\ registry[lockedBy[e]] \in {"never", "released"}
PublishedTakesEffect ==
  \A e \in Events : row[e] = "pending" ~> e \in effects \/ Exhausted(e) \/ Overlooked(e)
=============================================================================
