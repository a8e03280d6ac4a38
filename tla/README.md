# SchedulePoint: a formal model

TLA+ models of SchedulePoint's core logic, model-checked with TLC on small
instances and proved with TLAPS for every instance. Paths are relative to
`src/apps/api/src` unless they start with `src/`, `docs/`, `packages/` or
`migrations/` (the last is `src/apps/api/migrations`).

SchedulePoint schedules the shifts of medical groups. Its API (TypeScript,
PostgreSQL) keeps members, rules, requests and schedule versions; a scheduler
configures a *build* of a schedule period, a queue worker sends the period's
canonical input to a CP-SAT process, and the candidate that comes back is
reviewed, approved and applied to a draft schedule that is later published.
Every mutation writes an audit chain and, through an outbox, asynchronous work.

## 1. Inventory

### How everything runs

* **Unit of work** (`db/unit-of-work.ts`). Every operation runs in one READ
  COMMITTED transaction with the tenant's context set and read back; nested
  units are savepoints. *Hard:* an effect that is not in the database (a file, a
  subprocess) survives the rollback; what was read may change before the write.
* **Queue** (graphile-worker in the same database; external). A job is enqueued
  in the caller's transaction, delivered at least once, locked by a *pool*,
  retried with backoff up to `max_attempts`, completed when its task returns.

### Components

| component | state | operations | interacts with | what is hard | what makes it correct |
|---|---|---|---|---|---|
| build lifecycle (`builds/service, runner, claim, capacity, queue, queue-runner, reaper`; migrations 0018-0020) | `build_runs` (state, epoch, heartbeat, root, attempt, snapshot, reason), `build_run_results`, events, cancel files | create, submit, enqueue, admit, claim, solve, persist, cancel, reap, requeue, review, extend, approve, supersede, archive | queue, solver port, snapshot store, selection | duplicate deliveries, dead workers, late answers, a cap counted before it is used, a rollback after a file was written | one solver per run, cap kept, stale answers refused, nothing recorded is rewritten, every submission concludes |
| candidate selection (`builds/selection, staleness`) | draft version and its assignments | staleness, apply to a new draft | builds, schedule, audit lock | edits, closings and approvals between its statements; three kinds of lock | what an apply read holds when it commits; one chosen per period; no apply in a cycle of waits over its period |
| solver port (`solver/*`) | `solver_input_snapshots` | assemble, store or replay, dispatch, authenticate, validate | builds, solver worker | timeouts, signals, forged or truncated answers | a chain poses one problem; only checked candidates count |
| solver worker (`src/solver`) | none | solve | solver port | numeric search | outside: its answer is re-checked |
| outbox and queue pools (`outbox/*`, `db/queue-pools.ts`, migration 0003) | `outbox_events`, `outbox_effects`, `queue_pools`, the queue's locks | publish, claim, deliver, mark, fail, register, heartbeat, sweep, stop, release | every mutation publishes; audit | three transactions per dispatch, several pools, deaths, late heartbeats | one record per dispatch, no event dropped, leases exclusive, every event takes effect |
| schedule versions and publication (`schedule/service, publication`; migrations 0009, 0014, 0015) | `schedule_versions`, `assignment_snapshots`, `current_published_assignments`, `publication_records`, `schedule_periods.status` | draft, clone, edit, lock, transition, publish, revert, move a period | builds, vacation, audit, outbox | transitions read, then write by id without a lock; edits hold no lock a publication waits for; two publications of one period; retried requests | history is a line, the staff see what was published, nobody is booked twice, losers fail, a key publishes once, a published version stands |
| schedule checks (`schedule/hard-rule-revalidation, diff, review-identity, timezone`) | none | pure computations | publication | boundaries of days and zones | same verdict as the rules' definition |
| requests (`requests/service, decisions, sweeper, deadlines, idempotency`; migrations 0021, 0023, 0024) | `requests`, `approvals` | submit, withdraw, expire, approve, deny, reverse, batch | outbox, audit, schedule | expiry racing a decision, one refusal in a batch or a sweep, replays | the log of decisions tells the status; an overdue request expires |
| vacation selection (`requests/vacation-*`; migrations 0022, 0027) | `vacation_selections`, the status of their requests, `vacation_grants`, two ledgers of keys | select, withdraw, approve, deny, commit a round, reverse | requests, schedule, audit | four rows of four writers in one decision, read before they are locked; two keys, two rounds, two drafts | the counters are the weeks that hold units; selection and request agree; a week is booked once, by the round on record |
| audit chain (`audit/*`, migration 0003) | `audit_events` with hashes, `audit_checkpoints` | record, checkpoint, verify | every mutation | a total order per organization under concurrent transactions; two locks in one order | contiguous sequence, each hash over the one before, a checkpoint is a head that existed |
| authentication (`authn/*`) | accounts, sessions, MFA factors, invitations, lockout counters | sign in, step up, enrol, revoke, expire | audit | concurrent attempts against counters, single-use codes | a code or invitation is used once; revoked sessions never resolve |
| authorization (`authz/*`, `packages/domain/src/authz`) | none: evaluates roles, capabilities, delegations | evaluate | every route and job | many overlapping grants | deny wins; same verdict in route, job and transaction |
| job worker (`jobs/worker.ts`) | attempt count | re-authorize, execute, retry, dead-letter | queue, authz | rights withdrawn between enqueue and run | a job runs only with the rights of the moment it runs |
| catalogue, profiles, rules, settings | effective-dated rows, version counters | edit, supersede, whole-set replace | solver input | concurrent whole-set editors | no lost update, no overlap of effective dates |
| HTTP routes and contracts | none | parse, authorize, map errors | all of the above | - | thin |
| web application (`src/apps/web`) | no authoritative state | - | routes | - | - |

`PROJECT.json` lists the same components with their status, and the hazards of
the code, each at its line.

## 2. The modules

| module | what it is | models |
|---|---|---|
| `BuildStates` | states, legal edges, families and the classification of an answer, as data | `builds/states.ts` |
| `BuildContract` | what builds promise: a problem, a solve under the cap, an answer, a choice | specification only |
| `BuildLifecycle` | the life of the builds of one period: 33 actions of handlers, queue workers, the reap route and deciders | `builds/*`, `solver/snapshot-store.ts`, migrations 0018-0020 |
| `MCBuildLifecycle` | model values and symmetry for TLC | - |
| `BuildLifecycleProofs` | types, fencing, the cap | - |
| `BuildHistoryProofs` | retry chains, candidates, decisions, history, cancellations, deliveries, the contract | - |
| `DispatchPromise` | what the outbox promises: owed until it takes effect, recorded once | specification only |
| `OutboxKernel` | publication, dispatch in three transactions, and the pool registry: 22 actions | `outbox/*`, `db/queue-pools.ts` |
| `MCOutboxKernel` | the same for TLC | - |
| `OutboxProofs` | dispatch records, dropped events, the promise, leases | - |
| `PublishedHistory` | what publishing promises: one link at a time, nobody in two places | specification only |
| `Publication` | schedule versions from draft to superseded, and the publication transaction: 15 actions | `schedule/service, publication`, migrations 0009, 0014, 0015 |
| `MCPublication` | the same for TLC | - |
| `PublicationProofs` | types and the line of versions | - |
| `PublicationRealityProofs` | published rows, races, keys, published versions, the history | - |
| `CandidateDecisions` | what choosing a candidate promises: each decision one step | specification only |
| `CandidateSelection` | the same decisions as the READ COMMITTED transactions they are: 20 actions | `builds/selection, service`, `audit/recorder`, `schedule/service, publication` |
| `MCCandidateSelection` | symmetry for TLC | - |
| `CandidateSelectionProofs` | types, deadlocks, and that the second implements the first | - |
| `EntitlementLedger` | what the vacation quota promises: weeks in sets | specification only |
| `RequestStatuses` | statuses and legal edges of requests and selections, as data | `packages/domain/src/requests` |
| `Requests` | requests of a group and the weeks of a round in quota mode: 27 actions | `requests/*`, migrations 0021-0027 |
| `MCRequests` | a grant of one unit, symmetry | - |
| `RequestsProofs` | types, books, pairs, log, booked weeks | - |
| `RequestsLedgerProofs` | that the counters implement the ledger | - |

`map` in `PROJECT.json` gives each definition its lines. Operators named
`MutantX` are X with a plausible bug. Nothing uses them; they exist so that
every property can be shown to notice the bug.

### BuildLifecycle

*State.* A function per column of `build_runs` (`state`, `config`, `root`,
`attempt`, `epoch`, `snapshot`, `reason`; `lapsed` holds the runs whose
heartbeat is older than the window), the result row (`resultEpoch`, `usable`),
two events (`refused` = `result_refused`, `asked` = `cancel_requested`), the
stored documents by chain root (`store`) and the data they are assembled from
(`world`), the queue (`waiting` = unlocked jobs per run, `stranded` = jobs locked
by a dead pool), the workers (`phase`, `task`, `present` = the epoch the claim
got, `answer`), the advisory lock (`capLock`) and the cancel files (`signal`).

*Grain.* One committed transaction is one action, except where the code has an
effect a rollback cannot undo or where the transaction's length is the point:

* a claim is `Admit` (lock, count) then `Claim` (update, commit), with other
  workers in between; the lock is what keeps them apart, not the model;
* a solve is outside any transaction (`Claim`, `SolveReturns`, `PersistOutcome`),
  so everything else may happen during it;
* a cancellation is `RequestCancel` (event inserted, file written, row locked),
  then `CommitCancel` or `CancelRollsBack`;
* a submission is three transactions and an assembly outside them (`Submit`,
  `Assemble`, then one of the four endings), with `SubmitterCrash` between.

*Data.* A canonical document is a member of `Inputs`, told apart only by what
assembly, configuration findings and readiness findings say of it. The answers
are the nine kinds the classification distinguishes. `moved` collects the chains
whose cited revisions are no longer current; it never shrinks, because a
revision does not come back when an edit is undone, though the content may.
`HeartbeatLapses` may hit any running build: `heartbeat()` (`claim.ts`) has no
caller, and the window is not tied to the time limit of the solve.

*Specification.* In `BuildContract` a run is absent, in preparation, queued,
running, a candidate, approved, applied or ended. It has one problem, pinned once,
and one answer at most. `Start` needs room under the cap, `Choose` retires every
other candidate, `Apply` needs the problem to be the period's of today.
`HonoursTheContract` says that every step of `BuildLifecycle` is one of these or
none; `StageOf` and `AnswerOf` are the mapping. The queue, the workers, the claims,
the cancel files and the locks are what the mapping hides.

### OutboxKernel

*State.* `row` is `outbox_events.state`; `effects` the effect rows (their
primary key is the idempotency key); `audits` counts `outbox.dispatched` events;
`jobs`, `tries`, `lockedBy` are the queue's rows; `at` and `doing` say where in a
dispatch a pool is; `process` and `registry` are the process and its
`queue_pools` row; `suspects` and `unlocked` are a sweep between its statements.

*Grain.* Claim, delivery and mark are three transactions, so two pools may be
inside the same event. A release is two statements on an autocommit connection
and a sweep is three, so others run in between. `JobCompletes` deletes the
job whoever holds its lock; `JobFails` unlocks it only if this pool still holds
it: that is what graphile-worker does with the two. An event is "fresh" or
"stale" by whether its heartbeat is older than `staleAfterMs`: time is an action
(`Lapse`), free for a pool that no longer beats and counted for a live one.

*Specification.* In `DispatchPromise` an announced event is owed until it has
taken effect, takes effect once, and is recorded once, after that.
`DispatchesAsPromised` says the pools keep it: the row's state maps to
"announced", the job to "owed".

### Publication

*State.* `state`, `isCurrent`, `locked`, `number` are columns of
`schedule_versions`; `content` the active assignments of a version; `reality` is
`current_published_assignments`; `records` the `publication_records` of a period
in order of commitment; `status` the period's. `txn` is what an open transaction
of each user has read and written. Two ghosts: `raced` (a change of an
assignment was open when its version was published) and a record's `awaited`
(it was the next record of the period when its client looked).

*Grain.* An operation is one READ COMMITTED transaction; it is split where
another transaction can come between a read and the write it justifies:

* a draft reads the period's status (`BeginDraft`) before its foreign key waits
  for the period's row (`CommitDraft`);
* an edit reads the version (`BeginEdit`), writes a row the trigger on
  assignments admits (`InsertAssignment`, `UpdateAssignment`), and commits;
* a transition reads (`BeginTransition`) and writes by id (`CommitTransition`);
* a publication locks the period, searches the key and reads the version
  (`BeginPublish`); from its update of the version's row to the end nothing it
  depends on can move, so the rest is one action (`CommitPublish`).

`Request` is the client: it sees an approved version, names the current version
it means to replace, and may send the same key again. Row locks are guards:
`FOR UPDATE` of a period (`CanLock`) excludes the key-share lock a new
assignment's foreign key takes (`CanShare`). An update of an assignment touches
no key and takes no such lock. `Rollback` may end any open transaction: it stands
for every refusal, the ones whose cause is not modelled (hard-rule revalidation,
open conflicts, a stale time zone) included.

*Data.* An assignment is the person it assigns; all of them overlap in time, which
is the case D-1a and D-1b are about. D-9 and D-16, the unique indexes of numbers
and of the current flag, are left out on purpose: `HistoryIsALine` shows that the
publication transaction never runs into them. A revert publishes a clone by the
same transaction.

*Specification.* `PublishedHistory` has the line and the published rows only.
`PublishesInOneStep` says that all the statements of the module change them in one
way: one link more, with the next number, over the version the client saw as
current, under a key the period had not used, and the version's people in the
place of the period's, nobody of whom is published elsewhere.

### CandidateSelection

*State.* `state` and `posed` (the revision a run's snapshot cites) of each run,
`drafts` (the source revision of the draft made from it), the revisions `inputs`
and `source` of what `buildStaleness` and `sourceDigestOf` compare, the period's
`status`, and `txn`: where each user's open transaction stands and what it read.

*Grain.* `BuildLifecycle` has an approval and an application as one action each;
here they are split at every lock they take. `applyCandidateToNewDraft` is seven
actions, from the run's row to the commit; an approval is three, because its own
transition takes the audit lock before the siblings' rows are locked; an
archiving locks the settled runs one by one. Locks are guards: `HoldsRow` (FOR
UPDATE of `build_runs`), `SharesPeriod` and `LocksPeriod` (FOR KEY SHARE and FOR
UPDATE of the period), `HoldsAudit` (the organization's advisory lock, which every
audited write holds from its event to its commit). The premise of `selection.ts`
is the model's: whoever moves an input or the source records it in the same
transaction (`CommitEdit` needs the audit lock).

*Specification.* `CandidateDecisions` has no transactions: an application
happens at once, from fresh inputs, over the source as it is, in a period that
is open. `DecidesInOneStep` says the statements implement it.

*Waits.* `WaitsFor(u, v)` is the graph of the three locks, and `Deadlocked` a set
of users of whom everyone waits for another. `OnlyRowsDeadlock` says which
transactions every such set contains.

### Requests

*State.* `status`, `overdue` (`expires_at` has passed) and `approvals` of a
request; `selection`, `grantOf`, `isOverride`, `target`, `commitKey` are columns
of `vacation_selections`; `consumed`, `override`, `version` of `vacation_grants`;
`commands` and `rounds` the two ledgers of idempotency keys; `booked` the drafts
that have a week's assignments. A week's request has the name of the week.

*Grain.* An operation that writes one row by compare-and-set is one action. An
approval is three (`BeginApproval` writes the command and reads without a lock,
`TakeUnit` updates the grant by the version read, `approveVacationSelection`
the rest); a withdrawal is three, with the selection's row before the grant's,
the other way round from an approval; a round is `AskRound`, `ListRound`,
`BookFirst`, one `CommitWeek` for each week and `CommitRound`, where the key
conflicts; a batch locks its requests one by one; a sweep claims with SKIP LOCKED
and meets the deferred constraint D-27 at its commit (`PairsStand`). A request's
version is not a variable: no status is entered twice, so a compare-and-set on
the version is one on the status. A grant's version is, because its counters go
up and down.

*Data.* A deadline is an instant that passes (`DeadlinePasses`); a late
submission the policy accepts is overdue at once (`deadlines.ts:71-73`). A draft
request exists inside its submission only. `under_review` is passed within one
transaction. The mode is quota; the open mode has no grants to keep.

*Specification.* In `EntitlementLedger` a grant is two sets of weeks, those
within the entitlement and those beyond it. `KeepsTheLedger` says the counters
implement it: a unit is taken once and given back once, and beyond the
entitlement only when nothing within it is left.

## 3. The runs

| run | bounds | question | result |
|---|---|---|---|
| `BuildClaims` | 2 runs, 2 workers, cap 1, 1 spare delivery, 1 fault, clean and cancelled answers | types; `CapRespected`, `StandingSolvesWithinCap`, `OneSolverPerRun`, `ResultsAreFenced`; `CancellationIsRecorded` and `InFlightIsAttended` while nothing fails; `HistoryIsFrozen`; `HonoursTheContract` | holds (1.07 M states) |
| `BuildDecisions` | 2 runs, 2 configurations, one retry, one worker, five inputs (ready, another, unready, closed, broken), clean and unusable answers, garbled responses, 1 fault | `ChainPosesOneProblem`, `CandidatesWereChecked`, `AtMostOneChosen`, `OnlyFreshIsApplied` | holds (2.88 M) |
| `BuildLiveness` | 2 runs, 1 worker, cap 1, 1 fault | `SubmittedConcludes` under `OperatedSpec` | holds (160 k) |
| `OutboxDispatch` | 2 events, 2 pools, 2 attempts, 1 each of lapse, end, failure | types; `LeaseIsExclusive`, `CleanReleases`; `DispatchesAsPromised`; `PublishedTakesEffect` under `FairSpec` | holds (357 k) |
| `PublicationLine` | 2 users, 3 versions in 2 periods, 2 people, 2 keys, 2 changes, 1 lock or period move | types; `HistoryIsALine`, `RealityMirrorsSchedule`, `NobodyIsBookedTwice`; `PublishesInOneStep`; `PublishedStands`, `PublishedGainsNobody` | holds (1.84 M) |
| `SelectionOrdering` | 3 users, 2 runs, 2 edits | types; `OnlyRowsDeadlock`; `DecidesInOneStep` | holds (1.11 M) |
| `RequestsQuota` | 2 users, 1 plain request, 2 weeks, a grant of 1 unit, 2 keys, 2 rounds, 2 drafts | types; `UnitsMatchSelections`, `PairAgrees`, `DecisionsAreRecorded`, `WeekIsBookedOnce`; `KeepsTheLedger` | holds (1.51 M) |
| `BuildSolvesOverCap` | 2 runs, 2 workers, cap 1 | does the cap bound the solves in progress? | no |
| `BuildUnreaped` | 1 run, garbled responses, everything fair but the reap route | does a running build end? | no |
| `PublicationCancelled` | as `PublicationLine` | can a cancelled version be published? | yes |
| `SelectionLocks` | 3 users, 2 runs | are row locks taken before the audit lock? | no |
| `RequestsSwept` | 1 sweeper, 1 plain request, 1 week, transactions that end and sweeps that come back | does an overdue request expire? | no |

*Why the bounds are enough.* The races of claims need two workers and two runs
contending for one slot; a third adds symmetric copies of the same race (and the
theorems cover every number). `AtMostOneChosen` needs two candidates, one approved or applied and one that
supersedes it; the theorem covers any number. Retry chains need a root and one
retry. `MaxFaults`, `MaxLapses`, `MaxEnds` and `MaxFailures` count
injected failures: one is enough to reach every failure path, and the safety
theorems hold without a bound. `MaxJobs` bounds the deliveries a requeue adds; in
the code they are unbounded. `MaxAttempts` is 25 in the code; 2 reaches both a
retry and exhaustion.

`PublicationLine`: a race for a period needs two versions of it and two users;
the second period is there for the cross-period booking; two changes let one
insertion race one publication and another change race the next. Versions that
are published are used up, so three of them bound the line to two records per
period; the theorems cover any length. `MaxFreezes` bounds the locks of
`setLockState` and the departures from "planning" of `transitionPeriodStatus`, and
`Administered` the periods they happen in: one, in the period with two versions,
is enough to meet a publication.

`SelectionOrdering`: a cycle of two locks needs two users, and the third is the
edit or closing that comes between; an application needs its own run and a
sibling. Two edits let one move before the first read and one between the reads.
`RequestsQuota`: one unit and two weeks are the smallest quota with a loser, an
override, and an override that is given back while the unit within stays taken;
two rounds with a key each, or one key, and two drafts are what a second booking
needs. The theorems hold for any number of all of them.

*Deadlock.* The runs that can stop say so: a period with no more free runs is
finished, an outbox with nothing published by dead pools is idle, a schedule
whose versions are all published, at the bounds, has nothing left to do, and so
has a sweeper when everything is decided. `BuildDecisions`, `SelectionOrdering`
and `RequestsQuota` check deadlock: there is always somebody who can edit, close,
or send a decision again. (A cycle of waits of two transactions is not a deadlock
of the model, as it is none of the database: `Rollback` is the victim.)

*Model symmetry* is used in the safety runs only, those with a refinement included
(a refinement without fairness is a safety property).

### Fairness

`WorkerFairness`: a task a pool holds goes on (weak), an advisory or row lock
that is free again and again is obtained (strong: PostgreSQL grants locks in
order), a subprocess that does not answer is killed at its deadline (weak on
`SolveReturns`), jobs are served in `run_at` order (strong on `PickJob`), pools
sweep on a timer, and transactions end. `HandlerFairness`: a request handler
that has started finishes. `SweepFairness` is *not* a fact about the code:
`reapStaleBuilds` is called from the reap route only, so it stands for an
operator who keeps posting. `BuildUnreaped` drops it and shows what happens.

`OutboxKernel!Fairness`: processes that are up go on, their timers fire, the
heartbeat of a process that is gone becomes old, and an unlocked job with
attempts left is eventually taken. Nobody has to fail, lapse or die.
`PublishedTakesEffect` names its two exceptions: a job without attempts left,
and a lock held by a dead pool no sweep looks at. `docs` call the four-hour lease
of graphile-worker the backstop of the second; the model leaves it out, so
`Overlooked` is exactly the set of cases that wait for it.

`Requests!FairSpec`: a transaction that can go on goes on or rolls back (weak),
and sweeps come again and again and commit if they can (strong). The handler is
registered (`jobs/handlers.ts:65`), and nothing in the source schedules it, so
this stands for an operator's timer. `RequestsSwept` fails although it is given.

### Disagreements of code and documentation

Each has a run with a counterexample; `PROJECT.json` quotes the lines.

1. `BuildSolvesOverCap`: nothing heartbeats after the claim, so a live build is
   reaped, its slot goes to another run, and more than the cap are solving.
2. `BuildUnreaped`: a refused response leaves the run running, and no component
   of the system reaps by itself.
3. `PublicationCancelled`: `publishVersion` reads "approved" without locking the
   version and updates it by id; a cancellation that commits in between is
   overwritten and a cancelled version is published.
4. `SelectionLocks`: `approveRun` audits its own transition, which takes the audit
   lock, and then locks its siblings' rows; two approvals that cross wait for each
   other, against the rule `audit/recorder.ts` states. `commitVacationRound` and
   `decideRequestsBatch` have the same order.
5. `RequestsSwept`: the sweep claims overdue weeks too, but expires the request
   and not the selection, so the constraint on the pair refuses the commit and
   the whole sweep rolls back, every time, with the other requests it claimed.

Seen while reading, without a run of their own. Three are behaviours of the
models. The cancel file is written before the transaction commits, so a rollback
leaves the signal and no record, the reverse of what `runner.ts:830-832` says
(`CancellationIsRecorded` holds while nothing fails). A root that was bounced by
the readiness check keeps its chain's document and conflicts with itself once its
inputs are fixed, though `runner.ts:100-105` speaks of roots that ran. A sweep of
pools retires a pool that has come back between its statements, and the pool
goes on taking jobs, released, with a heartbeat that matches no row
(`queue-pools.ts:203`; `LeaseIsExclusive` and `CleanReleases` exclude late beats).

About decisions and requests: `archiveSettledRunsForClosedPeriod` reads the period
without a lock, so a reopening in between leaves an open period with archived
runs. The trigger that refuses drafts in a closed period reads its status before
the foreign key waits for the period's row; an application is safe because it
locks the period first. An approval of a week locks grant, then selection, a
withdrawal the other way round: one of them may be the victim of a deadlock and
loses nothing. The round's mode and state, and whether a shift group takes
requests, are read without a lock (`vacation-selection.ts:223`). Nothing writes
`accepted_as_input`, `consumed_by_build` or, for plain requests,
`reflected_in_version`.

About publication: a reassignment whose trigger
looked before a publication committed may commit after it, and changes a
published version (D-15a says it is immutable); the model has this behaviour, and
`raced` names exactly the versions `RealityMirrorsSchedule` and
`PublishedGainsNobody` except for it. Migration 0015 gives the edge "planning ->
published: the period has a current published version" a condition nothing
checks. The next three are in the queue: `queue-runner.ts` says a job
whose pool is shutting down is left undelivered, but the task returns, which
completes the job (`AbortJob`; `requeueOrphanedQueuedBuilds` picks the run up).
The dispatcher's header says the audit event of a failure is written if the
compare-and-set won; `markFailed` writes `job.failed` in any case. And a lost
mark can leave an event `failed` although its effect is there and its job gone:
`Mark` loses against another pool's `MarkFailed`, and `MarkLost` completes the
job.

## 4. What is proved

All theorems are of `Spec` without bounds on the number of runs, workers, events
or pools; the assumptions are the ones named in the modules (sentinels outside
the sets, a positive cap, finitely many runs).

| theorem | says | rests on |
|---|---|---|
| `TypeCorrect` | `[]TypeOK` | a busy slot has a task, a created run has a root |
| `OneSolver`, `ResultsFenced` | one worker solves a run; late answers are refused | `FenceInv` |
| `CapKept`, `StandingSolvesCapped` | running builds never exceed the cap, nor do the solves whose claims stand | `CapInv`, `FenceInv` |
| `ChainIsOneProblem` | a chain has one stored document, and only checked documents are queued | `ChainInv` |
| `CandidatesChecked`, `OneChosen` | choosable runs have an admitted result; one is chosen | `EveryStep` |
| `HistoryFrozen`, `FreshApplied` | two action properties | `EveryStep`, `ChainInv` |
| `CancellationRecorded`, `InFlightAttended` | while nothing fails: a cancelled run has its request on record, a run in flight somebody who attends it | `CancelInv`; `InFlightIsAttended` itself |
| `BuildsHonourTheContract` | `Spec => HonoursTheContract` | `ContractInv` |
| `KernelTypeCorrect`, `RecordedOnce`, `NothingIsDropped` | types; one record per dispatch; an undelivered event has a job | `DispatchInv` |
| `DispatchersKeepThePromise` | `Spec => DispatchesAsPromised` | `DispatchInv` |
| `LeaseExclusive`, `ReleasesClean` | while live pools beat, no job has two live pools and no released pool a lock | `LeaseInv` |
| `PublicationTypeCorrect`, `HistoryStaysALine` | types; the history of a period is a straight line | `LineInv` |
| `StaffSeeTheSchedule`, `NobodyTwice`, `PublishedDoesNotGrow` | published rows are the current versions' assignments, book nobody twice, and gain nobody | `RealityInv` |
| `LosersFail`, `KeysPublishOnce` | a publication replaces what its client saw; a key publishes once | `RaceInv` |
| `PublishedIsOnlyReplaced` | a published version keeps its number and is left by replacement only | `LineInv` |
| `PublicationTellsHistory` | `Spec => PublishesInOneStep` | `RealityInv`, `RaceInv` |
| `CandidateSelectionProofs!TypeCorrect`, `DeadlocksAreOfRows` | types; who is in a circle of waits | `SelectionInv` |
| `SelectionImplementsDecisions` | `Spec => DecidesInOneStep`: the statements implement one-step decisions | `SelectionInv` |
| `RequestsProofs!TypeCorrect`, `BooksAreTrue`, `PairsStayTogether` | types; counters are the weeks; selection and request agree | `RequestsInv` |
| `LogTellsTheStatus`, `BookedByOneRound` | decisions on record; booked weeks | `RequestsInv` |
| `RequestsImplementLedger` | `Spec => KeepsTheLedger`: the statements implement the ledger | `LedgerInv` |

The arguments:

* **`FenceInv`.** `OneSolverPerRun` is not inductive: it does not say what keeps
  a second delivery out. The invariant adds that the epoch is zero until the
  claim and one from it on (a reap adds one more), that the worker in a solve
  holds the epoch of the claim, and that a run before its claim has no result. A
  claim is possible only in `queued`, no edge leads back there, so there is one.
* **`CapInv`.** Between `Admit` and `Claim` the count must still be below the
  cap. The invariant says the admitted worker holds the lock and that
  `Cardinality(Running) < Cap` as long as it does; only a claim adds to
  `Running`, and only the lock's holder claims.
* **`ChainInv`.** What is stored is never replaced, a chain that is not in
  `moved` stores the current data, and what a run is pinned to is what is stored.
  Its part `CheckedOK` also shows that the "snapshot missing" branch of the
  worker is never taken: a queued run has a document.
* **`EveryStep`.** Each of the 33 actions does one of eight things to one run.
  The history and decision theorems are proved from that list, once.
* **`StandingSolvesCapped`.** What remains true of the claim `BuildSolvesOverCap`
  refutes. By `FenceInv` the workers whose claim stands solve different runs, and
  by the claim itself these are running: an injection into `Running`.
* **`CancelInv`.** The record of a cancellation follows the file a worker acts on, so
  "recorded" is not inductive. The invariant says who vouches for a file or for
  a cancelled answer: a record, or a cancellation that is still open. An open one
  holds the row, so no answer of its run is stored before it commits; and it
  rolls back by a fault only.
* **`InFlightIsAttended`** is inductive with the types, because it names the attendant:
  a handler for a validating run, a job or a worker before its claim for a queued
  one, and for a running one not any worker but the one whose claim is current. An
  answer that is fenced is therefore not the attendant's, and a job used up while its
  run is queued is a fault. The one way to leave a running build to nobody that is
  not a fault is a refused response, which is what `BuildUnreaped` shows; the
  property says nothing of running builds when `Garbled` holds.
* **`ContractInv`.** All of the above at once: `CapInv` is the guard of `Start`,
  `FenceInv` that of `Answer` (a running run has no result, and a late answer meets a
  run that is not running), `ChainInv` that of `Pose` and `Apply`,
  `CandidatesWereChecked` that of `Choose`. Each of the 33 actions maps to one
  step of the contract or to none (`Tells`, `Moves` and `Stands` are the three ways).
* **`DispatchInv`.** A pool reaches its mark with the effect in place, effects
  are never removed, and a job is made once. So a completed job means a
  delivered event, however many pools dispatch it. The refinement needs no more:
  a completion settles the promise or stutters (`CompletionSettles`), a delivery
  takes effect or another pool's has (`DeliveryTakesEffect`).
* **`LeaseInv`.** While no live pool lapses, stale, suspected and released pools
  are not up, so a sweep takes no lock a live pool relies on; a pool that has
  unlocked its jobs takes no more, so its release leaves none; and a live pool
  in a dispatch holds the lock of its job until the job is gone.
* **`LineInv`.** The line alone is not inductive: a transition that read
  "approved" may write after its version was published, and a publication may
  write after its version moved on. What saves it is that the trigger looks at
  the committed state, that a publisher's version cannot have been frozen by
  anybody else (one publisher to a period, `OnePublisher`), and that versions
  outside history have no number, so the next number is the length of the line.
* **`RealityInv`.** An open insertion holds the period's row, so no publication of
  the period is in progress and its version is not frozen (`InsertsHold`); an
  open change of a frozen version is remembered in `raced` (`ChangesRace`). So
  what a publication copies is all there is, up to `raced`.
* **`RaceInv`.** What a client saw is the end of a prefix of the line
  (`ClientsSaw`); versions of the line are distinct, so if it is still current no
  record has come between. A publisher's key stays unused while it holds the
  period's lock (`KeysUnused`). Together with `RealityInv` that is what a step of
  `PublishedHistory` asks for (`SawTheEnd`, `PublishTells`).

* **`SelectionInv`.** One holder of the audit lock, one of each row, no period
  locked while it is shared; and `ReadsStand`: what an apply has read, up to the
  statement it has reached, is still so. It is inductive because each read is made
  under the lock that its movers need: the run's row, the audit lock for inputs
  and source, the share of the period for its status. So the commit of an apply
  finds the state in which `CandidateDecisions!Apply` is enabled; every other
  statement stutters.
* **`DeadlocksAreOfRows`** needs no ranking. Who has the audit lock waits for
  nobody, unless it is an approval at its siblings (`HoldersGoOn`: an apply
  shares its period by then). Without such an approval in the circle nobody in it
  has the audit lock or waits for it, so nobody in it has a period locked; what
  is left are waits for rows, and of the transactions that wait for a row only
  archivings hold one.
* **`RequestsInv`.** Locks exclude and what was read of a locked row stands
  (`LocksInv`); a week has a grant from its approval on and may be an override only
  then (`GrantsComeWithApproval`); committed keys are on record. The books are kept
  by five steps only (approve, withdraw, reverse and the two that make a week
  hold), each of which moves one week and one grant: a lemma about
  `Cardinality` of one week more or fewer (`UnitsKept`) does them all. The sweep is
  the only writer that needs the constraint D-27.
* **`LedgerInv`.** An approval decides between entitlement and override by what it
  read before it held anything. The invariant says that its reading is right as
  long as the grant has the version it read (every change of the counters counts
  the version up), and from `TakeUnit` on because it holds the row. Spare units and
  `Cardinality(within)` are tied by the books.

Only model-checked: the liveness properties `SubmittedConcludes` and
`PublishedTakesEffect` (fairness and ENABLED are outside the prover's reach). Every
other property of a run that passes is proved. `LosersFail` and `KeysPublishOnce`,
`RecordedOnce` and `NothingIsDropped` are invariants no run checks by name: the
refinements `PublishesInOneStep` and `DispatchesAsPromised` say more.

## 5. Not modelled

The rows of `components` in `PROJECT.json` with `not_modelled` say why. Most of
the repository's lines are routes, contracts, schemas, scripts and the editing of
catalogue, profile and settings rows around the operations above: they parse,
authorize, select and format, and keep no state a step of another can spoil. Their
part in the models is that an edit is a revision that moved, and that whoever
takes a step may.

Inside the modelled components: the configuration editor, the content of the
canonical document and of candidates, tenant context and savepoints, the
four-hour lease, the poller's backoff times, jobs of concurrency greater than one
in an outbox pool (the default is one), pins, credits, conflicts and time zones
of versions, and `reconcileStalePublishing`: `publishing` is never a committed
state, so the reconciler finds nothing to do. Of requests: comments, the calendar
arithmetic of deadlines, the open mode of a round and the assignments of a week one day at a
time (the kind of a grant makes no difference here: an approval may name any
grant of its round).
Of the audit chain: the hashes, checkpoints and their verification; the lock that
makes it a chain is in `CandidateSelection` and `Requests`.

## 6. Plan

In order of importance, what would come next.

1. **Audit chain.** Sequence and hash under concurrent transactions, checkpoints
   of a head that existed.
2. **Stronger contracts.** A refinement in the other direction of detail:
   `CandidateSelection` as the decisions of `BuildContract`, so that the two models of
   an approval are tied by proof and not by reading.
3. **Composition.** A round committed into a draft that is published meanwhile
   (`Requests` with `Publication`).
4. **Sessions, invitations and codes; staffing-set compare-and-set; job
   authorization.** One small module each.
5. **Proofs.** The positive counterparts of the other disagreements: that a
   cancelled version is published only by a client that read it approved before,
   and that a sweep without weeks expires what it claimed.
