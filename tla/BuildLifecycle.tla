--------------------------- MODULE BuildLifecycle ---------------------------
(***************************************************************************)
(* The life of the builds of one schedule period, from the request that    *)
(* creates a run to the decision that uses or files it: submission against *)
(* a pinned canonical input, the delivery queue, the capped and fenced     *)
(* claim, the solve outside any transaction, cancellation through a file,  *)
(* the reaper, and the decisions on settled runs                           *)
(* (apps/api/src/builds, solver/snapshot-store.ts, migrations 0018-0020).  *)
(*                                                                         *)
(* An action is one committed transaction, or one step outside any         *)
(* transaction, of a request handler or of a queue worker.  Row locks are  *)
(* visible only where a transaction has an effect the rollback cannot      *)
(* undo: the open cancellation, which has already written its file.        *)
(*                                                                         *)
(* An operator MutantX is X with a plausible bug; nothing uses it but the  *)
(* test that the properties notice.                                        *)
(***************************************************************************)
EXTENDS Naturals, FiniteSets, BuildStates

CONSTANTS
  Runs,           \* build runs; an idempotency key per run, so a replay stutters
  Configs,        \* build configurations of the period
  Workers,        \* task slots of the queue pools
  Inputs,         \* what the canonical input of the period can be
  Unassemblable,  \* inputs the assembly refuses
  Inconsistent,   \* inputs configurationFindings objects to
  Closed,         \* of those, the inputs whose period is closed
  Unready,        \* inputs readinessFindings objects to
  SolveAnswers,   \* the answers solves come back with
  Garbled,        \* TRUE when a response may fail authentication or parsing
  Cap,            \* running builds an organization may have
  RetryLimit,     \* retry_limit of the configurations
  MaxJobs,        \* bound: deliveries of one run waiting at once
  MaxFaults,      \* bound: crashes, shutdowns, rollbacks and exhausted jobs
  NoRun, NoConfig, NoWorker, NoInput

ASSUME SentinelsAssumption ==
  /\ NoRun \notin Runs /\ NoConfig \notin Configs
  /\ NoWorker \notin Workers /\ NoInput \notin Inputs

ASSUME InputsAssumption ==
  /\ Unassemblable \subseteq Inputs /\ Inconsistent \subseteq Inputs
  /\ Closed \subseteq Inconsistent  /\ Unready \subseteq Inputs

ASSUME BoundsAssumption ==
  /\ IsFiniteSet(Runs)
  /\ Cap \in Nat \ {0} /\ RetryLimit \in Nat
  /\ MaxJobs \in Nat   /\ MaxFaults \in Nat
  /\ SolveAnswers \subseteq Answers /\ Garbled \in BOOLEAN

VARIABLES
  \* build_runs
  state, config, root, attempt, epoch, lapsed, snapshot, reason,
  \* build_run_results and the result_refused and cancel_requested events
  resultEpoch, usable, refused, asked,
  \* solver_input_snapshots by chain key, and the data they are assembled from
  store, moved, world,
  \* submissions in progress in a request handler
  submission,
  \* graphile_worker jobs: unlocked, and locked by a pool that is gone
  waiting, stranded,
  \* queue workers and the organization's capacity lock
  phase, task, present, answer, capLock,
  \* the cancel files, and the cancellations not yet committed
  signal, cancelling,
  faults

runVars    == <<state, config, root, attempt, epoch, lapsed, snapshot, reason>>
resultVars == <<resultEpoch, usable, refused>>
inputVars  == <<store, moved, world>>
queueVars  == <<waiting, stranded>>
workerVars == <<phase, task, present, answer, capLock>>
cancelVars == <<asked, signal, cancelling>>
vars == <<runVars, resultVars, inputVars, submission, queueVars, workerVars,
          cancelVars, faults>>

Phases == {"idle", "picked", "admitted", "solving", "answered"}
Submissions == {"none", "assembling", "assembled", "unassemblable", "conflicted"}

TypeOK ==
  /\ state \in [Runs -> BuildStates \union {"absent"}]
  /\ config \in [Runs -> Configs \union {NoConfig}]
  /\ root \in [Runs -> Runs \union {NoRun}]
  /\ attempt \in [Runs -> 0 .. RetryLimit]
  /\ epoch \in [Runs -> Nat]
  /\ lapsed \subseteq Runs
  /\ snapshot \in [Runs -> Inputs \union {NoInput}]
  /\ reason \in [Runs -> TerminationReasons \union {"none"}]
  /\ resultEpoch \in [Runs -> Nat]
  /\ usable \subseteq Runs /\ refused \subseteq Runs /\ asked \subseteq Runs
  /\ store \in [Runs -> Inputs \union {NoInput}]
  /\ moved \subseteq Runs
  /\ world \in Inputs
  /\ submission \in [Runs -> Submissions]
  /\ waiting \in [Runs -> Nat] /\ stranded \in [Runs -> Nat]
  /\ phase \in [Workers -> Phases]
  /\ task \in [Workers -> Runs \union {NoRun}]
  /\ present \in [Workers -> Nat]
  /\ answer \in [Workers -> Answers \union {"none"}]
  /\ capLock \in Workers \union {NoWorker}
  /\ signal \subseteq Runs /\ cancelling \subseteq Runs
  /\ faults \in 0 .. MaxFaults

Init ==
  /\ state = [r \in Runs |-> "absent"]
  /\ config = [r \in Runs |-> NoConfig]
  /\ root = [r \in Runs |-> NoRun]
  /\ attempt = [r \in Runs |-> 0]
  /\ epoch = [r \in Runs |-> 0]
  /\ lapsed = {}
  /\ snapshot = [r \in Runs |-> NoInput]
  /\ reason = [r \in Runs |-> "none"]
  /\ resultEpoch = [r \in Runs |-> 0]
  /\ usable = {} /\ refused = {} /\ asked = {}
  /\ store = [r \in Runs |-> NoInput]
  /\ moved = {}
  /\ world \in Inputs
  /\ submission = [r \in Runs |-> "none"]
  /\ waiting = [r \in Runs |-> 0] /\ stranded = [r \in Runs |-> 0]
  /\ phase = [w \in Workers |-> "idle"]
  /\ task = [w \in Workers |-> NoRun]
  /\ present = [w \in Workers |-> 0]
  /\ answer = [w \in Workers |-> "none"]
  /\ capLock = NoWorker
  /\ signal = {} /\ cancelling = {}
  /\ faults = 0

Running == {r \in Runs : state[r] = "running"}

\* transitionRun: the edge must be legal; the compare-and-set on the state
\* read is the action itself.
MutantMoves(r, to) == state[r] # "absent" /\ state' = [state EXCEPT ![r] = to]
Moves(r, to) ==
  /\ <<state[r], to>> \in LegalTransitions
  /\ state' = [state EXCEPT ![r] = to]

Fault == faults < MaxFaults /\ faults' = faults + 1

-----------------------------------------------------------------------------
(* Creation and submission, in the request handlers.                       *)

\* A retry may name any run as its parent, whatever its state.
MutantMayRetry(parent) == state[parent] # "absent" /\ attempt[parent] <= RetryLimit
MayRetry(parent) == state[parent] # "absent" /\ attempt[parent] < RetryLimit

\* A configuration has one run in flight at most (D-4a's partial unique index).
CreateRun(r, c, parent) ==
  /\ state[r] = "absent"
  /\ \A s \in Runs : config[s] = c => state[s] \notin InFlight
  /\ parent # NoRun => MayRetry(parent)
  /\ state' = [state EXCEPT ![r] = "draft_configuration"]
  /\ config' = [config EXCEPT ![r] = c]
  /\ root' = [root EXCEPT ![r] = IF parent = NoRun THEN r ELSE root[parent]]
  /\ attempt' = [attempt EXCEPT ![r] = IF parent = NoRun THEN 0 ELSE attempt[parent] + 1]
  /\ UNCHANGED <<epoch, lapsed, snapshot, reason, resultVars, inputVars,
                 submission, queueVars, workerVars, cancelVars, faults>>

\* Schedulers edit what the canonical input is assembled from.  Content may
\* come back to what it was; the revisions a stored snapshot cites do not.
EditInputs(v) ==
  /\ v # world
  /\ world' = v
  /\ moved' = moved \union {k \in Runs : store[k] # NoInput}
  /\ UNCHANGED <<runVars, resultVars, store, submission, queueVars, workerVars,
                 cancelVars, faults>>

\* submitBuild, first transaction.
Submit(r) ==
  /\ Moves(r, "validating")
  /\ submission' = [submission EXCEPT ![r] = "assembling"]
  /\ UNCHANGED <<config, root, attempt, epoch, lapsed, snapshot, reason,
                 resultVars, inputVars, queueVars, workerVars, cancelVars, faults>>

\* What the assembly and the two check lists say of a document.
Assembles(doc) == doc \notin Unassemblable
ConfigurationFindings(doc) == doc \in Inconsistent
ReadinessFindings(doc) == doc \in Unready

\* persistCanonicalInput: nothing is stored under the chain's key, or the same.
MutantReplays(r) == TRUE
Replays(r) == store[root[r]] \in {NoInput, world}

\* createBuildInput: assemble the document from the current data and store it.
Assemble(r) ==
  /\ submission[r] = "assembling"
  /\ \/ /\ ~Assembles(world)
        /\ submission' = [submission EXCEPT ![r] = "unassemblable"]
        /\ UNCHANGED store
     \/ /\ Assembles(world)
        /\ Replays(r)
        /\ store' = [store EXCEPT ![root[r]] = world]
        /\ submission' = [submission EXCEPT ![r] = "assembled"]
     \/ /\ Assembles(world)
        /\ ~Replays(r)
        /\ submission' = [submission EXCEPT ![r] = "conflicted"]
        /\ UNCHANGED store
  /\ UNCHANGED <<runVars, resultVars, moved, world, queueVars, workerVars,
                 cancelVars, faults>>

\* submitBuild, the transaction of the catch block.
Refusals == {"unassemblable", "conflicted"}
AssemblyRefused(r) ==
  /\ submission[r] \in Refusals
  /\ Moves(r, "draft_configuration")
  /\ submission' = [submission EXCEPT ![r] = "none"]
  /\ UNCHANGED <<config, root, attempt, epoch, lapsed, snapshot, reason,
                 resultVars, inputVars, queueVars, workerVars, cancelVars, faults>>

\* submitBuild, last transaction, on the document the assembly returned.
Document(r) == store[root[r]]

ValidationFails(r) ==
  /\ submission[r] = "assembled" /\ state[r] = "validating"
  /\ ConfigurationFindings(Document(r))
  /\ Moves(r, "draft_configuration")
  /\ submission' = [submission EXCEPT ![r] = "none"]
  /\ UNCHANGED <<config, root, attempt, epoch, lapsed, snapshot, reason,
                 resultVars, inputVars, queueVars, workerVars, cancelVars, faults>>

\* The run passes through readiness_check inside the transaction and comes
\* back to draft with its snapshot pinned.
ReadinessFails(r) ==
  /\ submission[r] = "assembled" /\ state[r] = "validating"
  /\ ~ConfigurationFindings(Document(r)) /\ ReadinessFindings(Document(r))
  /\ snapshot' = [snapshot EXCEPT ![r] = Document(r)]
  /\ state' = [state EXCEPT ![r] = "draft_configuration"]
  /\ submission' = [submission EXCEPT ![r] = "none"]
  /\ UNCHANGED <<config, root, attempt, epoch, lapsed, reason,
                 resultVars, inputVars, queueVars, workerVars, cancelVars, faults>>

\* The job is enqueued in the transaction that moves the run to queued.
EnqueueBuildSolve(r) == waiting' = [waiting EXCEPT ![r] = @ + 1] /\ UNCHANGED stranded

Enqueue(r) ==
  /\ submission[r] = "assembled" /\ state[r] = "validating"
  /\ ~ConfigurationFindings(Document(r)) /\ ~ReadinessFindings(Document(r))
  /\ snapshot' = [snapshot EXCEPT ![r] = Document(r)]
  /\ state' = [state EXCEPT ![r] = "queued"]
  /\ EnqueueBuildSolve(r)
  /\ submission' = [submission EXCEPT ![r] = "none"]
  /\ UNCHANGED <<config, root, attempt, epoch, lapsed, reason,
                 resultVars, inputVars, workerVars, cancelVars, faults>>

\* The API process dies between two transactions of submitBuild.
SubmitterCrash(r) ==
  /\ submission[r] # "none"
  /\ submission' = [submission EXCEPT ![r] = "none"]
  /\ Fault
  /\ UNCHANGED <<runVars, resultVars, inputVars, queueVars, workerVars, cancelVars>>

-----------------------------------------------------------------------------
(* The queue and its workers (queue-runner.ts, runQueuedBuild).            *)

\* graphile-worker locks a job for an idle task slot.
PickJob(w, r) ==
  /\ phase[w] = "idle" /\ waiting[r] > 0
  /\ waiting' = [waiting EXCEPT ![r] = @ - 1]
  /\ phase' = [phase EXCEPT ![w] = "picked"]
  /\ task' = [task EXCEPT ![w] = r]
  /\ UNCHANGED <<runVars, resultVars, inputVars, submission, stranded, present,
                 answer, capLock, cancelVars, faults>>

\* The slot forgets the task it worked on.
SlotFreed(w) ==
  /\ phase' = [phase EXCEPT ![w] = "idle"]
  /\ task' = [task EXCEPT ![w] = NoRun]
  /\ present' = [present EXCEPT ![w] = 0]
  /\ answer' = [answer EXCEPT ![w] = "none"]

\* The task of w returns, and the job is deleted, ...
JobCompletes(w) == SlotFreed(w) /\ UNCHANGED queueVars

\* ... or throws, and the job comes back after its backoff.
JobRetries(w) ==
  /\ SlotFreed(w)
  /\ waiting' = [waiting EXCEPT ![task[w]] = @ + 1]
  /\ UNCHANGED stranded

\* The pool is shutting down: runBuildSolveJob returns before the claim.
AbortJob(w) ==
  /\ phase[w] = "picked"
  /\ JobCompletes(w)
  /\ Fault
  /\ UNCHANGED <<runVars, resultVars, inputVars, submission, capLock, cancelVars>>

\* lockOrganizationCapacity: the advisory lock is held until the transaction
\* ends, whether it commits or rolls back.
MutantLockFree == TRUE
LockFree == capLock = NoWorker

MutantLockReleased == UNCHANGED capLock
LockReleased == capLock' = NoWorker

\* admitBuildUnderCap.
Admit(w) ==
  /\ phase[w] = "picked" /\ LockFree
  /\ Cardinality(Running) < Cap
  /\ phase' = [phase EXCEPT ![w] = "admitted"]
  /\ capLock' = w
  /\ UNCHANGED <<runVars, resultVars, inputVars, submission, queueVars, task,
                 present, answer, cancelVars, faults>>

AtCap(w) == phase[w] = "picked" /\ LockFree /\ Cardinality(Running) >= Cap

\* Not admitted: the task throws BuildCapacitySaturatedError.
Defer(w) ==
  /\ AtCap(w)
  /\ JobRetries(w)
  /\ UNCHANGED <<runVars, resultVars, inputVars, submission, capLock, cancelVars, faults>>

\* The same, in the last of the job's attempts: graphile never runs it again.
ExhaustJob(w) ==
  /\ AtCap(w)
  /\ JobCompletes(w)
  /\ Fault
  /\ UNCHANGED <<runVars, resultVars, inputVars, submission, capLock, cancelVars>>

\* claimQueuedBuild, whose UPDATE names the state, and the commit.
MutantClaimable(r) == TRUE
Claimable(r) == state[r] = "queued"

Claim(w) ==
  LET r == task[w] IN
  /\ phase[w] = "admitted" /\ Claimable(r)
  /\ state' = [state EXCEPT ![r] = "running"]
  /\ epoch' = [epoch EXCEPT ![r] = @ + 1]
  /\ lapsed' = lapsed \ {r}
  /\ present' = [present EXCEPT ![w] = epoch[r] + 1]
  /\ phase' = [phase EXCEPT ![w] = "solving"]
  /\ LockReleased
  /\ UNCHANGED <<config, root, attempt, snapshot, reason, resultVars, inputVars,
                 submission, queueVars, task, answer, cancelVars, faults>>

\* The run is no longer queued: a duplicate or a late delivery.
NotClaimable(w) ==
  /\ phase[w] = "admitted" /\ ~Claimable(task[w])
  /\ JobCompletes(w)
  /\ LockReleased
  /\ UNCHANGED <<runVars, resultVars, inputVars, submission, cancelVars, faults>>

\* dispatchBuild returns, outside any transaction, and the cancel file goes.
\* The solver reports CANCELLED only for a file it found.
SolveReturns(w, a) ==
  /\ phase[w] = "solving"
  /\ a = "cancelled" => task[w] \in signal
  /\ phase' = [phase EXCEPT ![w] = "answered"]
  /\ answer' = [answer EXCEPT ![w] = a]
  /\ signal' = signal \ {task[w]}
  /\ UNCHANGED <<runVars, resultVars, inputVars, submission, queueVars, task,
                 present, capLock, asked, cancelling, faults>>

\* dispatchBuild throws SolverResponseRejectedError, which nothing catches.
ResponseRejected(w) ==
  /\ Garbled
  /\ phase[w] = "solving"
  /\ JobRetries(w)
  /\ UNCHANGED <<runVars, resultVars, inputVars, submission, capLock, cancelVars, faults>>

\* No open cancellation holds the row.
MutantRowFree(r) == TRUE
RowFree(r) == r \notin cancelling

\* assertClaimIsCurrent, under the row lock.
ClaimIsCurrent(w) ==
  epoch[task[w]] = present[w] /\ state[task[w]] = "running"

\* persistOutcome: the result at the claim's epoch and the state, together.
PersistOutcome(w) ==
  LET r == task[w] IN
  /\ phase[w] = "answered" /\ RowFree(r)
  /\ ClaimIsCurrent(w)
  /\ resultEpoch' = [resultEpoch EXCEPT ![r] = present[w]]
  /\ usable' = IF Usable(answer[w]) THEN usable \union {r} ELSE usable
  /\ Moves(r, ClassifiedState(answer[w]))
  /\ reason' = [reason EXCEPT ![r] = ClassifiedReason(answer[w])]
  /\ JobCompletes(w)
  /\ UNCHANGED <<config, root, attempt, epoch, lapsed, snapshot, refused,
                 inputVars, submission, capLock, cancelVars, faults>>

\* recordSolveOutcome: the refusal is recorded and the task throws.
OutcomeFenced(w) ==
  /\ phase[w] = "answered" /\ RowFree(task[w])
  /\ ~ClaimIsCurrent(w)
  /\ refused' = refused \union {task[w]}
  /\ JobRetries(w)
  /\ UNCHANGED <<runVars, resultEpoch, usable, inputVars, submission, capLock,
                 cancelVars, faults>>

\* The worker process dies: an open transaction rolls back and its lock goes,
\* a claim that was committed stays, the job stays locked by the dead pool.
WorkerCrash(w) ==
  /\ phase[w] # "idle"
  /\ SlotFreed(w)
  /\ capLock' = IF capLock = w THEN NoWorker ELSE capLock
  /\ stranded' = [stranded EXCEPT ![task[w]] = @ + 1]
  /\ Fault
  /\ UNCHANGED <<runVars, resultVars, inputVars, submission, waiting, cancelVars>>

\* reclaimStalePools unlocks the jobs of a pool that stopped beating.
ReclaimStranded(r) ==
  /\ stranded[r] > 0
  /\ waiting' = [waiting EXCEPT ![r] = @ + stranded[r]]
  /\ stranded' = [stranded EXCEPT ![r] = 0]
  /\ UNCHANGED <<runVars, resultVars, inputVars, submission, workerVars,
                 cancelVars, faults>>

-----------------------------------------------------------------------------
(* The reap route, and cancellation.                                       *)

\* A claim is older than the configuration's heartbeat window.  Nothing moves
\* heartbeat_at after the claim, and the window is unrelated to the solve's
\* time limit, so it may happen to any running build.
HeartbeatLapses(r) ==
  /\ state[r] = "running" /\ r \notin lapsed
  /\ lapsed' = lapsed \union {r}
  /\ UNCHANGED <<state, config, root, attempt, epoch, snapshot, reason,
                 resultVars, inputVars, submission, queueVars, workerVars,
                 cancelVars, faults>>

\* Rows another transaction has locked are skipped, not waited for.
Stale == {r \in Running : r \in lapsed /\ RowFree(r)}

\* reapStaleBuilds, then requeueOrphanedQueuedBuilds on the runs that have
\* been queued for long, in the one transaction of the route.
Sweep(orphaned) ==
  /\ Stale \union orphaned # {}
  /\ \A r \in orphaned : state[r] = "queued" /\ waiting[r] < MaxJobs
  /\ state' = [r \in Runs |-> IF r \in Stale THEN "failed" ELSE state[r]]
  /\ epoch' = [r \in Runs |-> IF r \in Stale THEN epoch[r] + 1 ELSE epoch[r]]
  /\ reason' = [r \in Runs |-> IF r \in Stale THEN "crashed" ELSE reason[r]]
  /\ lapsed' = lapsed \ Stale
  /\ waiting' = [r \in Runs |-> IF r \in orphaned THEN waiting[r] + 1 ELSE waiting[r]]
  /\ UNCHANGED <<config, root, attempt, snapshot, resultVars, inputVars, submission,
                 stranded, workerVars, cancelVars, faults>>

\* requestCancellation of a queued run moves it at once.
CancelQueued(r) ==
  /\ state[r] = "queued"
  /\ Moves(r, "cancelled")
  /\ reason' = [reason EXCEPT ![r] = "user_cancelled"]
  /\ asked' = asked \union {r}
  /\ UNCHANGED <<config, root, attempt, epoch, lapsed, snapshot, resultVars,
                 inputVars, submission, queueVars, workerVars, signal, cancelling,
                 faults>>

\* requestCancellation of a running run: the event is inserted and the file
\* written inside a transaction that holds the row ...
RequestCancel(r) ==
  /\ state[r] = "running" /\ RowFree(r)
  /\ signal' = signal \union {r}
  /\ cancelling' = cancelling \union {r}
  /\ UNCHANGED <<runVars, resultVars, asked, inputVars, submission, queueVars,
                 workerVars, faults>>

\* ... that commits, ...
CommitCancel(r) ==
  /\ r \in cancelling
  /\ asked' = asked \union {r}
  /\ cancelling' = cancelling \ {r}
  /\ UNCHANGED <<runVars, resultVars, signal, inputVars, submission, queueVars,
                 workerVars, faults>>

\* ... or does not: the event is rolled back, the file stays.
CancelRollsBack(r) ==
  /\ r \in cancelling
  /\ cancelling' = cancelling \ {r}
  /\ Fault
  /\ UNCHANGED <<runVars, resultVars, asked, signal, inputVars, submission,
                 queueVars, workerVars>>

-----------------------------------------------------------------------------
(* Decisions on settled runs.                                              *)

DecisionFrame == UNCHANGED <<config, root, attempt, epoch, lapsed, snapshot,
                             reason, resultVars, inputVars, submission, queueVars,
                             workerVars, cancelVars, faults>>

\* markReviewed and markStageComplete make the same move.
Review(r) == Moves(r, "reviewed") /\ DecisionFrame

MarkExtended(r) == Moves(r, "progressively_extended") /\ DecisionFrame

\* supersedeSiblings: the period's other candidates.
MutantSiblings(r) == {s \in Runs \ {r} : state[s] \in CompletedFamily \ {"approved"}}
Siblings(r) == {s \in Runs \ {r} : state[s] \in CompletedFamily}

\* approveRun: the database admits a run whose result is usable, and the
\* siblings are superseded in the same transaction.
Approve(r) ==
  /\ <<state[r], "approved">> \in LegalTransitions
  /\ resultEpoch[r] # 0 /\ r \in usable
  /\ state' = [s \in Runs |-> IF s = r THEN "approved"
                              ELSE IF s \in Siblings(r) THEN "superseded"
                              ELSE state[s]]
  /\ DecisionFrame

\* buildStaleness: the revisions the stored snapshot cites are current.
MutantFresh(r) == TRUE
Fresh(r) == root[r] \notin moved

\* applyCandidateToNewDraft.
Apply(r) ==
  /\ Fresh(r)
  /\ Moves(r, "applied_to_draft_schedule")
  /\ DecisionFrame

\* archiveSettledRunsForClosedPeriod.
Archive ==
  /\ world \in Closed
  /\ \E r \in Runs : state[r] \in Settled
  /\ state' = [r \in Runs |-> IF state[r] \in Settled THEN "archived" ELSE state[r]]
  /\ DecisionFrame

-----------------------------------------------------------------------------
Submission(r) ==
  \/ \E c \in Configs, parent \in Runs \union {NoRun} : CreateRun(r, c, parent)
  \/ Submit(r) \/ Assemble(r) \/ AssemblyRefused(r)
  \/ ValidationFails(r) \/ ReadinessFails(r) \/ Enqueue(r) \/ SubmitterCrash(r)

WorkerStep(w) ==
  \/ \E r \in Runs : PickJob(w, r)
  \/ AbortJob(w) \/ Admit(w) \/ Defer(w) \/ ExhaustJob(w)
  \/ Claim(w) \/ NotClaimable(w)
  \/ \E a \in SolveAnswers : SolveReturns(w, a)
  \/ ResponseRejected(w) \/ PersistOutcome(w) \/ OutcomeFenced(w) \/ WorkerCrash(w)

Housekeeping(r) ==
  \/ ReclaimStranded(r) \/ HeartbeatLapses(r)
  \/ CancelQueued(r) \/ RequestCancel(r) \/ CommitCancel(r) \/ CancelRollsBack(r)

Decision(r) == Review(r) \/ MarkExtended(r) \/ Approve(r) \/ Apply(r)

Next ==
  \/ \E v \in Inputs : EditInputs(v)
  \/ \E r \in Runs : Submission(r)
  \/ \E w \in Workers : WorkerStep(w)
  \/ \E r \in Runs : Housekeeping(r)
  \/ \E orphaned \in SUBSET Runs : Sweep(orphaned)
  \/ \E r \in Runs : Decision(r)
  \/ Archive

Spec == Init /\ [][Next]_vars

-----------------------------------------------------------------------------
(* Fairness.  A task the pool holds goes on, a lock queue is first come    *)
(* first served, and a subprocess that does not answer is killed at its    *)
(* deadline; jobs are served in the order they were enqueued, and pools    *)
(* sweep for the leases of dead pools on a timer.  A transaction ends.     *)
WorkerFairness ==
  /\ \A w \in Workers :
       /\ SF_vars(Admit(w) \/ Defer(w))
       /\ WF_vars(Claim(w) \/ NotClaimable(w))
       /\ WF_vars(ResponseRejected(w) \/ \E a \in SolveAnswers : SolveReturns(w, a))
       /\ SF_vars(PersistOutcome(w) \/ OutcomeFenced(w))
  /\ \A r \in Runs :
       /\ SF_vars(\E w \in Workers : PickJob(w, r))
       /\ WF_vars(ReclaimStranded(r))
       /\ WF_vars(CommitCancel(r))
       /\ WF_vars(HeartbeatLapses(r))

HandlerFairness ==
  \A r \in Runs :
    /\ WF_vars(Assemble(r))
    /\ WF_vars(AssemblyRefused(r) \/ ValidationFails(r) \/ ReadinessFails(r) \/ Enqueue(r))

\* Somebody keeps posting to the reap route.  Nothing in the system does.
OldQueued == {r \in Runs : state[r] = "queued" /\ waiting[r] < MaxJobs}
SweepFairness ==
  \A r \in Runs : /\ SF_vars(r \in Stale /\ Sweep(OldQueued))
                  /\ WF_vars(r \in OldQueued /\ waiting[r] = 0 /\ Sweep(OldQueued))

WorkersOnlySpec == Spec /\ WorkerFairness /\ HandlerFairness
OperatedSpec    == WorkersOnlySpec /\ SweepFairness

-----------------------------------------------------------------------------
(* Safety.                                                                 *)

\* The organization never has more running builds than its cap: the count and
\* the claim that follows it are one decision (capacity.ts).
CapRespected == Cardinality(Running) <= Cap

\* Of the solves in progress, those whose claims still stand are within the
\* cap: what SolvesWithinCap, below, finds in excess was reaped.
StandingSolvesWithinCap ==
  Cardinality({w \in Workers : phase[w] = "solving" /\ ClaimIsCurrent(w)}) <= Cap

\* However many deliveries a run gets, only one worker ever solves it, so an
\* answer cannot meet another answer of the same run (claim.ts).
OneSolverPerRun ==
  \A v, w \in Workers :
    v # w /\ {phase[v], phase[w]} \subseteq {"solving", "answered"} => task[v] # task[w]

\* A stored result was written at the epoch the run still has, and a run whose
\* late answer was refused holds no result at all (claim.ts, runner.ts).
ResultsAreFenced ==
  \A r \in Runs : /\ resultEpoch[r] \in {0, epoch[r]}
                  /\ r \in refused => resultEpoch[r] = 0

\* A run anybody may still choose carries a result the independent checker
\* admitted, written at the run's own claim (states.ts, migration 0020).
CandidatesWereChecked ==
  \A r \in Runs : state[r] \in CompletedFamily => r \in usable /\ resultEpoch[r] = epoch[r]

\* Every run of a retry chain is pinned to the one document stored for the
\* chain, and what reaches the queue passed both checks (runner.ts).
ChainPosesOneProblem ==
  \A r \in Runs :
    /\ snapshot[r] # NoInput => snapshot[r] = store[root[r]]
    /\ state[r] \in CompletedFamily \union {"queued", "running"} =>
         snapshot[r] \in Inputs \ (Unassemblable \union Inconsistent \union Unready)

\* Approving a run retires every other candidate of the period, whatever stage
\* of review the others had reached (service.ts).
AtMostOneChosen ==
  \A r, s \in Runs :
    {state[r], state[s]} \subseteq {"approved", "applied_to_draft_schedule"} => r = s

\* While nothing fails, a run that ended as cancelled by its user has the
\* user's request on record, although the file the worker acts on is written
\* before the record is committed (runner.ts requestCancellation).
CancelledWasAsked == \A r \in Runs : reason[r] = "user_cancelled" => r \in asked
CancellationIsRecorded == faults = 0 => CancelledWasAsked

\* While nothing fails, no build in flight is forgotten: a request handler is
\* still submitting it, a job of it is on its way, or a worker that holds its
\* current claim works on it.  Nobody but the reaper ends a running build whose
\* response was rejected: dispatchBuild throws with the claim committed.
Attended(r) ==
  /\ state[r] = "validating" => submission[r] # "none"
  /\ state[r] = "queued" =>
       waiting[r] > 0 \/ \E w \in Workers : task[w] = r /\ phase[w] \in {"picked", "admitted"}
  /\ state[r] = "running" =>
       Garbled \/ \E w \in Workers :
         task[w] = r /\ phase[w] \in {"solving", "answered"} /\ ClaimIsCurrent(w)
InFlightIsAttended == faults = 0 => \A r \in Runs : Attended(r)

\* What a run records it records once, and a run that left flight never comes
\* back, whoever answers late (the guard of migration 0020 never fires).
HistoryIsFrozen ==
  [][\A r \in Runs :
       /\ epoch'[r] >= epoch[r]
       /\ snapshot[r] # NoInput => snapshot'[r] = snapshot[r]
       /\ reason[r] # "none" => reason'[r] = reason[r]
       /\ resultEpoch[r] # 0 => resultEpoch'[r] = resultEpoch[r]
       /\ state[r] \notin InFlight \union {"absent"} =>
            state'[r] \notin InFlight \union {"absent"}]_vars

\* The candidate written to a draft answers the period as it is now, not as it
\* was when the chain was pinned (selection.ts, staleness.ts).
OnlyFreshIsApplied ==
  [][\A r \in Runs :
       state[r] # "applied_to_draft_schedule" /\ state'[r] = "applied_to_draft_schedule"
         => snapshot[r] = world]_vars

\* The builds as whoever asks for them sees them: the stages of preparation,
\* of review and of failure are one each, and an answer is what the result's
\* row says.  Deliveries, claims, solves, cancel files and locks are not seen.
StageOf(s) ==
  IF s \in {"draft_configuration", "validating", "readiness_check"} THEN "preparing"
  ELSE IF s \in CompletedFamily \ {"approved", "applied_to_draft_schedule"} THEN "candidate"
  ELSE IF s \in (Settled \ CompletedFamily) \union {"archived"} THEN "ended"
  ELSE s

AnswerOf(r) ==
  IF resultEpoch[r] = 0 THEN "none" ELSE IF r \in usable THEN "usable" ELSE "useless"

Contract == INSTANCE BuildContract WITH
  stage   <- [r \in Runs |-> StageOf(state[r])],
  problem <- snapshot,
  answer  <- [r \in Runs |-> AnswerOf(r)]

\* Every step of a handler, a worker or the reaper is one step of the contract
\* or none: however many deliveries, crashes and late answers a run gets, it is
\* solved under the cap, answered once, and chosen over all others.
HonoursTheContract == Contract!ContractSpec

-----------------------------------------------------------------------------
(* Liveness, under OperatedSpec.                                           *)

\* A submission comes back to draft or gets its run an answer, although the
\* cap defers its job, jobs are dropped at shutdown and when their attempts run
\* out, workers die and cancellations come in between.  The exception is the
\* handler that dies between the transactions of submitBuild.
Concluded == {"draft_configuration", "archived"} \union Settled
SubmittedConcludes ==
  \A r \in Runs :
    state[r] = "validating" ~>
      state[r] \in Concluded \/ (state[r] = "validating" /\ submission[r] = "none")

-----------------------------------------------------------------------------
(* What the documents and comments say and the code does not do.           *)

\* "The reaper is what makes the build stopped a state the system can reach on
\* its own" (reaper.ts), and a response the client refuses "settles
\* failed/rejected" (concurrency-recovery-matrix.test.ts): a claimed run ends
\* without anybody's help.
RunningSettles == \A r \in Runs : state[r] = "running" ~> state[r] # "running"

\* The cap "bounds what is CONSUMING a solver slot" (migration 0019), and a
\* worker "heartbeats while running" (docs/architecture/08 section 4.1), so that
\* no slot is given away under it: at most Cap solves are in progress.
SolvesWithinCap == Cardinality({w \in Workers : phase[w] = "solving"}) <= Cap
=============================================================================
