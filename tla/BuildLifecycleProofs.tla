------------------------ MODULE BuildLifecycleProofs ------------------------
(***************************************************************************)
(* Proofs about BuildLifecycle, for every number of runs, configurations,  *)
(* workers and inputs, every cap, and without the bounds TLC needs.        *)
(***************************************************************************)
EXTENDS BuildLifecycle, FiniteSetTheorems, TLAPS

-----------------------------------------------------------------------------
(* Type correctness.  A busy slot has a task and a created run has a root: *)
(* without them the epoch a claim presents and the document a submission   *)
(* pins have no type.                                                      *)
TaskOK == \A w \in Workers : phase[w] # "idle" => task[w] \in Runs
RootOK == \A r \in Runs : state[r] # "absent" => root[r] \in Runs

TypeInv == TypeOK /\ TaskOK /\ RootOK

\* The classification of an answer is a state and a reason.
LEMMA ClassificationType ==
  ASSUME NEW a \in Answers
  PROVE  /\ ClassifiedState(a) \in BuildStates
         /\ ClassifiedReason(a) \in TerminationReasons
BY DEF Answers, ClassifiedState, ClassifiedReason, BuildStates, Settled, CompletedFamily,
       InFlight, TerminationReasons

\* A legal move is from one state to another.
LEMMA LegalType == LegalTransitions \subseteq BuildStates \X BuildStates
BY DEF LegalTransitions, BuildStates, InFlight, Settled, CompletedFamily

LEMMA MoveType ==
  ASSUME TypeOK, NEW r \in Runs, NEW to, Moves(r, to)
  PROVE  /\ state' \in [Runs -> BuildStates \union {"absent"}]
         /\ state[r] # "absent"
         /\ \A s \in Runs : state'[s] = IF s = r THEN to ELSE state[s]
<1>1. state[r] \in BuildStates /\ to \in BuildStates
  BY LegalType DEF Moves
<1>2. "absent" \notin BuildStates
  BY DEF BuildStates, InFlight, Settled, CompletedFamily
<1> QED
  BY <1>1, <1>2 DEF TypeOK, Moves

LEMMA StateNames ==
  {"draft_configuration", "validating", "queued", "running", "failed", "cancelled",
   "reviewed", "progressively_extended", "approved", "applied_to_draft_schedule",
   "superseded", "archived"} \subseteq BuildStates
BY DEF BuildStates, InFlight, Settled, CompletedFamily

LEMMA TypeInit == Init => TypeInv
BY SentinelsAssumption, BoundsAssumption
   DEF Init, TypeInv, TypeOK, TaskOK, RootOK, Phases, Submissions

LEMMA SubmissionType ==
  ASSUME TypeInv, NEW r \in Runs, Submission(r)
  PROVE  TypeInv'
<1> USE StateNames DEF TypeInv, TypeOK, TaskOK, RootOK, runVars, resultVars, inputVars, queueVars,
        workerVars, cancelVars, Submissions
<1>1. ASSUME NEW c \in Configs, NEW p \in Runs \union {NoRun}, CreateRun(r, c, p)
      PROVE  TypeInv'
  <2>1. attempt' \in [Runs -> 0 .. RetryLimit]
    BY <1>1, BoundsAssumption, SentinelsAssumption DEF CreateRun, MayRetry
  <2>2. root' \in [Runs -> Runs \union {NoRun}]
    BY <1>1, SentinelsAssumption DEF CreateRun
  <2>3. root'[r] \in Runs
    BY <1>1, SentinelsAssumption DEF CreateRun, MayRetry
  <2> QED
    BY <1>1, <2>1, <2>2, <2>3 DEF CreateRun
<1>2. CASE Submit(r)
  BY <1>2, MoveType DEF Submit
<1>3. CASE Assemble(r)
  BY <1>3 DEF Assemble
<1>4. CASE AssemblyRefused(r)
  BY <1>4, MoveType DEF AssemblyRefused
<1>5. CASE ValidationFails(r)
  BY <1>5, MoveType DEF ValidationFails
<1>6. CASE ReadinessFails(r)
  BY <1>6 DEF ReadinessFails, Document
<1>7. CASE Enqueue(r)
  BY <1>7 DEF Enqueue, EnqueueBuildSolve, Document
<1>8. CASE SubmitterCrash(r)
  BY <1>8, BoundsAssumption DEF SubmitterCrash, Fault
<1> QED
  BY <1>1, <1>2, <1>3, <1>4, <1>5, <1>6, <1>7, <1>8 DEF Submission

LEMMA WorkerType ==
  ASSUME TypeInv, NEW w \in Workers, WorkerStep(w)
  PROVE  TypeInv'
<1> USE StateNames DEF TypeInv, TypeOK, TaskOK, RootOK, runVars, resultVars, inputVars,
        queueVars, workerVars, cancelVars, Phases, SlotFreed, JobCompletes, JobRetries,
        LockReleased, Fault
<1>1. ASSUME NEW r \in Runs, PickJob(w, r)
      PROVE  TypeInv'
  BY <1>1 DEF PickJob
<1>2. CASE AbortJob(w)
  BY <1>2, BoundsAssumption DEF AbortJob
<1>3. CASE Admit(w)
  BY <1>3 DEF Admit
<1>4. CASE Defer(w)
  BY <1>4 DEF Defer, AtCap
<1>5. CASE ExhaustJob(w)
  BY <1>5, BoundsAssumption DEF ExhaustJob, AtCap
<1>6. CASE Claim(w)
  BY <1>6 DEF Claim, Claimable
<1>7. CASE NotClaimable(w)
  BY <1>7 DEF NotClaimable
<1>8. ASSUME NEW a \in SolveAnswers, SolveReturns(w, a)
      PROVE  TypeInv'
  BY <1>8, BoundsAssumption DEF SolveReturns
<1>9. CASE ResponseRejected(w)
  BY <1>9 DEF ResponseRejected
<1>10. CASE PersistOutcome(w)
  <2>1. task[w] \in Runs
    BY <1>10 DEF PersistOutcome
  <2>2. ClassifiedReason(answer[w]) \in TerminationReasons
    BY DEF ClassifiedReason, TerminationReasons
  <2> QED
    BY <1>10, <2>1, <2>2, MoveType DEF PersistOutcome
<1>11. CASE OutcomeFenced(w)
  BY <1>11 DEF OutcomeFenced
<1>12. CASE WorkerCrash(w)
  BY <1>12, BoundsAssumption DEF WorkerCrash
<1> QED
  BY <1>1, <1>2, <1>3, <1>4, <1>5, <1>6, <1>7, <1>8, <1>9, <1>10, <1>11, <1>12
     DEF WorkerStep

LEMMA HousekeepingType ==
  ASSUME TypeInv, NEW r \in Runs, Housekeeping(r)
  PROVE  TypeInv'
<1> USE StateNames DEF TypeInv, TypeOK, TaskOK, RootOK, runVars, resultVars, inputVars,
        queueVars, workerVars, cancelVars, Fault
<1>1. CASE ReclaimStranded(r)
  BY <1>1 DEF ReclaimStranded
<1>2. CASE HeartbeatLapses(r)
  BY <1>2 DEF HeartbeatLapses
<1>3. CASE CancelQueued(r)
  BY <1>3, MoveType DEF CancelQueued, TerminationReasons
<1>4. CASE RequestCancel(r)
  BY <1>4 DEF RequestCancel
<1>5. CASE CommitCancel(r)
  BY <1>5 DEF CommitCancel
<1>6. CASE CancelRollsBack(r)
  BY <1>6, BoundsAssumption DEF CancelRollsBack
<1> QED
  BY <1>1, <1>2, <1>3, <1>4, <1>5, <1>6 DEF Housekeeping

LEMMA DecisionType ==
  ASSUME TypeInv, NEW r \in Runs, Decision(r)
  PROVE  TypeInv'
<1> USE StateNames DEF TypeInv, TypeOK, TaskOK, RootOK, runVars, resultVars, inputVars,
        queueVars, workerVars, cancelVars, DecisionFrame
<1>1. CASE Review(r)
  BY <1>1, MoveType DEF Review
<1>2. CASE MarkExtended(r)
  BY <1>2, MoveType DEF MarkExtended
<1>3. CASE Approve(r)
  <2>1. state[r] # "absent"
    BY <1>3, LegalType DEF Approve, BuildStates, InFlight, Settled, CompletedFamily
  <2>2. \A s \in Siblings(r) : state[s] # "absent"
    BY DEF Siblings, CompletedFamily
  <2> QED
    BY <1>3, <2>1, <2>2 DEF Approve
<1>4. CASE Apply(r)
  BY <1>4, MoveType DEF Apply
<1> QED
  BY <1>1, <1>2, <1>3, <1>4 DEF Decision

LEMMA TypeStep == TypeInv /\ [Next]_vars => TypeInv'
<1> SUFFICES ASSUME TypeInv, [Next]_vars PROVE TypeInv'
  OBVIOUS
<1>1. ASSUME NEW v \in Inputs, EditInputs(v) PROVE TypeInv'
  BY <1>1 DEF EditInputs, TypeInv, TypeOK, TaskOK, RootOK, runVars, resultVars,
              queueVars, workerVars, cancelVars
<1>2. ASSUME NEW q \in SUBSET Runs, Sweep(q) PROVE TypeInv'
  BY <1>2, StateNames DEF Sweep, Stale, Running, TypeInv, TypeOK, TaskOK, RootOK,
              resultVars, inputVars, workerVars, cancelVars, TerminationReasons
<1>3. CASE Archive
  BY <1>3, StateNames DEF Archive, DecisionFrame, Settled, CompletedFamily, TypeInv,
              TypeOK, TaskOK, RootOK, resultVars, inputVars, queueVars, workerVars, cancelVars
<1>4. CASE UNCHANGED vars
  BY <1>4 DEF vars, TypeInv, TypeOK, TaskOK, RootOK, runVars, resultVars, inputVars,
              queueVars, workerVars, cancelVars
<1> QED
  BY <1>1, <1>2, <1>3, <1>4, SubmissionType, WorkerType, HousekeepingType, DecisionType
     DEF Next

\* Every variable has its type, whatever the number of runs and workers.
THEOREM TypeCorrect == Spec => []TypeOK
<1>1. Spec => []TypeInv
  BY TypeInit, TypeStep, PTL DEF Spec
<1> QED
  BY <1>1, PTL DEF TypeInv

-----------------------------------------------------------------------------
(* The fence.  Neither ResultsAreFenced nor OneSolverPerRun is inductive:  *)
(* both rest on the life of a claim.  A run is at epoch 0 until it is      *)
(* claimed, at 1 while its claim stands and at 2 once it is reaped, so the *)
(* worker that answers it presents 1, and either the claim still stands    *)
(* and nothing is stored, or the run was reaped and nothing will be.       *)
Unclaimed == {"absent", "draft_configuration", "validating", "readiness_check", "queued"}
Busy(w) == phase[w] \in {"solving", "answered"}

ClaimLife(r) ==
  /\ state[r] \in Unclaimed => epoch[r] = 0
  /\ state[r] = "running" => epoch[r] = 1 /\ resultEpoch[r] = 0
  /\ resultEpoch[r] # 0 => resultEpoch[r] = 1 /\ epoch[r] = 1
  /\ r \in refused => epoch[r] = 2

AnswerLife(w) ==
  Busy(w) => /\ present[w] = 1
             /\ \/ state[task[w]] = "running" /\ epoch[task[w]] = 1
                \/ epoch[task[w]] = 2

FenceInv ==
  /\ \A r \in Runs : ClaimLife(r)
  /\ \A w \in Workers : AnswerLife(w)
  /\ OneSolverPerRun

LEMMA FenceInit == Init => FenceInv
BY DEF Init, FenceInv, ClaimLife, AnswerLife, Busy, Unclaimed, OneSolverPerRun

\* A step that leaves the claims alone keeps the fence, if it keeps every run
\* on the side of the claim where it was.
LEMMA FenceFrame ==
  ASSUME TypeInv, FenceInv,
         UNCHANGED <<epoch, resultEpoch, refused, phase, task, present>>,
         \A r \in Runs : /\ state'[r] \in Unclaimed => state[r] \in Unclaimed
                         /\ state'[r] = "running" <=> state[r] = "running"
  PROVE  FenceInv'
BY DEF TypeInv, TaskOK, FenceInv, ClaimLife, AnswerLife, Busy, OneSolverPerRun

\* Submission moves runs among the unclaimed states.
LEMMA FenceSubmission ==
  ASSUME TypeInv, FenceInv, NEW r \in Runs, Submission(r)
  PROVE  FenceInv'
<1> USE DEF TypeInv, TypeOK, Unclaimed, runVars, resultVars, workerVars
<1>1. ASSUME NEW c \in Configs, NEW p \in Runs \union {NoRun}, CreateRun(r, c, p)
      PROVE  FenceInv'
  BY <1>1, FenceFrame DEF CreateRun
<1>2. CASE Submit(r)
  BY <1>2, FenceFrame, MoveType DEF Submit, Moves, LegalTransitions, CompletedFamily, Settled
<1>3. CASE Assemble(r)
  BY <1>3, FenceFrame DEF Assemble
<1>4. CASE AssemblyRefused(r)
  BY <1>4, FenceFrame, MoveType
     DEF AssemblyRefused, Moves, LegalTransitions, CompletedFamily, Settled
<1>5. CASE ValidationFails(r)
  BY <1>5, FenceFrame, MoveType DEF ValidationFails
<1>6. CASE ReadinessFails(r)
  BY <1>6, FenceFrame DEF ReadinessFails
<1>7. CASE Enqueue(r)
  BY <1>7, FenceFrame DEF Enqueue
<1>8. CASE SubmitterCrash(r)
  BY <1>8, FenceFrame DEF SubmitterCrash
<1> QED
  BY <1>1, <1>2, <1>3, <1>4, <1>5, <1>6, <1>7, <1>8 DEF Submission

LEMMA FenceWorker ==
  ASSUME TypeInv, FenceInv, NEW w \in Workers, WorkerStep(w)
  PROVE  FenceInv'
<1> USE DEF TypeInv, TypeOK, TaskOK, runVars, resultVars, SlotFreed, JobCompletes,
        JobRetries, FenceInv, ClaimLife, AnswerLife, Busy, OneSolverPerRun
<1>1. ASSUME NEW r \in Runs, PickJob(w, r)
      PROVE  FenceInv'
  BY <1>1 DEF PickJob
<1>2. CASE AbortJob(w)
  BY <1>2 DEF AbortJob
<1>3. CASE Admit(w)
  BY <1>3 DEF Admit
<1>4. CASE Defer(w)
  BY <1>4 DEF Defer, AtCap
<1>5. CASE ExhaustJob(w)
  BY <1>5 DEF ExhaustJob, AtCap
<1>6. CASE Claim(w)
  BY <1>6 DEF Claim, Claimable, Unclaimed
<1>7. CASE NotClaimable(w)
  BY <1>7 DEF NotClaimable
<1>8. ASSUME NEW a \in SolveAnswers, SolveReturns(w, a)
      PROVE  FenceInv'
  BY <1>8 DEF SolveReturns
<1>9. CASE ResponseRejected(w)
  BY <1>9 DEF ResponseRejected
<1>10. CASE PersistOutcome(w)
  <2>1. ClassifiedState(answer[w]) \notin Unclaimed \union {"running"}
    BY <1>10 DEF PersistOutcome, Moves, LegalTransitions, ClaimIsCurrent, Unclaimed,
                 CompletedFamily, Settled
  <2> QED
    BY <1>10, <2>1, MoveType DEF PersistOutcome, ClaimIsCurrent
<1>11. CASE OutcomeFenced(w)
  BY <1>11 DEF OutcomeFenced, ClaimIsCurrent
<1>12. CASE WorkerCrash(w)
  BY <1>12 DEF WorkerCrash
<1> QED
  BY <1>1, <1>2, <1>3, <1>4, <1>5, <1>6, <1>7, <1>8, <1>9, <1>10, <1>11, <1>12
     DEF WorkerStep

LEMMA FenceHousekeeping ==
  ASSUME TypeInv, FenceInv, NEW r \in Runs, Housekeeping(r)
  PROVE  FenceInv'
<1> USE DEF TypeInv, TypeOK, runVars, resultVars, workerVars
<1>1. CASE ReclaimStranded(r)
  BY <1>1, FenceFrame DEF ReclaimStranded
<1>2. CASE HeartbeatLapses(r)
  BY <1>2, FenceFrame DEF HeartbeatLapses
<1>3. CASE CancelQueued(r)
  BY <1>3, FenceFrame, MoveType DEF CancelQueued, Unclaimed
<1>4. CASE RequestCancel(r)
  BY <1>4, FenceFrame DEF RequestCancel
<1>5. CASE CommitCancel(r)
  BY <1>5, FenceFrame DEF CommitCancel
<1>6. CASE CancelRollsBack(r)
  BY <1>6, FenceFrame DEF CancelRollsBack
<1> QED
  BY <1>1, <1>2, <1>3, <1>4, <1>5, <1>6 DEF Housekeeping

\* No decision touches a run that is unclaimed or running.
LEMMA FenceDecision ==
  ASSUME TypeInv, FenceInv, NEW r \in Runs, Decision(r)
  PROVE  FenceInv'
<1> USE DEF TypeInv, TypeOK, DecisionFrame, resultVars, workerVars, Unclaimed,
        LegalTransitions, CompletedFamily, Settled
<1>1. CASE Review(r)
  BY <1>1, FenceFrame, MoveType DEF Review, Moves
<1>2. CASE MarkExtended(r)
  BY <1>2, FenceFrame, MoveType DEF MarkExtended, Moves
<1>3. CASE Approve(r)
  BY <1>3, FenceFrame DEF Approve, Siblings
<1>4. CASE Apply(r)
  BY <1>4, FenceFrame, MoveType DEF Apply, Moves
<1> QED
  BY <1>1, <1>2, <1>3, <1>4 DEF Decision

\* The reaper takes a run from epoch 1 to epoch 2, whoever is solving it.
LEMMA FenceSweep ==
  ASSUME TypeInv, FenceInv, NEW q \in SUBSET Runs, Sweep(q)
  PROVE  FenceInv'
<1> USE DEF Sweep, Stale, Running, TypeInv, TypeOK, TaskOK, FenceInv, ClaimLife, AnswerLife,
        Busy, OneSolverPerRun, Unclaimed, resultVars, workerVars
<1>1. \A r \in Runs : ClaimLife(r)'
  OBVIOUS
<1>2. \A w \in Workers : AnswerLife(w)'
  OBVIOUS
<1> QED
  BY <1>1, <1>2

LEMMA FenceStep == TypeInv /\ FenceInv /\ [Next]_vars => FenceInv'
<1> SUFFICES ASSUME TypeInv, FenceInv, [Next]_vars PROVE FenceInv'
  OBVIOUS
<1>1. ASSUME NEW v \in Inputs, EditInputs(v) PROVE FenceInv'
  BY <1>1, FenceFrame DEF EditInputs, runVars, resultVars, workerVars
<1>2. CASE Archive
  BY <1>2, FenceFrame DEF Archive, DecisionFrame, Unclaimed, Settled, CompletedFamily,
              TypeInv, TypeOK, resultVars, workerVars
<1>3. CASE UNCHANGED vars
  BY <1>3, FenceFrame DEF vars, runVars, resultVars, workerVars
<1> QED
  BY <1>1, <1>2, <1>3, FenceSubmission, FenceWorker, FenceHousekeeping, FenceSweep,
     FenceDecision DEF Next

LEMMA FenceHolds == Spec => [](TypeInv /\ FenceInv)
BY TypeInit, TypeStep, FenceInit, FenceStep, PTL DEF Spec

\* Whatever the number of deliveries, of workers and of crashes, one worker at
\* most is solving a run or holding its answer.
THEOREM OneSolver == Spec => []OneSolverPerRun
BY FenceHolds, PTL DEF FenceInv

\* No stored result was written by a claim that had been replaced, and a run
\* that refused a late answer has no result.
THEOREM ResultsFenced == Spec => []ResultsAreFenced
<1>1. TypeInv /\ FenceInv => ResultsAreFenced
  BY DEF TypeInv, TypeOK, FenceInv, ClaimLife, ResultsAreFenced
<1> QED
  BY <1>1, FenceHolds, PTL

-----------------------------------------------------------------------------
(* What a step of the system can do to one run: keep it, or take it from   *)
(* one part of its life to the next.  The actions are examined once, here; *)
(* the arguments about a run's record go by these cases.                   *)
Record(r) == <<state[r], root[r], epoch[r], snapshot[r], reason[r], resultEpoch[r]>>

Kept(r) == Record(r)' = Record(r)

\* createRun.
Created(r) ==
  /\ state[r] = "absent" /\ state'[r] = "draft_configuration" /\ root'[r] \in Runs
  /\ UNCHANGED <<epoch[r], snapshot[r], reason[r], resultEpoch[r]>>

\* submitBuild, to validating and back.
Submitting(r) ==
  /\ {state[r], state'[r]} \subseteq {"draft_configuration", "validating", "readiness_check"}
  /\ UNCHANGED <<root[r], epoch[r], snapshot[r], reason[r], resultEpoch[r]>>

\* submitBuild, pinning the snapshot.
Pinned(r) ==
  /\ state[r] = "validating" /\ submission[r] = "assembled"
  /\ \/ state'[r] = "draft_configuration"
     \/ /\ state'[r] = "queued"
        /\ ~ConfigurationFindings(Document(r)) /\ ~ReadinessFindings(Document(r))
  /\ snapshot'[r] = Document(r)
  /\ UNCHANGED <<root[r], epoch[r], reason[r], resultEpoch[r]>>

\* claimQueuedBuild.
Claimed(r) ==
  /\ state[r] = "queued" /\ state'[r] = "running" /\ epoch'[r] = epoch[r] + 1
  /\ UNCHANGED <<root[r], snapshot[r], reason[r], resultEpoch[r]>>

\* persistOutcome.
Answered(r) ==
  /\ state[r] = "running" /\ state'[r] \in Settled \ {"superseded"}
  /\ resultEpoch'[r] = epoch[r]
  /\ state'[r] \in CompletedFamily =>
       r \in usable' /\ state'[r] \notin {"approved", "applied_to_draft_schedule"}
  /\ UNCHANGED <<root[r], epoch[r], snapshot[r]>>

\* Cancelled in the queue, or reaped.
Ended(r) ==
  /\ \/ state[r] = "queued"  /\ state'[r] = "cancelled" /\ epoch'[r] = epoch[r]
     \/ state[r] = "running" /\ state'[r] = "failed"    /\ epoch'[r] = epoch[r] + 1
  /\ UNCHANGED <<root[r], snapshot[r], resultEpoch[r]>>

\* Reviewed, extended, approved, applied, superseded or archived.
Decided(r) ==
  /\ state[r] \in Settled /\ state'[r] \in Settled \union {"archived"}
  /\ state'[r] \in CompletedFamily => state[r] \in CompletedFamily
  /\ state'[r] = "applied_to_draft_schedule" => state[r] = "approved" /\ Fresh(r)
  /\ state'[r] = "approved" =>
       \A s \in Runs \ {r} : state'[s] \notin {"approved", "applied_to_draft_schedule"}
  /\ UNCHANGED <<root[r], epoch[r], snapshot[r], reason[r], resultEpoch[r]>>

RunStep(r) ==
  \/ Kept(r) \/ Created(r) \/ Submitting(r) \/ Pinned(r)
  \/ Claimed(r) \/ Answered(r) \/ Ended(r) \/ Decided(r)

RunSteps == usable \subseteq usable' /\ \A r \in Runs : RunStep(r)

LEMMA SubmissionSteps ==
  ASSUME TypeInv, NEW r \in Runs, Submission(r)
  PROVE  RunSteps
<1> USE DEF TypeInv, TypeOK, RootOK, runVars, resultVars, inputVars, RunSteps, RunStep,
        Kept, Record
<1>1. ASSUME NEW c \in Configs, NEW p \in Runs \union {NoRun}, CreateRun(r, c, p)
      PROVE  RunSteps
  <2>1. root'[r] \in Runs
    BY <1>1, SentinelsAssumption DEF CreateRun, MayRetry
  <2> QED
    BY <1>1, <2>1 DEF CreateRun, Created
<1>2. CASE Submit(r)
  BY <1>2, MoveType
     DEF Submit, Moves, Submitting, LegalTransitions, CompletedFamily, Settled
<1>3. CASE Assemble(r)
  BY <1>3 DEF Assemble
<1>4. CASE AssemblyRefused(r)
  <2>1. state[r] = "validating" \/ state[r] = "readiness_check"
    BY <1>4 DEF AssemblyRefused, Moves, LegalTransitions, CompletedFamily, Settled
  <2> QED
    BY <1>4, <2>1, MoveType DEF AssemblyRefused, Submitting
<1>5. CASE ValidationFails(r)
  BY <1>5, MoveType DEF ValidationFails, Submitting
<1>6. CASE ReadinessFails(r)
  BY <1>6 DEF ReadinessFails, Pinned
<1>7. CASE Enqueue(r)
  BY <1>7 DEF Enqueue, Pinned
<1>8. CASE SubmitterCrash(r)
  BY <1>8 DEF SubmitterCrash
<1> QED
  BY <1>1, <1>2, <1>3, <1>4, <1>5, <1>6, <1>7, <1>8 DEF Submission

LEMMA WorkerSteps ==
  ASSUME TypeInv, NEW w \in Workers, WorkerStep(w)
  PROVE  RunSteps
<1> USE DEF TypeInv, TypeOK, TaskOK, runVars, resultVars, RunSteps, RunStep, Kept, Record
<1>1. ASSUME NEW r \in Runs, PickJob(w, r)
      PROVE  RunSteps
  BY <1>1 DEF PickJob
<1>2. CASE AbortJob(w)
  BY <1>2 DEF AbortJob
<1>3. CASE Admit(w)
  BY <1>3 DEF Admit
<1>4. CASE Defer(w)
  BY <1>4 DEF Defer
<1>5. CASE ExhaustJob(w)
  BY <1>5 DEF ExhaustJob
<1>6. CASE Claim(w)
  BY <1>6 DEF Claim, Claimable, Claimed
<1>7. CASE NotClaimable(w)
  BY <1>7 DEF NotClaimable
<1>8. ASSUME NEW a \in SolveAnswers, SolveReturns(w, a)
      PROVE  RunSteps
  BY <1>8 DEF SolveReturns
<1>9. CASE ResponseRejected(w)
  BY <1>9 DEF ResponseRejected
<1>10. CASE PersistOutcome(w)
  <2> DEFINE to == ClassifiedState(answer[w])
  <2>1. PICK r \in Runs : r = task[w]
    BY <1>10 DEF PersistOutcome
  <2>2. /\ to \in Settled \ {"superseded", "approved", "applied_to_draft_schedule"}
        /\ to \in CompletedFamily => Usable(answer[w])
    BY DEF ClassifiedState, Settled, CompletedFamily, Usable
  <2>3. state'[r] = to
    BY <1>10, <2>1, MoveType DEF PersistOutcome
  <2>4. state[r] = "running" /\ resultEpoch'[r] = epoch[r]
    BY <1>10, <2>1 DEF PersistOutcome, ClaimIsCurrent
  <2>5. Usable(answer[w]) => r \in usable'
    BY <1>10, <2>1 DEF PersistOutcome
  <2>6. UNCHANGED <<root[r], epoch[r], snapshot[r]>>
    BY <1>10 DEF PersistOutcome
  <2>7. Answered(r)
    BY <2>2, <2>3, <2>4, <2>5, <2>6 DEF Answered
  <2>8. \A s \in Runs \ {r} : Kept(s)
    BY <1>10, <2>1, MoveType DEF PersistOutcome
  <2> QED
    BY <1>10, <2>7, <2>8 DEF PersistOutcome
<1>11. CASE OutcomeFenced(w)
  BY <1>11 DEF OutcomeFenced
<1>12. CASE WorkerCrash(w)
  BY <1>12 DEF WorkerCrash
<1> QED
  BY <1>1, <1>2, <1>3, <1>4, <1>5, <1>6, <1>7, <1>8, <1>9, <1>10, <1>11, <1>12
     DEF WorkerStep

LEMMA HousekeepingSteps ==
  ASSUME TypeInv, NEW r \in Runs, Housekeeping(r)
  PROVE  RunSteps
<1> USE DEF TypeInv, TypeOK, runVars, resultVars, RunSteps, RunStep, Kept, Record
<1>1. CASE ReclaimStranded(r)
  BY <1>1 DEF ReclaimStranded
<1>2. CASE HeartbeatLapses(r)
  BY <1>2 DEF HeartbeatLapses
<1>3. CASE CancelQueued(r)
  BY <1>3, MoveType DEF CancelQueued, Ended
<1>4. CASE RequestCancel(r)
  BY <1>4 DEF RequestCancel
<1>5. CASE CommitCancel(r)
  BY <1>5 DEF CommitCancel
<1>6. CASE CancelRollsBack(r)
  BY <1>6 DEF CancelRollsBack
<1> QED
  BY <1>1, <1>2, <1>3, <1>4, <1>5, <1>6 DEF Housekeeping

LEMMA DecisionSteps ==
  ASSUME TypeInv, NEW r \in Runs, Decision(r)
  PROVE  RunSteps
<1> USE DEF TypeInv, TypeOK, DecisionFrame, resultVars, RunSteps, RunStep, Kept, Record,
        Decided, LegalTransitions, CompletedFamily, Settled
<1>1. CASE Review(r)
  BY <1>1, MoveType DEF Review, Moves
<1>2. CASE MarkExtended(r)
  BY <1>2, MoveType DEF MarkExtended, Moves
<1>3. CASE Approve(r)
  <2>1. state[r] = "reviewed"
    BY <1>3 DEF Approve
  <2>2. /\ state'[r] = "approved"
        /\ \A s \in Runs \ {r} : state'[s] \notin {"approved", "applied_to_draft_schedule"}
    BY <1>3 DEF Approve, Siblings
  <2>3. Decided(r)
    BY <1>3, <2>1, <2>2 DEF Approve
  <2>4. \A s \in Siblings(r) : Decided(s)
    BY <1>3 DEF Approve, Siblings
  <2>5. \A s \in Runs \ {r} : s \notin Siblings(r) => Kept(s)
    BY <1>3 DEF Approve
  <2> HIDE DEF Decided, Kept
  <2> QED
    BY <1>3, <2>3, <2>4, <2>5 DEF Approve
<1>4. CASE Apply(r)
  <2>1. state[r] = "approved"
    BY <1>4 DEF Apply, Moves
  <2> QED
    BY <1>4, <2>1, MoveType DEF Apply
<1> QED
  BY <1>1, <1>2, <1>3, <1>4 DEF Decision

LEMMA EveryStep == TypeInv /\ [Next]_vars => RunSteps
<1> SUFFICES ASSUME TypeInv, [Next]_vars PROVE RunSteps
  OBVIOUS
<1> USE DEF TypeInv, TypeOK, runVars, resultVars, RunSteps, RunStep, Kept, Record
<1>1. ASSUME NEW v \in Inputs, EditInputs(v) PROVE RunSteps
  BY <1>1 DEF EditInputs
<1>2. ASSUME NEW q \in SUBSET Runs, Sweep(q) PROVE RunSteps
  BY <1>2 DEF Sweep, Stale, Running, Ended
<1>3. CASE Archive
  BY <1>3 DEF Archive, DecisionFrame, Decided, Settled, CompletedFamily
<1>4. CASE UNCHANGED vars
  BY <1>4 DEF vars
<1> QED
  BY <1>1, <1>2, <1>3, <1>4, SubmissionSteps, WorkerSteps, HousekeepingSteps, DecisionSteps
     DEF Next

-----------------------------------------------------------------------------
(* The cap.  The count of running builds is read when the capacity lock is *)
(* taken and used when the claim commits: what carries the count over is   *)
(* that no other worker can be between the two.                            *)
CapInv ==
  /\ \A w \in Workers :
       phase[w] = "admitted" => capLock = w /\ Cardinality(Running) < Cap
  /\ CapRespected

LEMMA RunningFinite == TypeOK => IsFiniteSet(Running) /\ Cardinality(Running) \in Nat
BY BoundsAssumption, FS_Subset, FS_CardinalityType DEF Running

LEMMA CapInit == Init => CapInv
<1> SUFFICES ASSUME Init PROVE CapInv
  OBVIOUS
<1>1. Running = {}
  BY DEF Init, Running
<1> QED
  BY <1>1, FS_EmptySet, BoundsAssumption DEF Init, CapInv, CapRespected

\* A step that admits nobody, takes no lock from its holder and starts no build.
LEMMA CapFrame ==
  ASSUME TypeOK, TypeOK', CapInv,
         \A r \in Runs : state'[r] = "running" => state[r] = "running",
         \A w \in Workers : phase'[w] = "admitted" => phase[w] = "admitted" /\ capLock' = capLock
  PROVE  CapInv'
<1>1. Running' \subseteq Running
  BY DEF Running
<1>2. Cardinality(Running') <= Cardinality(Running) /\ Cardinality(Running') \in Nat
  BY <1>1, RunningFinite, FS_Subset, FS_CardinalityType
<1>3. Cardinality(Running)' = Cardinality(Running')
  OBVIOUS
<1> QED
  BY <1>2, <1>3, RunningFinite, BoundsAssumption DEF CapInv, CapRespected

LEMMA CapWorker ==
  ASSUME TypeInv, TypeInv', CapInv, NEW w \in Workers, WorkerStep(w)
  PROVE  CapInv'
<1> USE DEF TypeInv, TypeOK, runVars, SlotFreed, JobCompletes, JobRetries
<1>1. ASSUME NEW r \in Runs, PickJob(w, r)
      PROVE  CapInv'
  BY <1>1, CapFrame DEF PickJob
<1>2. CASE AbortJob(w)
  BY <1>2, CapFrame DEF AbortJob
<1>3. CASE Admit(w)
  <2>1. \A v \in Workers : phase[v] # "admitted"
    BY <1>3, SentinelsAssumption DEF Admit, LockFree, CapInv
  <2>2. Running' = Running
    BY <1>3 DEF Admit, Running
  <2>3. \A v \in Workers : phase'[v] = "admitted" => v = w
    BY <1>3, <2>1 DEF Admit
  <2>4. capLock' = w /\ Cardinality(Running)' < Cap
    BY <1>3, <2>2 DEF Admit
  <2> QED
    BY <2>2, <2>3, <2>4 DEF CapInv, CapRespected
<1>4. CASE Defer(w)
  BY <1>4, CapFrame DEF Defer, AtCap
<1>5. CASE ExhaustJob(w)
  BY <1>5, CapFrame DEF ExhaustJob, AtCap
<1>6. CASE Claim(w)
  <2> DEFINE r == task[w]
  <2>1. r \in Runs /\ state[r] = "queued" /\ phase[w] = "admitted"
    BY <1>6 DEF Claim, Claimable, TaskOK
  <2>2. Running' = Running \union {r} /\ r \notin Running
    BY <1>6, <2>1 DEF Claim, Running
  <2>3. Cardinality(Running') = Cardinality(Running) + 1
    BY <2>2, RunningFinite, FS_AddElement
  <2>4. Cardinality(Running)' <= Cap
    BY <2>1, <2>3, RunningFinite, BoundsAssumption DEF CapInv
  <2>5. \A v \in Workers : phase'[v] # "admitted"
    BY <1>6, <2>1 DEF Claim, CapInv
  <2> QED
    BY <2>4, <2>5 DEF CapInv, CapRespected
<1>7. CASE NotClaimable(w)
  <2>1. \A v \in Workers : phase'[v] # "admitted"
    BY <1>7 DEF NotClaimable, CapInv
  <2> QED
    BY <1>7, <2>1, CapFrame DEF NotClaimable
<1>8. ASSUME NEW a \in SolveAnswers, SolveReturns(w, a)
      PROVE  CapInv'
  BY <1>8, CapFrame DEF SolveReturns
<1>9. CASE ResponseRejected(w)
  BY <1>9, CapFrame DEF ResponseRejected
<1>10. CASE PersistOutcome(w)
  <2>1. task[w] \in Runs /\ ClassifiedState(answer[w]) # "running"
    BY <1>10 DEF PersistOutcome, TaskOK, ClassifiedState
  <2> QED
    BY <1>10, <2>1, CapFrame, MoveType DEF PersistOutcome
<1>11. CASE OutcomeFenced(w)
  BY <1>11, CapFrame DEF OutcomeFenced
<1>12. CASE WorkerCrash(w)
  BY <1>12, CapFrame DEF WorkerCrash, CapInv
<1> QED
  BY <1>1, <1>2, <1>3, <1>4, <1>5, <1>6, <1>7, <1>8, <1>9, <1>10, <1>11, <1>12
     DEF WorkerStep

\* A worker's step starts a build only by a claim that held the lock; any other
\* step leaves the lock alone and starts none.
LEMMA CapStep == TypeInv /\ CapInv /\ [Next]_vars => CapInv'
<1> SUFFICES ASSUME TypeInv, CapInv, [Next]_vars PROVE CapInv'
  OBVIOUS
<1>1. TypeInv'
  BY TypeStep
<1>2. CASE \E w \in Workers : WorkerStep(w)
  BY <1>1, <1>2, CapWorker
<1>3. CASE ~ \E w \in Workers : WorkerStep(w)
  <2>1. UNCHANGED <<phase, capLock>>
    BY <1>3 DEF Next, vars, workerVars, Submission, CreateRun, Submit, Assemble,
       AssemblyRefused, ValidationFails, ReadinessFails, Enqueue, SubmitterCrash,
       EditInputs, Housekeeping, ReclaimStranded, HeartbeatLapses, CancelQueued,
       RequestCancel, CommitCancel, CancelRollsBack, Sweep, Decision, Review,
       MarkExtended, Approve, Apply, Archive, DecisionFrame
  <2>2. \A r \in Runs : state'[r] = "running" => state[r] = "running"
    <3>1. CASE UNCHANGED epoch
      BY <3>1, EveryStep DEF TypeInv, TypeOK, RunSteps, RunStep, Kept, Record, Created,
         Submitting, Pinned, Claimed, Answered, Ended, Decided, Settled, CompletedFamily
    <3>2. CASE \E q \in SUBSET Runs : Sweep(q)
      BY <3>2 DEF Sweep
    <3> QED
      BY <1>3, <3>1, <3>2 DEF Next, vars, runVars, Submission, CreateRun, Submit, Assemble,
         AssemblyRefused, ValidationFails, ReadinessFails, Enqueue, SubmitterCrash,
         EditInputs, Housekeeping, ReclaimStranded, HeartbeatLapses, CancelQueued,
         RequestCancel, CommitCancel, CancelRollsBack, Decision, Review,
         MarkExtended, Approve, Apply, Archive, DecisionFrame
  <2> QED
    BY <1>1, <2>1, <2>2, CapFrame DEF TypeInv
<1> QED
  BY <1>2, <1>3

\* The organization never has more running builds than its cap, whatever its
\* workers, its duplicate deliveries and its crashes (capacity.ts).
THEOREM CapKept == Spec => []CapRespected
<1>1. Spec => [](TypeInv /\ CapInv)
  BY TypeInit, TypeStep, CapInit, CapStep, PTL DEF Spec
<1> QED
  BY <1>1, PTL DEF CapInv

\* The solves whose claims stand are of different runs, and those runs are
\* running: no more solver processes than the cap are worth waiting for,
\* however many the reaper has given up on (claim.ts, capacity.ts).
THEOREM StandingSolvesCapped == Spec => []StandingSolvesWithinCap
<1>1. TypeInv /\ FenceInv /\ CapInv => StandingSolvesWithinCap
  <2> SUFFICES ASSUME TypeInv, FenceInv, CapInv PROVE StandingSolvesWithinCap
    OBVIOUS
  <2> DEFINE S == {w \in Workers : phase[w] = "solving" /\ ClaimIsCurrent(w)}
             solved == [w \in S |-> task[w]]
  <2>1. solved \in Injection(S, Running)
    <3>1. solved \in [S -> Running]
      BY DEF TypeInv, TaskOK, ClaimIsCurrent, Running
    <3>2. \A v, w \in S : solved[v] = solved[w] => v = w
      BY DEF FenceInv, OneSolverPerRun
    <3> QED
      BY <3>1, <3>2 DEF Injection, IsInjective
  <2>2. IsFiniteSet(Running) /\ Cardinality(Running) \in Nat
    BY RunningFinite DEF TypeInv
  <2>3. IsFiniteSet(S) /\ Cardinality(S) <= Cardinality(Running)
    BY <2>1, <2>2, FS_Injection
  <2>4. Cardinality(S) \in Nat
    BY <2>3, FS_CardinalityType
  <2> QED
    BY <2>2, <2>3, <2>4, BoundsAssumption
       DEF CapInv, CapRespected, StandingSolvesWithinCap
<1>2. Spec => [](TypeInv /\ FenceInv /\ CapInv)
  BY TypeInit, TypeStep, FenceInit, FenceStep, CapInit, CapStep, PTL DEF Spec
<1> QED
  BY <1>1, <1>2, PTL
=============================================================================
