------------------------- MODULE BuildHistoryProofs -------------------------
(***************************************************************************)
(* Proofs about what a run records and what is chosen from it: the retry   *)
(* chain, the candidates, the one choice, and the frozen history.  They    *)
(* go by the cases of RunStep, whatever action took the step.              *)
(***************************************************************************)
EXTENDS BuildLifecycleProofs

-----------------------------------------------------------------------------
(* The chain.  A stored document is never replaced, so it is enough that a *)
(* run is pinned to what is stored when it is pinned; what the assembly    *)
(* lets through is stored before a submission can go on, and a document    *)
(* whose constituents have not moved is what the period still says.        *)
StoreOK == \A k \in Runs : store[k] # NoInput => store[k] \in Inputs \ Unassemblable
StoreFresh == \A k \in Runs : store[k] # NoInput /\ k \notin moved => store[k] = world
SubmissionOK ==
  \A r \in Runs : submission[r] # "none" =>
    state[r] # "absent" /\ (submission[r] = "assembled" => store[root[r]] # NoInput)
PinnedOK ==
  \A r \in Runs : snapshot[r] # NoInput => state[r] # "absent" /\ snapshot[r] = store[root[r]]

PassedChecks == {"queued", "running"} \union CompletedFamily
CheckedOK ==
  \A r \in Runs : state[r] \in PassedChecks =>
    snapshot[r] \in Inputs \ (Unassemblable \union Inconsistent \union Unready)

ChainInv == StoreOK /\ StoreFresh /\ SubmissionOK /\ PinnedOK /\ CheckedOK

\* What a step can do to the documents and to the submissions.
Stored ==
  \E r \in Runs : /\ submission[r] = "assembling" /\ Assembles(world) /\ Replays(r)
                  /\ store' = [store EXCEPT ![root[r]] = world]
                  /\ submission' = [submission EXCEPT ![r] = "assembled"]
                  /\ UNCHANGED <<moved, world, state, root, snapshot>>
Edited == \E v \in Inputs : EditInputs(v)
Submitted ==
  /\ UNCHANGED <<store, moved, world>>
  /\ \A r \in Runs : \/ submission'[r] = submission[r]
                     \/ /\ submission'[r] \in Submissions \ {"assembled"}
                        /\ state[r] # "absent"

InputStep == Stored \/ Edited \/ Submitted

LEMMA EveryInputStep == TypeInv /\ SubmissionOK /\ [Next]_vars => InputStep
<1> SUFFICES ASSUME TypeInv, SubmissionOK, [Next]_vars PROVE InputStep
  OBVIOUS
<1> USE DEF TypeInv, TypeOK, InputStep, Submitted, inputVars
<1>1. ASSUME NEW r \in Runs, Submission(r) PROVE InputStep
  <2>1. ASSUME NEW c \in Configs, NEW p \in Runs \union {NoRun}, CreateRun(r, c, p)
        PROVE  InputStep
    BY <2>1 DEF CreateRun
  <2>2. CASE Submit(r)
    BY <2>2, MoveType DEF Submit, Submissions
  <2>3. CASE Assemble(r)
    BY <2>3 DEF Assemble, Stored, SubmissionOK, runVars, Submissions
  <2>4. CASE AssemblyRefused(r)
    BY <2>4, MoveType DEF AssemblyRefused, Submissions
  <2>5. CASE ValidationFails(r)
    BY <2>5 DEF ValidationFails, Submissions
  <2>6. CASE ReadinessFails(r)
    BY <2>6 DEF ReadinessFails, Submissions
  <2>7. CASE Enqueue(r)
    BY <2>7 DEF Enqueue, Submissions
  <2>8. CASE SubmitterCrash(r)
    BY <2>8 DEF SubmitterCrash, Submissions, SubmissionOK
  <2> QED
    BY <1>1, <2>1, <2>2, <2>3, <2>4, <2>5, <2>6, <2>7, <2>8 DEF Submission
<1>2. ASSUME NEW w \in Workers, WorkerStep(w) PROVE InputStep
  BY <1>2 DEF WorkerStep, PickJob, AbortJob, Admit, Defer, ExhaustJob, Claim, NotClaimable,
     SolveReturns, ResponseRejected, PersistOutcome, OutcomeFenced, WorkerCrash
<1>3. ASSUME NEW r \in Runs, Housekeeping(r) PROVE InputStep
  BY <1>3 DEF Housekeeping, ReclaimStranded, HeartbeatLapses, CancelQueued, RequestCancel,
     CommitCancel, CancelRollsBack
<1>4. ASSUME NEW q \in SUBSET Runs, Sweep(q) PROVE InputStep
  BY <1>4 DEF Sweep
<1>5. ASSUME NEW r \in Runs, Decision(r) PROVE InputStep
  BY <1>5 DEF Decision, Review, MarkExtended, Approve, Apply, DecisionFrame
<1>6. CASE Archive
  BY <1>6 DEF Archive, DecisionFrame
<1>7. CASE UNCHANGED vars
  BY <1>7 DEF vars
<1> QED
  BY <1>1, <1>2, <1>3, <1>4, <1>5, <1>6, <1>7 DEF Next, Edited

LEMMA ChainInit == Init => ChainInv
BY DEF Init, ChainInv, StoreOK, StoreFresh, SubmissionOK, PinnedOK, CheckedOK, PassedChecks,
       CompletedFamily

\* A stored document stays, and a created run keeps its chain.
LEMMA StoreStable ==
  ASSUME TypeInv, InputStep
  PROVE  \A k \in Runs : store[k] # NoInput => store'[k] = store[k]
BY DEF TypeInv, TypeOK, InputStep, Stored, Edited, EditInputs, Submitted, Replays

LEMMA RootStable ==
  ASSUME TypeInv, RunSteps
  PROVE  \A r \in Runs : state[r] # "absent" => root'[r] = root[r] /\ state'[r] # "absent"
BY DEF RunSteps, RunStep, Kept, Record, Created, Submitting, Pinned, Claimed, Answered,
       Ended, Decided, Settled, CompletedFamily

LEMMA ChainStep == TypeInv /\ ChainInv /\ [Next]_vars => ChainInv'
<1> SUFFICES ASSUME TypeInv, ChainInv, [Next]_vars PROVE ChainInv'
  OBVIOUS
<1>1. TypeInv' /\ InputStep /\ RunSteps
  BY TypeStep, EveryInputStep, EveryStep DEF ChainInv
<1>2. \A k \in Runs : store[k] # NoInput => store'[k] = store[k]
  BY <1>1, StoreStable
<1>3. \A r \in Runs : state[r] # "absent" => root'[r] = root[r] /\ state'[r] # "absent"
  BY <1>1, RootStable
<1>4. StoreOK' /\ StoreFresh'
  BY <1>1 DEF ChainInv, StoreOK, StoreFresh, TypeInv, TypeOK, InputStep, Stored, Assembles,
     Edited, EditInputs, Submitted, Replays
<1>5. SubmissionOK'
  <2>1. CASE Stored
    BY <2>1, SentinelsAssumption
       DEF ChainInv, SubmissionOK, Stored, TypeInv, TypeOK, RootOK
  <2>2. CASE Edited
    BY <1>3, <2>2 DEF ChainInv, SubmissionOK, Edited, EditInputs, runVars
  <2>3. CASE Submitted
    BY <1>3, <2>3 DEF ChainInv, SubmissionOK, Submitted
  <2> QED
    BY <1>1, <2>1, <2>2, <2>3 DEF InputStep
<1>6. ASSUME NEW r \in Runs
      PROVE  \/ snapshot'[r] = snapshot[r]
             \/ Pinned(r)
  BY <1>1 DEF RunSteps, RunStep, Kept, Record, Created, Submitting, Claimed, Answered,
              Ended, Decided
<1>7. PinnedOK'
  <2> SUFFICES ASSUME NEW r \in Runs, snapshot'[r] # NoInput
               PROVE  state'[r] # "absent" /\ snapshot'[r] = store'[root'[r]]
    BY DEF PinnedOK
  <2>1. state[r] # "absent" /\ snapshot'[r] = store[root[r]]
    BY <1>6 DEF ChainInv, PinnedOK, Pinned, Document
  <2>2. root[r] \in Runs
    BY <2>1 DEF TypeInv, RootOK
  <2> QED
    BY <1>2, <1>3, <2>1, <2>2
<1>8. CheckedOK'
  <2> SUFFICES ASSUME NEW r \in Runs, state'[r] \in PassedChecks
               PROVE  snapshot'[r] \in Inputs \ (Unassemblable \union Inconsistent \union Unready)
    BY DEF CheckedOK
  <2>1. CASE Pinned(r)
    <3>1. store[root[r]] \in Inputs \ Unassemblable
      BY <2>1 DEF Pinned, ChainInv, SubmissionOK, StoreOK, TypeInv, RootOK
    <3> QED
      BY <2>1, <3>1 DEF Pinned, Document, ConfigurationFindings, ReadinessFindings,
         PassedChecks, CompletedFamily
  <2>2. CASE ~ Pinned(r)
    <3>1. state[r] \in PassedChecks
      BY <1>1, <2>2 DEF RunSteps, RunStep, Kept, Record, Created, Submitting, Claimed,
         Answered, Ended, Decided, PassedChecks, CompletedFamily, Settled
    <3> QED
      BY <1>6, <2>2, <3>1 DEF ChainInv, CheckedOK
  <2> QED
    BY <2>1, <2>2
<1> QED
  BY <1>4, <1>5, <1>7, <1>8 DEF ChainInv

LEMMA ChainHolds == Spec => [](TypeInv /\ FenceInv /\ ChainInv)
BY TypeInit, TypeStep, FenceInit, FenceStep, ChainInit, ChainStep, PTL DEF Spec

\* Every run of a retry chain is pinned to the one document stored for the
\* chain, and what reaches the queue passed both checks (runner.ts).
THEOREM ChainIsOneProblem == Spec => []ChainPosesOneProblem
<1>1. ChainInv => ChainPosesOneProblem
  BY DEF ChainInv, PinnedOK, CheckedOK, PassedChecks, ChainPosesOneProblem
<1> QED
  BY <1>1, ChainHolds, PTL

-----------------------------------------------------------------------------
(* The candidates and the choice.                                          *)
LEMMA CandidatesInit == Init => CandidatesWereChecked
BY DEF Init, CandidatesWereChecked, CompletedFamily

LEMMA CandidatesStep ==
  TypeInv /\ CandidatesWereChecked /\ [Next]_vars => CandidatesWereChecked'
<1> SUFFICES ASSUME TypeInv, CandidatesWereChecked, [Next]_vars,
                    NEW r \in Runs, state'[r] \in CompletedFamily
             PROVE  r \in usable' /\ resultEpoch'[r] = epoch'[r]
  BY DEF CandidatesWereChecked
<1>1. RunStep(r) /\ usable \subseteq usable'
  BY EveryStep DEF RunSteps
<1>2. CASE Answered(r)
  BY <1>2 DEF Answered
<1>3. CASE ~ Answered(r)
  BY <1>1, <1>3 DEF RunStep, Kept, Record, Created, Submitting, Pinned, Claimed, Ended,
     Decided, CandidatesWereChecked, CompletedFamily
<1> QED
  BY <1>2, <1>3

\* A run somebody may choose carries a result that the independent checker
\* admitted, written by the claim the run still has.
THEOREM CandidatesChecked == Spec => []CandidatesWereChecked
<1>1. Spec => [](TypeInv /\ CandidatesWereChecked)
  BY TypeInit, TypeStep, CandidatesInit, CandidatesStep, PTL DEF Spec
<1> QED
  BY <1>1, PTL

Chosen == {"approved", "applied_to_draft_schedule"}

LEMMA ChosenInit == Init => AtMostOneChosen
BY DEF Init, AtMostOneChosen

LEMMA ChosenStep == TypeInv /\ AtMostOneChosen /\ [Next]_vars => AtMostOneChosen'
<1> SUFFICES ASSUME TypeInv, AtMostOneChosen, [Next]_vars,
                    NEW r \in Runs, NEW s \in Runs, state'[r] \in Chosen, state'[s] \in Chosen
             PROVE  r = s
  BY DEF AtMostOneChosen, Chosen
<1>1. ASSUME NEW t \in Runs, state'[t] \in Chosen
      PROVE  \/ state[t] \in Chosen
             \/ state'[t] = "approved" /\ Decided(t)
  BY <1>1, EveryStep DEF RunSteps, RunStep, Kept, Record, Created, Submitting, Pinned,
     Claimed, Answered, Ended, Decided, Chosen, Settled, CompletedFamily
<1>2. CASE state[r] \in Chosen /\ state[s] \in Chosen
  BY <1>2 DEF AtMostOneChosen, Chosen
<1>3. CASE state'[r] = "approved" /\ Decided(r)
  BY <1>3 DEF Decided, Chosen
<1>4. CASE state'[s] = "approved" /\ Decided(s)
  BY <1>4 DEF Decided, Chosen
<1> QED
  BY <1>1, <1>2, <1>3, <1>4

\* One run of the period at most is approved or applied, however many
\* candidates were reviewed and approved over one another.
THEOREM OneChosen == Spec => []AtMostOneChosen
<1>1. Spec => [](TypeInv /\ AtMostOneChosen)
  BY TypeInit, TypeStep, ChosenInit, ChosenStep, PTL DEF Spec
<1> QED
  BY <1>1, PTL

-----------------------------------------------------------------------------
(* History.  A run in flight has no reason and no result yet, which is why *)
(* the only steps that write them write them once.                         *)
NoReasonInFlight ==
  \A r \in Runs : state[r] \in InFlight \union {"absent"} => reason[r] = "none"

LEMMA ReasonInit == Init => NoReasonInFlight
BY DEF Init, NoReasonInFlight

LEMMA ReasonStep == TypeInv /\ NoReasonInFlight /\ [Next]_vars => NoReasonInFlight'
<1> SUFFICES ASSUME TypeInv, NoReasonInFlight, [Next]_vars,
                    NEW r \in Runs, state'[r] \in InFlight \union {"absent"}
             PROVE  reason'[r] = "none"
  BY DEF NoReasonInFlight
<1> QED
  BY EveryStep DEF RunSteps, RunStep, Kept, Record, Created, Submitting, Pinned, Claimed,
     Answered, Ended, Decided, NoReasonInFlight, InFlight, Settled, CompletedFamily

LEMMA HistoryStep ==
  ASSUME TypeInv, FenceInv, ChainInv, NoReasonInFlight, [Next]_vars, NEW r \in Runs
  PROVE  /\ epoch'[r] >= epoch[r]
         /\ snapshot[r] # NoInput => snapshot'[r] = snapshot[r]
         /\ reason[r] # "none" => reason'[r] = reason[r]
         /\ resultEpoch[r] # 0 => resultEpoch'[r] = resultEpoch[r]
         /\ state[r] \notin InFlight \union {"absent"} =>
              state'[r] \notin InFlight \union {"absent"}
<1>1. RunStep(r)
  BY EveryStep DEF RunSteps
<1>2. epoch[r] \in Nat
  BY DEF TypeInv, TypeOK
<1>3. CASE Pinned(r)
  BY <1>2, <1>3 DEF Pinned, Document, ChainInv, PinnedOK, InFlight
<1>4. CASE Answered(r)
  BY <1>2, <1>4 DEF Answered, NoReasonInFlight, FenceInv, ClaimLife, InFlight
<1>5. CASE Ended(r)
  BY <1>2, <1>5 DEF Ended, NoReasonInFlight, InFlight
<1>6. CASE Claimed(r)
  BY <1>2, <1>6 DEF Claimed, InFlight
<1>7. CASE Kept(r) \/ Created(r) \/ Submitting(r)
  BY <1>2, <1>7 DEF Kept, Record, Created, Submitting, InFlight
<1>8. CASE Decided(r)
  BY <1>2, <1>8 DEF Decided, Settled, CompletedFamily, InFlight
<1> QED
  BY <1>1, <1>3, <1>4, <1>5, <1>6, <1>7, <1>8 DEF RunStep

\* Epochs only grow; a pinned snapshot, a reason and a result are written
\* once; a run that left flight never comes back to it.
THEOREM HistoryFrozen == Spec => HistoryIsFrozen
<1>1. TypeInv /\ FenceInv /\ ChainInv /\ NoReasonInFlight /\ [Next]_vars =>
        [\A r \in Runs :
           /\ epoch'[r] >= epoch[r]
           /\ snapshot[r] # NoInput => snapshot'[r] = snapshot[r]
           /\ reason[r] # "none" => reason'[r] = reason[r]
           /\ resultEpoch[r] # 0 => resultEpoch'[r] = resultEpoch[r]
           /\ state[r] \notin InFlight \union {"absent"} =>
                state'[r] \notin InFlight \union {"absent"}]_vars
  BY HistoryStep
<1> QED
  BY <1>1, TypeInit, TypeStep, FenceInit, FenceStep, ChainInit, ChainStep, ReasonInit,
     ReasonStep, PTL DEF Spec, HistoryIsFrozen

\* What is applied was posed on the period as it is at that moment: the chain
\* of the applied run has not moved since its document was stored.
THEOREM FreshApplied == Spec => OnlyFreshIsApplied
<1>1. ASSUME TypeInv, ChainInv, [Next]_vars, NEW r \in Runs,
             state[r] # "applied_to_draft_schedule", state'[r] = "applied_to_draft_schedule"
      PROVE  snapshot[r] = world
  <2>1. Decided(r) /\ state[r] = "approved" /\ Fresh(r)
    BY <1>1, EveryStep DEF RunSteps, RunStep, Kept, Record, Created, Submitting, Pinned,
       Claimed, Answered, Ended, Decided, Settled, CompletedFamily
  <2>2. snapshot[r] \in Inputs /\ root[r] \in Runs
    BY <1>1, <2>1 DEF ChainInv, CheckedOK, PassedChecks, CompletedFamily, TypeInv, RootOK
  <2>3. snapshot[r] = store[root[r]] /\ store[root[r]] # NoInput
    BY <1>1, <2>2, SentinelsAssumption DEF ChainInv, PinnedOK
  <2> QED
    BY <1>1, <2>1, <2>2, <2>3 DEF ChainInv, StoreFresh, Fresh
<1>2. TypeInv /\ ChainInv /\ [Next]_vars =>
        [\A r \in Runs :
           state[r] # "applied_to_draft_schedule" /\ state'[r] = "applied_to_draft_schedule"
             => snapshot[r] = world]_vars
  BY <1>1
<1> QED
  BY <1>2, TypeInit, TypeStep, ChainInit, ChainStep, PTL DEF Spec, OnlyFreshIsApplied

-----------------------------------------------------------------------------
(* While nothing fails.  The file a worker acts on is written before the   *)
(* cancellation commits, so what carries the record over is that the file  *)
(* outlives neither the open cancellation nor its commit, and that no      *)
(* answer is stored past the row lock of an open one.                      *)
Backed(r) == r \in asked \union cancelling
CancelInv ==
  faults = 0 =>
    /\ \A r \in signal : Backed(r)
    /\ \A w \in Workers : phase[w] = "answered" /\ answer[w] = "cancelled" => Backed(task[w])
    /\ CancelledWasAsked

\* A fault is never forgotten.
LEMMA CalmBefore ==
  ASSUME TypeInv, Fault
  PROVE  faults' # 0
BY BoundsAssumption DEF TypeInv, TypeOK, Fault

\* A step that leaves the cancellations and the answers alone.
LEMMA CancelFrame ==
  ASSUME CancelInv, UNCHANGED <<reason, asked, signal, cancelling, phase, task, answer>>,
         faults' = faults \/ faults' # 0
  PROVE  CancelInv'
BY DEF CancelInv, Backed, CancelledWasAsked

LEMMA CancelInit == Init => CancelInv
BY DEF Init, CancelInv, Backed, CancelledWasAsked

LEMMA CancelSubmission ==
  ASSUME TypeInv, CancelInv, NEW r \in Runs, Submission(r)
  PROVE  CancelInv'
<1>1. UNCHANGED <<reason, asked, signal, cancelling, phase, task, answer>>
  BY DEF Submission, CreateRun, Submit, Assemble, AssemblyRefused, ValidationFails,
         ReadinessFails, Enqueue, SubmitterCrash, runVars, workerVars, cancelVars
<1>2. faults' = faults \/ faults' # 0
  BY CalmBefore
     DEF Submission, CreateRun, Submit, Assemble, AssemblyRefused, ValidationFails,
         ReadinessFails, Enqueue, SubmitterCrash
<1> QED
  BY <1>1, <1>2, CancelFrame

LEMMA CancelWorker ==
  ASSUME TypeInv, CancelInv, NEW w \in Workers, WorkerStep(w)
  PROVE  CancelInv'
<1> USE DEF TypeInv, TypeOK, TaskOK, runVars, cancelVars, SlotFreed, JobCompletes, JobRetries,
        CancelInv, Backed, CancelledWasAsked
<1>1. ASSUME NEW r \in Runs, PickJob(w, r)
      PROVE  CancelInv'
  BY <1>1 DEF PickJob
<1>2. CASE AbortJob(w)
  BY <1>2, CalmBefore DEF AbortJob
<1>3. CASE Admit(w)
  BY <1>3 DEF Admit
<1>4. CASE Defer(w)
  BY <1>4 DEF Defer
<1>5. CASE ExhaustJob(w)
  BY <1>5, CalmBefore DEF ExhaustJob
<1>6. CASE Claim(w)
  BY <1>6 DEF Claim
<1>7. CASE NotClaimable(w)
  BY <1>7 DEF NotClaimable
<1>8. ASSUME NEW a \in SolveAnswers, SolveReturns(w, a)
      PROVE  CancelInv'
  BY <1>8 DEF SolveReturns
<1>9. CASE ResponseRejected(w)
  BY <1>9 DEF ResponseRejected
<1>10. CASE PersistOutcome(w)
  <2>1. PICK r \in Runs : r = task[w]
    BY <1>10 DEF PersistOutcome
  <2>2. ClassifiedReason(answer[w]) = "user_cancelled" => answer[w] = "cancelled"
    BY DEF ClassifiedReason
  <2>3. faults = 0 /\ reason'[r] = "user_cancelled" => r \in asked
    BY <1>10, <2>1, <2>2 DEF PersistOutcome, RowFree
  <2>4. \A s \in Runs \ {r} : reason'[s] = reason[s]
    BY <1>10, <2>1 DEF PersistOutcome
  <2> QED
    BY <1>10, <2>1, <2>3, <2>4 DEF PersistOutcome
<1>11. CASE OutcomeFenced(w)
  BY <1>11 DEF OutcomeFenced
<1>12. CASE WorkerCrash(w)
  BY <1>12, CalmBefore DEF WorkerCrash
<1> QED
  BY <1>1, <1>2, <1>3, <1>4, <1>5, <1>6, <1>7, <1>8, <1>9, <1>10, <1>11, <1>12
     DEF WorkerStep

LEMMA CancelHousekeeping ==
  ASSUME TypeInv, CancelInv, NEW r \in Runs, Housekeeping(r)
  PROVE  CancelInv'
<1> USE DEF TypeInv, TypeOK, runVars, workerVars, cancelVars
<1>1. CASE ReclaimStranded(r)
  BY <1>1, CancelFrame DEF ReclaimStranded
<1>2. CASE HeartbeatLapses(r)
  BY <1>2, CancelFrame DEF HeartbeatLapses
<1>3. CASE CancelQueued(r)
  BY <1>3 DEF CancelQueued, CancelInv, Backed, CancelledWasAsked
<1>4. CASE RequestCancel(r)
  BY <1>4 DEF RequestCancel, CancelInv, Backed, CancelledWasAsked
<1>5. CASE CommitCancel(r)
  BY <1>5 DEF CommitCancel, CancelInv, Backed, CancelledWasAsked
<1>6. CASE CancelRollsBack(r)
  BY <1>6, CalmBefore DEF CancelRollsBack, CancelInv
<1> QED
  BY <1>1, <1>2, <1>3, <1>4, <1>5, <1>6 DEF Housekeeping

LEMMA CancelStep == TypeInv /\ CancelInv /\ [Next]_vars => CancelInv'
<1> SUFFICES ASSUME TypeInv, CancelInv, [Next]_vars PROVE CancelInv'
  OBVIOUS
<1> USE DEF runVars, workerVars, cancelVars
<1>1. ASSUME NEW v \in Inputs, EditInputs(v) PROVE CancelInv'
  BY <1>1, CancelFrame DEF EditInputs
<1>2. ASSUME NEW q \in SUBSET Runs, Sweep(q) PROVE CancelInv'
  BY <1>2 DEF Sweep, CancelInv, Backed, CancelledWasAsked, TypeInv, TypeOK
<1>3. ASSUME NEW r \in Runs, Decision(r) PROVE CancelInv'
  BY <1>3, CancelFrame DEF Decision, Review, MarkExtended, Approve, Apply, DecisionFrame
<1>4. CASE Archive
  BY <1>4, CancelFrame DEF Archive, DecisionFrame
<1>5. CASE UNCHANGED vars
  BY <1>5, CancelFrame DEF vars
<1> QED
  BY <1>1, <1>2, <1>3, <1>4, <1>5, CancelSubmission, CancelWorker, CancelHousekeeping DEF Next

\* While nothing fails, whoever finds a run ended as cancelled by its user
\* finds the user's request on record (runner.ts requestCancellation).
THEOREM CancellationRecorded == Spec => []CancellationIsRecorded
<1>1. CancelInv => CancellationIsRecorded
  BY DEF CancelInv, CancellationIsRecorded
<1> QED
  BY <1>1, TypeInit, TypeStep, CancelInit, CancelStep, PTL DEF Spec

(* A build in flight is let go of only by a fault: a handler leaves the     *)
(* state it came to leave, a worker puts its job back or ends one whose run *)
(* is not queued any more, and a claim is given up by an answer or fenced   *)
(* by a newer one, whose worker attends the run instead.                    *)
Carries(w, r) == task[w] = r /\ phase[w] \in {"picked", "admitted"}
Works(w, r) == task[w] = r /\ phase[w] \in {"solving", "answered"} /\ ClaimIsCurrent(w)
Delivered(r) == waiting[r] > 0 \/ \E w \in Workers : Carries(w, r)

\* A step keeps whatever attends the runs it leaves in their state, and gives
\* somebody to those it puts into one.
LEMMA AttendedFrame ==
  ASSUME InFlightIsAttended, faults' = faults \/ faults' # 0,
         \A r \in Runs : state'[r] = "validating" =>
           \/ submission'[r] # "none"
           \/ state[r] = "validating" /\ submission'[r] = submission[r],
         \A r \in Runs : state'[r] = "queued" =>
           \/ Delivered(r)'
           \/ state[r] = "queued" /\ waiting'[r] = waiting[r]
                /\ \A w \in Workers : Carries(w, r) => Carries(w, r)',
         \A r \in Runs : state'[r] = "running" =>
           \/ Garbled
           \/ \E w \in Workers : Works(w, r)'
           \/ state[r] = "running"
                /\ \A w \in Workers : Works(w, r) => Works(w, r)'
  PROVE  InFlightIsAttended'
BY DEF InFlightIsAttended, Attended, Delivered, Carries, Works, ClaimIsCurrent, Works

LEMMA AttendedInit == Init => InFlightIsAttended
BY DEF Init, InFlightIsAttended, Attended

LEMMA AttendedSubmission ==
  ASSUME TypeInv, InFlightIsAttended, NEW r \in Runs, Submission(r)
  PROVE  InFlightIsAttended'
<1> USE DEF TypeInv, TypeOK, Delivered, Carries, Works, ClaimIsCurrent, queueVars, workerVars
<1>1. ASSUME NEW c \in Configs, NEW p \in Runs \union {NoRun}, CreateRun(r, c, p)
      PROVE  InFlightIsAttended'
  BY <1>1, AttendedFrame DEF CreateRun
<1>2. CASE Submit(r)
  BY <1>2, AttendedFrame, MoveType DEF Submit
<1>3. CASE Assemble(r)
  BY <1>3, AttendedFrame DEF Assemble, runVars
<1>4. CASE AssemblyRefused(r)
  BY <1>4, AttendedFrame, MoveType DEF AssemblyRefused
<1>5. CASE ValidationFails(r)
  BY <1>5, AttendedFrame, MoveType DEF ValidationFails
<1>6. CASE ReadinessFails(r)
  BY <1>6, AttendedFrame DEF ReadinessFails
<1>7. CASE Enqueue(r)
  BY <1>7, AttendedFrame DEF Enqueue, EnqueueBuildSolve
<1>8. CASE SubmitterCrash(r)
  BY <1>8, CalmBefore DEF SubmitterCrash, InFlightIsAttended
<1> QED
  BY <1>1, <1>2, <1>3, <1>4, <1>5, <1>6, <1>7, <1>8 DEF Submission

LEMMA AttendedWorker ==
  ASSUME TypeInv, InFlightIsAttended, NEW w \in Workers, WorkerStep(w)
  PROVE  InFlightIsAttended'
<1> USE DEF TypeInv, TypeOK, TaskOK, Delivered, Carries, Works, ClaimIsCurrent, runVars, queueVars, SlotFreed,
        JobCompletes, JobRetries
<1>1. ASSUME NEW r \in Runs, PickJob(w, r)
      PROVE  InFlightIsAttended'
  BY <1>1, AttendedFrame DEF PickJob
<1>2. CASE AbortJob(w)
  BY <1>2, CalmBefore DEF AbortJob, InFlightIsAttended
<1>3. CASE Admit(w)
  BY <1>3, AttendedFrame DEF Admit
<1>4. CASE Defer(w)
  BY <1>4, AttendedFrame DEF Defer, AtCap
<1>5. CASE ExhaustJob(w)
  BY <1>5, CalmBefore DEF ExhaustJob, InFlightIsAttended
<1>6. CASE Claim(w)
  BY <1>6, AttendedFrame DEF Claim, Claimable
<1>7. CASE NotClaimable(w)
  BY <1>7, AttendedFrame DEF NotClaimable, Claimable
<1>8. ASSUME NEW a \in SolveAnswers, SolveReturns(w, a)
      PROVE  InFlightIsAttended'
  BY <1>8, AttendedFrame DEF SolveReturns
<1>9. CASE ResponseRejected(w)
  BY <1>9, AttendedFrame DEF ResponseRejected
<1>10. CASE PersistOutcome(w)
  <2>1. /\ task[w] \in Runs
        /\ ClassifiedState(answer[w]) \notin {"validating", "queued", "running"}
    BY <1>10 DEF PersistOutcome, ClassifiedState
  <2>2. \A s \in Runs : state'[s] = IF s = task[w] THEN ClassifiedState(answer[w]) ELSE state[s]
    BY <1>10, <2>1, MoveType DEF PersistOutcome
  <2>3. \A v \in Workers, s \in Runs :
          s # task[w] => /\ Works(v, s) => Works(v, s)'
                         /\ Carries(v, s) => Carries(v, s)'
    BY <1>10, <2>2 DEF PersistOutcome
  <2>4. /\ \A s \in Runs : state'[s] \in {"validating", "queued", "running"} =>
             s # task[w] /\ state'[s] = state[s]
        /\ UNCHANGED <<faults, submission, waiting>>
    BY <1>10, <2>1, <2>2 DEF PersistOutcome
  <2> QED
    BY <2>3, <2>4, AttendedFrame
<1>11. CASE OutcomeFenced(w)
  BY <1>11, AttendedFrame DEF OutcomeFenced
<1>12. CASE WorkerCrash(w)
  BY <1>12, CalmBefore DEF WorkerCrash, InFlightIsAttended
<1> QED
  BY <1>1, <1>2, <1>3, <1>4, <1>5, <1>6, <1>7, <1>8, <1>9, <1>10, <1>11, <1>12
     DEF WorkerStep

LEMMA AttendedHousekeeping ==
  ASSUME TypeInv, InFlightIsAttended, NEW r \in Runs, Housekeeping(r)
  PROVE  InFlightIsAttended'
<1> USE DEF TypeInv, TypeOK, Delivered, Carries, Works, ClaimIsCurrent, runVars, queueVars, workerVars
<1>1. CASE ReclaimStranded(r)
  BY <1>1, AttendedFrame DEF ReclaimStranded
<1>2. CASE HeartbeatLapses(r)
  BY <1>2, AttendedFrame DEF HeartbeatLapses
<1>3. CASE CancelQueued(r)
  BY <1>3, AttendedFrame, MoveType DEF CancelQueued
<1>4. CASE RequestCancel(r)
  BY <1>4, AttendedFrame DEF RequestCancel
<1>5. CASE CommitCancel(r)
  BY <1>5, AttendedFrame DEF CommitCancel
<1>6. CASE CancelRollsBack(r)
  BY <1>6, CalmBefore DEF CancelRollsBack, InFlightIsAttended
<1> QED
  BY <1>1, <1>2, <1>3, <1>4, <1>5, <1>6 DEF Housekeeping

\* No decision puts a run into the queue.
LEMMA AttendedDecision ==
  ASSUME TypeInv, InFlightIsAttended, NEW r \in Runs, Decision(r)
  PROVE  InFlightIsAttended'
<1> USE DEF TypeInv, TypeOK, Delivered, Carries, Works, ClaimIsCurrent, DecisionFrame, queueVars, workerVars
<1>1. CASE Review(r)
  BY <1>1, AttendedFrame, MoveType DEF Review
<1>2. CASE MarkExtended(r)
  BY <1>2, AttendedFrame, MoveType DEF MarkExtended
<1>3. CASE Approve(r)
  BY <1>3, AttendedFrame DEF Approve
<1>4. CASE Apply(r)
  BY <1>4, AttendedFrame, MoveType DEF Apply
<1> QED
  BY <1>1, <1>2, <1>3, <1>4 DEF Decision

LEMMA AttendedStep == TypeInv /\ InFlightIsAttended /\ [Next]_vars => InFlightIsAttended'
<1> SUFFICES ASSUME TypeInv, InFlightIsAttended, [Next]_vars PROVE InFlightIsAttended'
  OBVIOUS
<1> USE DEF TypeInv, TypeOK, Delivered, Carries, Works, ClaimIsCurrent, runVars, queueVars, workerVars
<1>1. ASSUME NEW v \in Inputs, EditInputs(v) PROVE InFlightIsAttended'
  BY <1>1, AttendedFrame DEF EditInputs
<1>2. ASSUME NEW q \in SUBSET Runs, Sweep(q) PROVE InFlightIsAttended'
  BY <1>2, AttendedFrame DEF Sweep
<1>3. CASE Archive
  BY <1>3, AttendedFrame DEF Archive, DecisionFrame
<1>4. CASE UNCHANGED vars
  BY <1>4, AttendedFrame DEF vars
<1> QED
  BY <1>1, <1>2, <1>3, <1>4, AttendedSubmission, AttendedWorker, AttendedHousekeeping,
     AttendedDecision DEF Next

\* While nothing fails, no build in flight is forgotten: one that is validating
\* has its handler, a queued one a job that waits or a worker about to claim, and
\* a running one, unless responses may be rejected, the worker whose claim it is
\* (service.ts submitBuild, queue-runner.ts, runner.ts runQueuedBuild).
THEOREM InFlightAttended == Spec => []InFlightIsAttended
BY TypeInit, TypeStep, AttendedInit, AttendedStep, PTL DEF Spec

-----------------------------------------------------------------------------
(* The contract.  What a run shows of itself is its stage, its problem and *)
(* its answer; a step maps to the step of the contract that the state it   *)
(* writes stands for, and one that writes no state to none.                *)
UsableOK == \A r \in usable : resultEpoch[r] # 0

ContractInv ==
  TypeInv /\ FenceInv /\ ChainInv /\ CapInv /\ CandidatesWereChecked /\ UsableOK

LEMMA UsableInit == Init => UsableOK
BY DEF Init, UsableOK

\* A result and what it is worth are written together, at an epoch past 0.
LEMMA UsableStep == TypeInv /\ FenceInv /\ UsableOK /\ [Next]_vars => UsableOK'
<1> SUFFICES ASSUME TypeInv, FenceInv, UsableOK, [Next]_vars PROVE UsableOK'
  OBVIOUS
<1>1. ASSUME NEW w \in Workers, PersistOutcome(w) PROVE UsableOK'
  <2>1. task[w] \in Runs /\ present[w] # 0
    BY <1>1 DEF PersistOutcome, TypeInv, TaskOK, FenceInv, AnswerLife, Busy
  <2> QED
    BY <1>1, <2>1 DEF PersistOutcome, UsableOK, TypeInv, TypeOK
<1>2. CASE ~ \E w \in Workers : PersistOutcome(w)
  <2>1. UNCHANGED <<resultEpoch, usable>>
    BY <1>2 DEF Next, vars, resultVars, Submission, CreateRun, Submit, Assemble,
       AssemblyRefused, ValidationFails, ReadinessFails, Enqueue, SubmitterCrash, EditInputs,
       WorkerStep, PickJob, AbortJob, Admit, Defer, ExhaustJob, Claim, NotClaimable,
       SolveReturns, ResponseRejected, OutcomeFenced, WorkerCrash,
       Housekeeping, ReclaimStranded, HeartbeatLapses, CancelQueued, RequestCancel,
       CommitCancel, CancelRollsBack, Sweep, Decision, Review, MarkExtended, Approve, Apply,
       Archive, DecisionFrame
  <2> QED
    BY <2>1 DEF UsableOK
<1> QED
  BY <1>1, <1>2

StageMap == [r \in Runs |-> StageOf(state[r])]
AnswerMap == [r \in Runs |-> AnswerOf(r)]
Honoured == Contract!ContractNext \/ UNCHANGED Contract!contractVars

LEMMA StageNames ==
  /\ \A s \in {"absent", "queued", "running", "approved", "applied_to_draft_schedule"} :
       StageOf(s) = s
  /\ \A s \in {"draft_configuration", "validating", "readiness_check"} :
       StageOf(s) = "preparing"
  /\ \A s \in {"completed", "completed_with_unmet_preferences", "reviewed",
               "progressively_extended"} : StageOf(s) = "candidate"
  /\ \A s \in {"infeasible", "failed", "cancelled", "superseded", "archived"} :
       StageOf(s) = "ended"
BY DEF StageOf, CompletedFamily, Settled

\* The stages tell apart what the contract asks about.
LEMMA StageTells ==
  ASSUME TypeInv, NEW r \in Runs
  PROVE  /\ StageOf(state[r]) = "running" <=> state[r] = "running"
         /\ StageOf(state[r]) \in Contract!Choices <=> state[r] \in CompletedFamily
         /\ state[r] \in Settled => StageOf(state[r]) \in Contract!Choices \union {"ended"}
BY DEF TypeInv, TypeOK, StageOf, BuildStates, InFlight, CompletedFamily, Settled,
       Contract!Choices, Contract!Chosen

LEMMA StageMoves ==
  ASSUME NEW r \in Runs, NEW to, \A s \in Runs : state'[s] = IF s = r THEN to ELSE state[s]
  PROVE  StageMap' = [StageMap EXCEPT ![r] = StageOf(to)]
BY DEF StageMap

LEMMA StageStands ==
  ASSUME \A r \in Runs : StageOf(state'[r]) = StageOf(state[r])
  PROVE  UNCHANGED StageMap
BY DEF StageMap

LEMMA AnswerStands ==
  ASSUME UNCHANGED <<resultEpoch, usable>>
  PROVE  UNCHANGED AnswerMap
BY DEF AnswerMap, AnswerOf

\* Creation and submission: the problem is pinned to the chain's document.
LEMMA SubmissionHonours ==
  ASSUME ContractInv, NEW r \in Runs, Submission(r)
  PROVE  Honoured
<1> USE DEF ContractInv, TypeInv, TypeOK, runVars, resultVars, inputVars
<1>1. ASSUME NEW c \in Configs, NEW p \in Runs \union {NoRun}, CreateRun(r, c, p)
      PROVE  Honoured
  <2>1. StageMap' = [StageMap EXCEPT ![r] = "preparing"] /\ StageMap[r] = "absent"
    BY <1>1, StageMoves, StageNames DEF CreateRun, StageMap
  <2>2. UNCHANGED <<snapshot, AnswerMap, world>>
    BY <1>1, AnswerStands DEF CreateRun
  <2>3. Contract!Prepare(r)
    BY <2>1, <2>2 DEF Contract!Prepare, StageMap, AnswerMap
  <2> QED
    BY <2>3 DEF Honoured, Contract!ContractNext
<1>2. CASE ReadinessFails(r) \/ Enqueue(r)
  <2>1. Document(r) \in Inputs
    BY <1>2 DEF ReadinessFails, Enqueue, Document, ChainInv, SubmissionOK, StoreOK, RootOK
  <2>2. snapshot[r] \in {NoInput, Document(r)} /\ StageMap[r] = "preparing"
    BY <1>2, StageNames
       DEF ChainInv, PinnedOK, Document, ReadinessFails, Enqueue, StageMap
  <2>3. PICK to \in {"preparing", "queued"} : StageMap' = [StageMap EXCEPT ![r] = to]
    <3>1. CASE Enqueue(r)
      BY <3>1, StageMoves, StageNames DEF Enqueue
    <3>2. CASE ReadinessFails(r)
      <4>1. \A s \in Runs : state'[s] = IF s = r THEN "draft_configuration" ELSE state[s]
        BY <3>2 DEF ReadinessFails
      <4> QED
        BY <4>1, StageMoves, StageNames
    <3> QED
      BY <1>2, <3>1, <3>2
  <2>4. snapshot' = [snapshot EXCEPT ![r] = Document(r)] /\ UNCHANGED <<AnswerMap, world>>
    BY <1>2, AnswerStands DEF ReadinessFails, Enqueue
  <2>5. Contract!Pose(r, Document(r), to)
    BY <2>2, <2>3, <2>4 DEF Contract!Pose, StageMap, AnswerMap
  <2> QED
    BY <2>1, <2>5 DEF Honoured, Contract!ContractNext, Contract!Stages
<1>3. ASSUME UNCHANGED <<snapshot, world, resultEpoch, usable>>,
             \A s \in Runs : StageOf(state'[s]) = StageOf(state[s])
      PROVE  Honoured
  BY <1>3, StageStands, AnswerStands DEF Honoured, Contract!contractVars, StageMap, AnswerMap
<1>4. CASE Submit(r) \/ AssemblyRefused(r) \/ ValidationFails(r)
  <2>1. PICK to \in {"draft_configuration", "validating"} : Moves(r, to)
    BY <1>4 DEF Submit, AssemblyRefused, ValidationFails
  <2>2. state[r] \in {"draft_configuration", "validating", "readiness_check"}
    BY <2>1 DEF Moves, LegalTransitions, CompletedFamily, Settled
  <2>3. \A s \in Runs : state'[s] = IF s = r THEN to ELSE state[s]
    BY <2>1, MoveType
  <2> QED
    BY <1>3, <1>4, <2>2, <2>3, StageNames DEF Submit, AssemblyRefused, ValidationFails
<1>5. CASE Assemble(r) \/ SubmitterCrash(r)
  BY <1>3, <1>5 DEF Assemble, SubmitterCrash
<1> QED
  BY <1>1, <1>2, <1>4, <1>5 DEF Submission

\* The contract counts as the lifecycle does.
LEMMA SameCount == \A S : Contract!Cardinality(S) = Cardinality(S)
BY DEF Contract!Cardinality, Cardinality

\* The queue's workers: a claim starts the run, an outcome answers it.
LEMMA WorkerHonours ==
  ASSUME ContractInv, NEW w \in Workers, WorkerStep(w)
  PROVE  Honoured
<1> USE DEF ContractInv, TypeInv, TypeOK, TaskOK, runVars, resultVars, inputVars
<1>1. CASE Claim(w)
  <2> DEFINE r == task[w]
  <2>1. r \in Runs /\ state[r] = "queued"
    BY <1>1 DEF Claim, Claimable
  <2>2. StageMap' = [StageMap EXCEPT ![r] = "running"] /\ StageMap[r] = "queued"
    <3>1. \A s \in Runs : state'[s] = IF s = r THEN "running" ELSE state[s]
      BY <1>1, <2>1 DEF Claim
    <3>2. StageMap' = [StageMap EXCEPT ![r] = StageOf("running")]
      BY <2>1, <3>1, StageMoves
    <3>3. StageMap[r] = StageOf("queued")
      BY <2>1 DEF StageMap
    <3> QED
      BY <3>2, <3>3, StageNames
  <2>3. {s \in Runs : StageMap[s] = "running"} = Running
    BY StageTells DEF StageMap, Running
  <2>4. Cardinality(Running) < Cap
    BY <1>1 DEF Claim, CapInv
  <2>5. UNCHANGED <<snapshot, AnswerMap, world>>
    BY <1>1, AnswerStands DEF Claim
  <2>6. Contract!Cardinality({s \in Runs : StageMap[s] = "running"}) < Cap
    BY <2>3, <2>4, SameCount
  <2>7. Contract!Start(r)
    BY <2>2, <2>5, <2>6, SameCount DEF Contract!Start, StageMap, AnswerMap
  <2> QED
    BY <2>1, <2>7 DEF Honoured, Contract!ContractNext
<1>2. CASE PersistOutcome(w)
  <2> DEFINE r == task[w]
             a == IF Usable(answer[w]) THEN "usable" ELSE "useless"
             to == ClassifiedState(answer[w])
  <2>1. r \in Runs /\ state[r] = "running" /\ present[w] = 1
    BY <1>2 DEF PersistOutcome, ClaimIsCurrent, FenceInv, AnswerLife, Busy
  <2>2. resultEpoch[r] = 0 /\ r \notin usable
    BY <2>1 DEF FenceInv, ClaimLife, UsableOK
  <2>3. StageOf(to) = IF a = "usable" THEN "candidate" ELSE "ended"
    <3>1. to \in IF Usable(answer[w])
                 THEN {"completed", "completed_with_unmet_preferences"}
                 ELSE {"infeasible", "cancelled", "failed"}
      BY DEF ClassifiedState, Usable
    <3> QED
      BY <3>1, StageNames
  <2>4. StageMap' = [StageMap EXCEPT ![r] = StageOf(to)] /\ StageMap[r] = "running"
    <3>1. Moves(r, to)
      BY <1>2 DEF PersistOutcome
    <3>2. \A s \in Runs : state'[s] = IF s = r THEN to ELSE state[s]
      BY <2>1, <3>1, MoveType
    <3>3. StageMap[r] = StageOf("running")
      BY <2>1 DEF StageMap
    <3> HIDE DEF to
    <3>4. StageMap' = [StageMap EXCEPT ![r] = StageOf(to)]
      BY <2>1, <3>2, StageMoves
    <3> QED
      BY <3>3, <3>4, StageNames
  <2>5. AnswerMap' = [AnswerMap EXCEPT ![r] = a] /\ AnswerMap[r] = "none"
    <3>1. /\ resultEpoch' = [resultEpoch EXCEPT ![r] = 1]
          /\ usable' = IF Usable(answer[w]) THEN usable \union {r} ELSE usable
      BY <1>2, <2>1 DEF PersistOutcome
    <3>2. \A s \in Runs : AnswerOf(s)' = IF s = r THEN a ELSE AnswerOf(s)
      BY <2>1, <2>2, <3>1 DEF AnswerOf
    <3> QED
      BY <2>1, <2>2, <3>2 DEF AnswerMap, AnswerOf
  <2>6. Contract!Answer(r, a)
    BY <1>2, <2>3, <2>4, <2>5 DEF Contract!Answer, PersistOutcome, StageMap, AnswerMap
  <2> QED
    BY <2>1, <2>6 DEF Honoured, Contract!ContractNext
<1>3. CASE UNCHANGED <<state, snapshot, world, resultEpoch, usable>>
  BY <1>3, StageStands, AnswerStands DEF Honoured, Contract!contractVars, StageMap, AnswerMap
<1> QED
  BY <1>1, <1>2, <1>3
     DEF WorkerStep, PickJob, AbortJob, Admit, Defer, ExhaustJob, NotClaimable, SolveReturns,
         ResponseRejected, OutcomeFenced, WorkerCrash

\* A run that is given up in the queue or while it runs has no answer.
LEMMA GivingUpHonours ==
  ASSUME ContractInv, NEW rs \in SUBSET Runs,
         \A r \in rs : state[r] \in {"queued", "running"},
         \A r \in Runs : StageOf(state'[r]) = IF r \in rs THEN "ended" ELSE StageOf(state[r]),
         UNCHANGED <<snapshot, world, resultEpoch, usable>>
  PROVE  Honoured
<1>1. \A r \in rs : StageMap[r] \in {"queued", "running"} /\ AnswerMap[r] = "none"
  BY StageNames
     DEF ContractInv, FenceInv, ClaimLife, Unclaimed, StageMap, AnswerMap, AnswerOf
<1>2. StageMap' = [r \in Runs |-> IF r \in rs THEN "ended" ELSE StageMap[r]]
  BY DEF StageMap
<1>3. Contract!GiveUp(rs)
  BY <1>1, <1>2, AnswerStands DEF Contract!GiveUp, StageMap, AnswerMap
<1> QED
  BY <1>3 DEF Honoured, Contract!ContractNext

LEMMA HousekeepingHonours ==
  ASSUME ContractInv, NEW r \in Runs, Housekeeping(r)
  PROVE  Honoured
<1> USE DEF runVars, resultVars, inputVars
<1>1. CASE CancelQueued(r)
  <2>1. \A s \in Runs : state'[s] = IF s = r THEN "cancelled" ELSE state[s]
    BY <1>1, MoveType DEF CancelQueued, ContractInv, TypeInv
  <2>2. {r} \in SUBSET Runs
    OBVIOUS
  <2> QED
    BY <1>1, <2>1, <2>2, GivingUpHonours, StageNames DEF CancelQueued
<1>2. CASE UNCHANGED <<state, snapshot, world, resultEpoch, usable>>
  BY <1>2, StageStands, AnswerStands DEF Honoured, Contract!contractVars, StageMap, AnswerMap
<1> QED
  BY <1>1, <1>2
     DEF Housekeeping, ReclaimStranded, HeartbeatLapses, RequestCancel, CommitCancel,
         CancelRollsBack

\* The reaper gives up what it finds stale, and delivers the orphans again.
LEMMA SweepHonours ==
  ASSUME ContractInv, NEW orphaned \in SUBSET Runs, Sweep(orphaned)
  PROVE  Honoured
<1>1. Stale \in SUBSET Runs /\ \A r \in Stale : state[r] = "running"
  BY DEF Stale, Running
<1>2. \A r \in Runs : StageOf(state'[r]) = IF r \in Stale THEN "ended" ELSE StageOf(state[r])
  BY StageNames DEF Sweep
<1> QED
  BY <1>1, <1>2, GivingUpHonours DEF Sweep, resultVars, inputVars

\* A decision is a choice, an application, or a stage of review that the
\* contract does not tell from another.
LEMMA DecisionHonours ==
  ASSUME ContractInv, NEW r \in Runs, Decision(r)
  PROVE  Honoured
<1> USE DEF ContractInv, TypeInv, DecisionFrame, resultVars, inputVars
<1>1. UNCHANGED <<snapshot, AnswerMap, world>>
  BY AnswerStands DEF Decision, Review, MarkExtended, Approve, Apply
<1>2. CASE Review(r) \/ MarkExtended(r)
  <2>1. PICK to \in {"reviewed", "progressively_extended"} : Moves(r, to)
    BY <1>2 DEF Review, MarkExtended
  <2>2. state[r] \in {"completed", "completed_with_unmet_preferences", "reviewed",
                      "progressively_extended"}
    BY <2>1 DEF Moves, LegalTransitions, CompletedFamily, Settled
  <2>3. \A s \in Runs : state'[s] = IF s = r THEN to ELSE state[s]
    BY <2>1, MoveType
  <2>4. UNCHANGED StageMap
    BY <2>2, <2>3, StageNames, StageStands
  <2> QED
    BY <1>1, <2>4 DEF Honoured, Contract!contractVars, StageMap, AnswerMap
<1>3. CASE Approve(r)
  <2>1. state[r] = "reviewed" /\ StageMap[r] = "candidate" /\ AnswerMap[r] = "usable"
    BY <1>3, StageNames
       DEF Approve, LegalTransitions, CompletedFamily, Settled, StageMap, AnswerMap, AnswerOf
  <2>2. ASSUME NEW s \in Runs
        PROVE  StageOf(state'[s]) = IF s = r THEN "approved"
                                    ELSE IF StageMap[s] \in Contract!Choices THEN "ended"
                                    ELSE StageMap[s]
    BY <1>3, StageTells, StageNames DEF Approve, Siblings, TypeOK, StageMap
  <2>3. Contract!Choose(r)
    BY <1>1, <2>1, <2>2 DEF Contract!Choose, StageMap, AnswerMap
  <2> QED
    BY <2>3 DEF Honoured, Contract!ContractNext
<1>4. CASE Apply(r)
  <2>1. state[r] = "approved" /\ Fresh(r)
    BY <1>4 DEF Apply, Moves, LegalTransitions, CompletedFamily, Settled
  <2>2. snapshot[r] = world
    BY <2>1, SentinelsAssumption DEF ChainInv, CheckedOK, PassedChecks, CompletedFamily,
       PinnedOK, RootOK, StoreFresh, Fresh
  <2>3. \A s \in Runs : state'[s] = IF s = r THEN "applied_to_draft_schedule" ELSE state[s]
    BY <1>4, MoveType DEF Apply
  <2>4. /\ StageMap' = [StageMap EXCEPT ![r] = "applied_to_draft_schedule"]
        /\ StageMap[r] = "approved"
    BY <2>1, <2>3, StageMoves, StageNames DEF StageMap
  <2>5. Contract!Apply(r)
    BY <1>1, <2>2, <2>4 DEF Contract!Apply, StageMap, AnswerMap
  <2> QED
    BY <2>5 DEF Honoured, Contract!ContractNext
<1> QED
  BY <1>2, <1>3, <1>4 DEF Decision

LEMMA ArchiveHonours ==
  ASSUME ContractInv, Archive
  PROVE  Honoured
<1> DEFINE rs == {r \in Runs : state[r] \in Settled}
<1> USE DEF ContractInv, TypeInv
<1>1. \A r \in rs : StageMap[r] \in Contract!Choices \union {"ended"}
  BY StageTells DEF StageMap
<1>2. StageMap' = [r \in Runs |-> IF r \in rs THEN "ended" ELSE StageMap[r]]
  BY StageNames DEF Archive, StageMap
<1>3. UNCHANGED <<snapshot, AnswerMap, world>>
  BY AnswerStands DEF Archive, DecisionFrame, resultVars, inputVars
<1>4. Contract!Archive(rs)
  BY <1>1, <1>2, <1>3 DEF Contract!Archive, StageMap, AnswerMap
<1>5. rs \in SUBSET Runs
  OBVIOUS
<1> QED
  BY <1>4, <1>5 DEF Honoured, Contract!ContractNext

\* The builds keep their contract (BuildLifecycle.HonoursTheContract): what
\* handlers, workers and the reaper do to a run, in any order, with crashes
\* and late answers, is to pose it once, solve it under the cap, answer it
\* once, choose it over all others, and apply it to the period it was posed on.
THEOREM BuildsHonourTheContract == Spec => HonoursTheContract
<1>1. Init => Contract!ContractInit
  BY StageNames DEF Init, Contract!ContractInit, AnswerOf
<1>2. ContractInv /\ [Next]_vars => [Contract!ContractNext]_Contract!contractVars
  <2> SUFFICES ASSUME ContractInv, [Next]_vars PROVE Honoured
    BY DEF Honoured
  <2>1. ASSUME NEW v \in Inputs, EditInputs(v) PROVE Honoured
    <3>1. UNCHANGED <<StageMap, snapshot, AnswerMap>>
      BY <2>1, StageStands, AnswerStands DEF EditInputs, runVars, resultVars
    <3>2. Contract!Edit(v)
      BY <2>1, <3>1 DEF EditInputs, Contract!Edit, StageMap, AnswerMap
    <3> QED
      BY <3>2 DEF Honoured, Contract!ContractNext
  <2>2. CASE UNCHANGED vars
    BY <2>2, StageStands, AnswerStands
       DEF vars, runVars, resultVars, inputVars, Honoured, Contract!contractVars, StageMap,
           AnswerMap
  <2> QED
    BY <2>1, <2>2, SubmissionHonours, WorkerHonours, HousekeepingHonours, SweepHonours,
       DecisionHonours, ArchiveHonours DEF Next
<1>3. Spec => []ContractInv
  BY TypeInit, TypeStep, FenceInit, FenceStep, ChainInit, ChainStep, CapInit, CapStep,
     CandidatesInit, CandidatesStep, UsableInit, UsableStep, PTL DEF Spec, ContractInv
<1> QED
  BY <1>1, <1>2, <1>3, PTL DEF Spec, HonoursTheContract, Contract!ContractSpec
=============================================================================
