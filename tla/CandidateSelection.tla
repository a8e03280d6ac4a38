------------------------- MODULE CandidateSelection -------------------------
(***************************************************************************)
(* The decisions on the runs of one period as the READ COMMITTED           *)
(* transactions they are, with the locks that order them: rows of          *)
(* build_runs and schedule_periods, and the advisory lock of the           *)
(* organization's audit chain, which every audited write holds until it    *)
(* commits (apps/api/src/builds/selection.ts and service.ts,               *)
(* audit/recorder.ts).                                                     *)
(*                                                                         *)
(* The variables are the committed rows; txn is what an open transaction   *)
(* has read and locked.  Whoever moves an input or the source draft        *)
(* records an audit event in the same transaction: selection.ts states     *)
(* that premise of its own.                                                *)
(***************************************************************************)
EXTENDS Naturals, BuildStates

CONSTANTS
  Users,
  Runs,
  MaxEdits   \* bound: revisions of the inputs and of the source draft

ASSUME SelectionAssumption == MaxEdits \in Nat

VARIABLES
  \* build_runs.state, the revision its snapshot cites, the source revision of
  \* the draft made from it
  state, posed, drafts,
  \* revisions: of the constituents, and of what materialInputDigest covers
  inputs, source,
  status,    \* schedule_periods.status
  txn

runVars   == <<state, posed, drafts>>
worldVars == <<inputs, source, status>>
vars == <<runVars, worldVars, txn>>

States == (CompletedFamily \ {"completed_with_unmet_preferences"})
            \union {"running", "superseded", "archived"}
Statuses == {"planning", "published", "closed"}

Idle == [at |-> "idle"]

\* Where an apply stands between two of its locks and reads.
ApplySteps == {"applying", "sharing", "ordered", "fresh", "unmoved", "drafted"}

Txns ==
  {Idle}
    \union [at : {"editing"}, moves : SUBSET {"inputs", "source"}]
    \union [at : {"administering"}, to : Statuses]
    \union [at : ApplySteps, run : Runs, seen : Nat]
    \union [at : {"approving", "approved"}, run : Runs]
    \union [at : {"archiving"}, todo : SUBSET Runs, rows : SUBSET Runs]

TypeOK ==
  /\ state \in [Runs -> States]
  /\ posed \in [Runs -> Nat]
  /\ drafts \in [Runs -> SUBSET Nat]
  /\ inputs \in Nat /\ source \in Nat
  /\ status \in Statuses
  /\ txn \in [Users -> Txns]

Init ==
  /\ state = [r \in Runs |-> "running"]
  /\ posed = [r \in Runs |-> 0]
  /\ drafts = [r \in Runs |-> {}]
  /\ inputs = 0 /\ source = 0
  /\ status = "planning"
  /\ txn = [u \in Users |-> Idle]
-----------------------------------------------------------------------------
(* Locks, held to the end of the transaction.                              *)

HoldsRow(u, r) ==
  \/ txn[u].at \in ApplySteps \union {"approving", "approved"} /\ txn[u].run = r
  \/ txn[u].at = "archiving" /\ r \in txn[u].rows

RowFree(u, r) == \A v \in Users \ {u} : ~HoldsRow(v, r)

\* Mutant: the period is locked by the draft's foreign key only.
MutantSharesPeriod(u) == txn[u].at = "drafted"

\* FOR KEY SHARE on the period's row, and FOR UPDATE.
SharesPeriod(u) == txn[u].at \in ApplySteps \ {"applying"}
LocksPeriod(u) == txn[u].at = "administering"

CanShare(u) == \A v \in Users \ {u} : ~LocksPeriod(v)
CanLock(u) == \A v \in Users \ {u} : ~SharesPeriod(v) /\ ~LocksPeriod(v)

\* pg_advisory_xact_lock of the organization.
HoldsAudit(u) == txn[u].at \in {"ordered", "fresh", "unmoved", "drafted", "approved"}

AuditFree(u) == \A v \in Users \ {u} : ~HoldsAudit(v)

Step(u, t) == txn' = [txn EXCEPT ![u] = t]
Advance(u, at) == txn' = [txn EXCEPT ![u].at = at]

\* The audit event and the commit.
Commit(u) == AuditFree(u) /\ Step(u, Idle)

Rollback(u) ==
  /\ txn[u] # Idle
  /\ Step(u, Idle)
  /\ UNCHANGED <<runVars, worldVars>>
-----------------------------------------------------------------------------
(* What moves the world: an edit of the catalogue, the rules, the demand   *)
(* or the source draft, and transitionPeriodStatus (publishVersion locks   *)
(* the same way).                                                          *)

BeginEdit(u, moves) ==
  /\ txn[u] = Idle
  /\ moves # {}
  /\ Step(u, [at |-> "editing", moves |-> moves])
  /\ UNCHANGED <<runVars, worldVars>>

CommitEdit(u) ==
  /\ txn[u].at = "editing"
  /\ inputs + source < MaxEdits
  /\ inputs' = IF "inputs" \in txn[u].moves THEN inputs + 1 ELSE inputs
  /\ source' = IF "source" \in txn[u].moves THEN source + 1 ELSE source
  /\ Commit(u)
  /\ UNCHANGED <<runVars, status>>

LegalPeriodTransitions(s) ==
  CASE s = "planning"  -> {"published", "closed"}
    [] s = "published" -> {"closed"}
    [] s = "closed"    -> {"planning"}

BeginAdminister(u, to) ==
  /\ txn[u] = Idle
  /\ CanLock(u)
  /\ to \in LegalPeriodTransitions(status)
  /\ Step(u, [at |-> "administering", to |-> to])
  /\ UNCHANGED <<runVars, worldVars>>

transitionPeriodStatus(u) ==
  /\ txn[u].at = "administering"
  /\ status' = txn[u].to
  /\ Commit(u)
  /\ UNCHANGED <<runVars, inputs, source>>
-----------------------------------------------------------------------------
(* Runs.  A worker's result, and a mark of one run, contend for its row.   *)

settleRun(u, r, revision) ==
  /\ txn[u] = Idle
  /\ RowFree(u, r) /\ AuditFree(u)
  /\ state[r] = "running"
  /\ state' = [state EXCEPT ![r] = "completed"]
  /\ posed' = [posed EXCEPT ![r] = revision]
  /\ UNCHANGED <<drafts, worldVars, txn>>

\* markReviewed, markProgressivelyExtended, markStageComplete.
Mark(u, r, to) ==
  /\ txn[u] = Idle
  /\ RowFree(u, r) /\ AuditFree(u)
  /\ <<state[r], to>> \in LegalTransitions
  /\ state' = [state EXCEPT ![r] = to]
  /\ UNCHANGED <<posed, drafts, worldVars, txn>>

BeginApproval(u, r) ==
  /\ txn[u] = Idle
  /\ RowFree(u, r)
  /\ state[r] = "reviewed"
  /\ Step(u, [at |-> "approving", run |-> r])
  /\ UNCHANGED <<runVars, worldVars>>

\* transitionRun to approved: its audit event takes the audit lock.
TransitionApproved(u) ==
  /\ txn[u].at = "approving"
  /\ AuditFree(u)
  /\ Advance(u, "approved")
  /\ UNCHANGED <<runVars, worldVars>>

Siblings(r) == {s \in Runs \ {r} : state[s] \in CompletedFamily}

\* Mutant: a sibling is cancelled.
MutantRetired == "cancelled"
Retired == "superseded"

\* supersedeSiblings locks the siblings after that.
approveRun(u) ==
  /\ txn[u].at = "approved"
  /\ LET r == txn[u].run IN
       /\ \A s \in Siblings(r) : RowFree(u, s)
       /\ state' = [s \in Runs |-> IF s = r THEN "approved"
                                   ELSE IF s \in Siblings(r) THEN Retired
                                   ELSE state[s]]
  /\ Commit(u)
  /\ UNCHANGED <<posed, drafts, worldVars>>

\* archiveSettledRunsForClosedPeriod reads the period without a lock, and
\* locks the settled runs one after the other.
BeginArchive(u) ==
  /\ txn[u] = Idle
  /\ status = "closed"
  /\ Step(u, [at |-> "archiving", rows |-> {},
              todo |-> {r \in Runs : state[r] \in Settled}])
  /\ UNCHANGED <<runVars, worldVars>>

LockSettled(u, r) ==
  /\ txn[u].at = "archiving" /\ r \in txn[u].todo
  /\ RowFree(u, r)
  /\ IF state[r] \in Settled
     THEN txn' = [txn EXCEPT ![u].todo = @ \ {r}, ![u].rows = @ \union {r}]
     ELSE txn' = [txn EXCEPT ![u].todo = @ \ {r}]
  /\ UNCHANGED <<runVars, worldVars>>

archiveSettledRuns(u) ==
  /\ txn[u].at = "archiving" /\ txn[u].todo = {}
  /\ state' = [r \in Runs |-> IF r \in txn[u].rows THEN "archived" ELSE state[r]]
  /\ Commit(u)
  /\ UNCHANGED <<posed, drafts, worldVars>>
-----------------------------------------------------------------------------
(* applyCandidateToNewDraft, statement by statement.                        *)

\* The run's row, and the source as its scheduler saw it (read here, for one
\* that moved since then is refused).
BeginApply(u, r) ==
  /\ txn[u] = Idle
  /\ RowFree(u, r)
  /\ state[r] = "approved"
  /\ Step(u, [at |-> "applying", run |-> r, seen |-> source])
  /\ UNCHANGED <<runVars, worldVars>>

lockPeriodBeforeAudit(u) ==
  /\ txn[u].at = "applying"
  /\ CanShare(u)
  /\ Advance(u, "sharing")
  /\ UNCHANGED <<runVars, worldVars>>

lockAuditOrdering(u) ==
  /\ txn[u].at = "sharing"
  /\ AuditFree(u)
  /\ Advance(u, "ordered")
  /\ UNCHANGED <<runVars, worldVars>>

buildStaleness(u) ==
  /\ txn[u].at = "ordered"
  /\ posed[txn[u].run] = inputs
  /\ Advance(u, "fresh")
  /\ UNCHANGED <<runVars, worldVars>>

\* Mutant: the digest is compared before the audit lock only.
MutantSourceUnmoved(u) == TRUE
SourceUnmoved(u) == source = txn[u].seen

CompareDigest(u) ==
  /\ txn[u].at = "fresh"
  /\ SourceUnmoved(u)
  /\ Advance(u, "unmoved")
  /\ UNCHANGED <<runVars, worldVars>>

\* createDraftVersion: the trigger reads the period's status, then the foreign
\* key shares its row.
createDraftVersion(u) ==
  /\ txn[u].at = "unmoved"
  /\ status # "closed"
  /\ CanShare(u)
  /\ Advance(u, "drafted")
  /\ UNCHANGED <<runVars, worldVars>>

applyCandidateToNewDraft(u) ==
  /\ txn[u].at = "drafted"
  /\ state' = [state EXCEPT ![txn[u].run] = "applied_to_draft_schedule"]
  /\ drafts' = [drafts EXCEPT ![txn[u].run] = {txn[u].seen}]
  /\ Commit(u)
  /\ UNCHANGED <<posed, worldVars>>
-----------------------------------------------------------------------------
Movers(u) ==
  \/ \E moves \in SUBSET {"inputs", "source"} : BeginEdit(u, moves)
  \/ CommitEdit(u)
  \/ \E to \in Statuses : BeginAdminister(u, to)
  \/ transitionPeriodStatus(u)

Deciders(u) ==
  \/ \E r \in Runs, revision \in 0 .. inputs : settleRun(u, r, revision)
  \/ \E r \in Runs, to \in {"reviewed", "progressively_extended"} : Mark(u, r, to)
  \/ \E r \in Runs : BeginApproval(u, r)
  \/ TransitionApproved(u) \/ approveRun(u)
  \/ BeginArchive(u) \/ archiveSettledRuns(u)
  \/ \E r \in Runs : LockSettled(u, r)

Appliers(u) ==
  \/ \E r \in Runs : BeginApply(u, r)
  \/ lockPeriodBeforeAudit(u) \/ lockAuditOrdering(u)
  \/ buildStaleness(u) \/ CompareDigest(u)
  \/ createDraftVersion(u) \/ applyCandidateToNewDraft(u)

Next == \E u \in Users : Movers(u) \/ Deciders(u) \/ Appliers(u) \/ Rollback(u)

Spec == Init /\ [][Next]_vars
-----------------------------------------------------------------------------
(* Properties.                                                             *)

\* The transactions decide as if each were one step (selection.ts): what an
\* apply read is what holds when its draft is committed, whoever edited,
\* closed, approved or archived between its statements; two approvals that
\* cross leave one candidate.
Decisions == INSTANCE CandidateDecisions
DecidesInOneStep == Decisions!DecisionsSpec

WaitsForAudit(u) ==
  /\ \/ txn[u].at \in {"editing", "administering", "approving", "sharing"}
     \/ txn[u].at = "archiving" /\ txn[u].todo = {}
  /\ ~AuditFree(u)

WaitsForRow(u, v) ==
  \/ txn[u].at = "approved" /\ \E s \in Siblings(txn[u].run) : HoldsRow(v, s)
  \/ txn[u].at = "archiving" /\ \E r \in txn[u].todo : HoldsRow(v, r)

WaitsFor(u, v) ==
  \/ WaitsForRow(u, v)
  \/ txn[u].at \in {"applying", "unmoved"} /\ LocksPeriod(v)
  \/ WaitsForAudit(u) /\ HoldsAudit(v)

Deadlocked(S) == S # {} /\ \A u \in S : \E v \in S \ {u} : WaitsFor(u, v)

\* An apply shares the period's row before it takes the audit lock
\* (lockPeriodBeforeAudit), so it has no part in a deadlock of its own making,
\* the 40P01 that was reproduced before the lock was moved: whenever
\* transactions wait for each other, one of them is an approval on its way to
\* the siblings' rows (RowsComeFirst, below), or two are archives, which lock
\* theirs in no order.
OnlyRowsDeadlock ==
  \A S \in SUBSET Users : Deadlocked(S) =>
    \/ \E u \in S : txn[u].at = "approved"
    \/ \E u, v \in S : u # v /\ txn[u].at = "archiving" /\ txn[v].at = "archiving"

\* recorder.ts, after migration 0017: "a row lock is acquired BEFORE the
\* per-organization audit advisory lock, in every shipped writer", so that no
\* two transactions wait for each other.  Violated: approveRun audits its own
\* transition and then locks the siblings' rows.
RowsComeFirst == \A u, v \in Users :
  WaitsForAudit(u) /\ txn[v].at = "approved"
    => \A s \in Siblings(txn[v].run) : ~HoldsRow(u, s)
=============================================================================
