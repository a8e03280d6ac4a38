---------------------- MODULE CandidateSelectionProofs ----------------------
(***************************************************************************)
(* Proofs about CandidateSelection, for every number of users and runs:    *)
(* the locks exclude what they are there to exclude, and so the            *)
(* transactions implement decisions of one step each.                      *)
(***************************************************************************)
EXTENDS CandidateSelection, TLAPS

-----------------------------------------------------------------------------
(* The inductive invariant: the locks exclude each other, and what a        *)
(* transaction read under one is still so.                                  *)

OneAuditor == \A u, v \in Users : HoldsAudit(u) /\ HoldsAudit(v) => u = v

RowsExclude == \A u, v \in Users : \A r \in Runs : HoldsRow(u, r) /\ HoldsRow(v, r) => u = v

PeriodExcludes == \A u, v \in Users : SharesPeriod(u) => ~LocksPeriod(v)

Stands(u) ==
  /\ txn[u].at \in ApplySteps => state[txn[u].run] = "approved"
  /\ txn[u].at \in {"approving", "approved"} => state[txn[u].run] = "reviewed"
  /\ txn[u].at = "archiving" => \A r \in txn[u].rows : state[r] \in Settled
  /\ txn[u].at \in {"fresh", "unmoved", "drafted"} => posed[txn[u].run] = inputs
  /\ txn[u].at \in {"unmoved", "drafted"} => source = txn[u].seen
  /\ txn[u].at = "drafted" => status # "closed"

ReadsStand == \A u \in Users : Stands(u)

SelectionInv == TypeOK /\ OneAuditor /\ RowsExclude /\ PeriodExcludes /\ ReadsStand

\* What the step a transaction has reached says of its fields.
LEMMA TxnFields ==
  ASSUME TypeOK, NEW u \in Users
  PROVE  /\ txn[u] \in Txns
         /\ txn[u].at \in ApplySteps => txn[u].run \in Runs /\ txn[u].seen \in Nat
         /\ txn[u].at \in {"approving", "approved"} => txn[u].run \in Runs
         /\ txn[u].at = "archiving" => txn[u].rows \subseteq Runs /\ txn[u].todo \subseteq Runs
         /\ txn[u].at = "administering" => txn[u].to \in Statuses
         /\ txn[u].at = "editing" => txn[u].moves \subseteq {"inputs", "source"}
BY DEF TypeOK, Txns, Idle, ApplySteps

LEMMA AdvanceFields ==
  ASSUME TypeOK, NEW u \in Users, NEW at, Advance(u, at)
  PROVE  /\ txn'[u] = [txn[u] EXCEPT !.at = at]
         /\ \A v \in Users \ {u} : txn'[v] = txn[v]
         /\ txn[u].at \in ApplySteps => /\ txn'[u].at = at
                                        /\ txn'[u].run = txn[u].run
                                        /\ txn'[u].seen = txn[u].seen
         /\ txn[u].at = "approving" => txn'[u].at = at /\ txn'[u].run = txn[u].run
<1>1. txn'[u] = [txn[u] EXCEPT !.at = at] /\ \A v \in Users \ {u} : txn'[v] = txn[v]
  BY DEF TypeOK, Advance
<1>2. txn[u].at \in ApplySteps =>
        txn[u] \in [at : ApplySteps, run : Runs, seen : Nat]
  BY TxnFields DEF Txns, Idle, ApplySteps
<1>3. txn[u].at = "approving" => txn[u] \in [at : {"approving", "approved"}, run : Runs]
  BY TxnFields DEF Txns, Idle, ApplySteps
<1> QED
  BY <1>1, <1>2, <1>3

LEMMA StepFields ==
  ASSUME TypeOK, NEW u \in Users, NEW t, Step(u, t)
  PROVE  txn'[u] = t /\ \A v \in Users \ {u} : txn'[v] = txn[v]
BY DEF TypeOK, Step
-----------------------------------------------------------------------------
(* Type correctness.                                                        *)

LEMMA StepTyped ==
  ASSUME TypeOK, NEW u \in Users, NEW t \in Txns, Step(u, t)
  PROVE  txn' \in [Users -> Txns]
BY DEF TypeOK, Step

LEMMA IdleTyped == Idle \in Txns
BY DEF Txns

LEMMA ApplyAdvanceTyped ==
  ASSUME TypeOK, NEW u \in Users, NEW at \in ApplySteps,
         txn[u].at \in ApplySteps, Advance(u, at)
  PROVE  txn' \in [Users -> Txns]
<1>1. txn[u] \in [at : ApplySteps, run : Runs, seen : Nat]
  BY TxnFields DEF Txns, Idle, ApplySteps
<1>2. [txn[u] EXCEPT !.at = at] \in [at : ApplySteps, run : Runs, seen : Nat]
  BY <1>1
<1>3. [txn[u] EXCEPT !.at = at] \in Txns
  BY <1>2 DEF Txns
<1> QED
  BY <1>3 DEF TypeOK, Advance

LEMMA MoversTyped ==
  ASSUME TypeOK, NEW u \in Users, Movers(u)
  PROVE  TypeOK'
<1> USE DEF runVars, worldVars
<1>1. ASSUME NEW moves \in SUBSET {"inputs", "source"}, BeginEdit(u, moves)
      PROVE  TypeOK'
  <2>1. [at |-> "editing", moves |-> moves] \in Txns
    BY DEF Txns
  <2> QED
    BY <1>1, <2>1, StepTyped DEF BeginEdit, TypeOK
<1>2. CASE CommitEdit(u)
  <2>1. txn' \in [Users -> Txns]
    BY <1>2, StepTyped, IdleTyped DEF CommitEdit, Commit
  <2> QED
    BY <1>2, <2>1 DEF CommitEdit, TypeOK
<1>3. ASSUME NEW to \in Statuses, BeginAdminister(u, to)
      PROVE  TypeOK'
  <2>1. [at |-> "administering", to |-> to] \in Txns
    BY DEF Txns
  <2> QED
    BY <1>3, <2>1, StepTyped DEF BeginAdminister, TypeOK
<1>4. CASE transitionPeriodStatus(u)
  <2>1. txn' \in [Users -> Txns]
    BY <1>4, StepTyped, IdleTyped DEF transitionPeriodStatus, Commit
  <2>2. status' \in Statuses
    BY <1>4, TxnFields DEF transitionPeriodStatus
  <2> QED
    BY <1>4, <2>1, <2>2 DEF transitionPeriodStatus, TypeOK
<1> QED
  BY <1>1, <1>2, <1>3, <1>4 DEF Movers

LEMMA DecidersTyped ==
  ASSUME TypeOK, NEW u \in Users, Deciders(u)
  PROVE  TypeOK'
<1> USE DEF runVars, worldVars
<1>1. ASSUME NEW r \in Runs, NEW revision \in 0 .. inputs, settleRun(u, r, revision)
      PROVE  TypeOK'
  BY <1>1 DEF settleRun, TypeOK, States, CompletedFamily
<1>2. ASSUME NEW r \in Runs, NEW to \in {"reviewed", "progressively_extended"}, Mark(u, r, to)
      PROVE  TypeOK'
  BY <1>2 DEF Mark, TypeOK, States, CompletedFamily
<1>3. ASSUME NEW r \in Runs, BeginApproval(u, r)
      PROVE  TypeOK'
  <2>1. [at |-> "approving", run |-> r] \in Txns
    BY DEF Txns
  <2> QED
    BY <1>3, <2>1, StepTyped DEF BeginApproval, TypeOK
<1>4. CASE TransitionApproved(u)
  <2>1. txn[u] \in [at : {"approving", "approved"}, run : Runs]
    BY <1>4, TxnFields DEF TransitionApproved, Txns, Idle, ApplySteps
  <2>2. [txn[u] EXCEPT !.at = "approved"] \in [at : {"approving", "approved"}, run : Runs]
    BY <2>1
  <2>3. [txn[u] EXCEPT !.at = "approved"] \in Txns
    BY <2>2 DEF Txns
  <2> QED
    BY <1>4, <2>3 DEF TransitionApproved, Advance, TypeOK
<1>5. CASE approveRun(u)
  <2>1. txn' \in [Users -> Txns]
    BY <1>5, StepTyped, IdleTyped DEF approveRun, Commit
  <2>2. state' \in [Runs -> States]
    BY <1>5 DEF approveRun, TypeOK, States, CompletedFamily, Retired
  <2> QED
    BY <1>5, <2>1, <2>2 DEF approveRun, TypeOK
<1>6. CASE BeginArchive(u)
  <2>1. [at |-> "archiving", rows |-> {}, todo |-> {r \in Runs : state[r] \in Settled}] \in Txns
    BY DEF Txns
  <2> QED
    BY <1>6, <2>1, StepTyped DEF BeginArchive, TypeOK
<1>7. ASSUME NEW r \in Runs, LockSettled(u, r)
      PROVE  TypeOK'
  <2>1. txn[u] \in [at : {"archiving"}, todo : SUBSET Runs, rows : SUBSET Runs]
    BY <1>7, TxnFields DEF LockSettled, Txns, Idle, ApplySteps
  <2>2. /\ [txn[u] EXCEPT !.todo = @ \ {r}] \in Txns
        /\ [txn[u] EXCEPT !.todo = @ \ {r}, !.rows = @ \union {r}] \in Txns
    <3>1. [txn[u] EXCEPT !.todo = @ \ {r}]
            \in [at : {"archiving"}, todo : SUBSET Runs, rows : SUBSET Runs]
      BY <2>1
    <3>2. [txn[u] EXCEPT !.todo = @ \ {r}, !.rows = @ \union {r}]
            \in [at : {"archiving"}, todo : SUBSET Runs, rows : SUBSET Runs]
      BY <2>1
    <3> QED
      BY <3>1, <3>2 DEF Txns
  <2>3. txn' \in [Users -> Txns]
    BY <1>7, <2>2 DEF LockSettled, TypeOK
  <2> QED
    BY <1>7, <2>3 DEF LockSettled, TypeOK
<1>8. CASE archiveSettledRuns(u)
  <2>1. txn' \in [Users -> Txns]
    BY <1>8, StepTyped, IdleTyped DEF archiveSettledRuns, Commit
  <2> QED
    BY <1>8, <2>1 DEF archiveSettledRuns, TypeOK, States
<1> QED
  BY <1>1, <1>2, <1>3, <1>4, <1>5, <1>6, <1>7, <1>8 DEF Deciders

LEMMA AppliersTyped ==
  ASSUME TypeOK, NEW u \in Users, Appliers(u)
  PROVE  TypeOK'
<1> USE DEF runVars, worldVars
<1>1. ASSUME NEW r \in Runs, BeginApply(u, r)
      PROVE  TypeOK'
  <2>1. [at |-> "applying", run |-> r, seen |-> source] \in Txns
    BY DEF Txns, ApplySteps, TypeOK
  <2> QED
    BY <1>1, <2>1, StepTyped DEF BeginApply, TypeOK
<1>2. CASE lockPeriodBeforeAudit(u) \/ lockAuditOrdering(u) \/ buildStaleness(u)
             \/ CompareDigest(u) \/ createDraftVersion(u)
  <2>1. txn' \in [Users -> Txns]
    BY <1>2, ApplyAdvanceTyped
       DEF lockPeriodBeforeAudit, lockAuditOrdering, buildStaleness, CompareDigest,
           createDraftVersion, ApplySteps
  <2> QED
    BY <1>2, <2>1 DEF lockPeriodBeforeAudit, lockAuditOrdering, buildStaleness, CompareDigest,
                      createDraftVersion, TypeOK
<1>3. CASE applyCandidateToNewDraft(u)
  <2>1. txn' \in [Users -> Txns]
    BY <1>3, StepTyped, IdleTyped DEF applyCandidateToNewDraft, Commit
  <2>2. txn[u].run \in Runs /\ txn[u].seen \in Nat
    BY <1>3, TxnFields DEF applyCandidateToNewDraft, ApplySteps
  <2> QED
    BY <1>3, <2>1, <2>2 DEF applyCandidateToNewDraft, TypeOK, States, CompletedFamily
<1> QED
  BY <1>1, <1>2, <1>3 DEF Appliers

LEMMA TypeStep ==
  ASSUME TypeOK, [Next]_vars
  PROVE  TypeOK'
<1>1. CASE UNCHANGED vars
  BY <1>1 DEF vars, runVars, worldVars, TypeOK
<1>2. ASSUME NEW u \in Users, Rollback(u)
      PROVE  TypeOK'
  BY <1>2, StepTyped, IdleTyped DEF Rollback, runVars, worldVars, TypeOK
<1> QED
  BY <1>1, <1>2, MoversTyped, DecidersTyped, AppliersTyped DEF Next

LEMMA InitTyped == Init => TypeOK
BY IdleTyped DEF Init, TypeOK, States, Statuses, CompletedFamily

\* The variables keep their types (CandidateSelection.TypeOK).
THEOREM TypeCorrect == Spec => []TypeOK
BY InitTyped, TypeStep, PTL DEF Spec
-----------------------------------------------------------------------------
(* A step of u gains a lock only where nobody else holds it.                *)

Gains(u) ==
  /\ HoldsAudit(u)' => HoldsAudit(u) \/ AuditFree(u)
  /\ \A r \in Runs : HoldsRow(u, r)' => HoldsRow(u, r) \/ RowFree(u, r)
  /\ SharesPeriod(u)' => SharesPeriod(u) \/ CanShare(u)
  /\ LocksPeriod(u)' => LocksPeriod(u) \/ CanLock(u)

OthersStand(u) == \A v \in Users \ {u} : txn'[v] = txn[v]

LEMMA LocksExclude ==
  ASSUME OneAuditor, RowsExclude, PeriodExcludes, NEW u \in Users, Gains(u), OthersStand(u)
  PROVE  OneAuditor' /\ RowsExclude' /\ PeriodExcludes'
<1>1. ASSUME NEW v \in Users \ {u}
      PROVE  /\ HoldsAudit(v)' <=> HoldsAudit(v)
             /\ \A r \in Runs : HoldsRow(v, r)' <=> HoldsRow(v, r)
             /\ SharesPeriod(v)' <=> SharesPeriod(v)
             /\ LocksPeriod(v)' <=> LocksPeriod(v)
  BY <1>1 DEF OthersStand, HoldsAudit, HoldsRow, SharesPeriod, LocksPeriod
<1>2. OneAuditor'
  BY <1>1 DEF Gains, OneAuditor, AuditFree
<1>3. RowsExclude'
  BY <1>1 DEF Gains, RowsExclude, RowFree
<1>4. PeriodExcludes'
  <2>1. ~(SharesPeriod(u)' /\ LocksPeriod(u)')
    BY DEF SharesPeriod, LocksPeriod, ApplySteps
  <2> QED
    BY <1>1, <2>1 DEF Gains, PeriodExcludes, CanShare, CanLock
<1> QED
  BY <1>2, <1>3, <1>4

\* What v has read under its locks is so after a step of u that leaves alone
\* what v has locked.
LEMMA StandsKept ==
  ASSUME TypeOK, NEW u \in Users, OthersStand(u), NEW v \in Users \ {u}, Stands(v),
         \A r \in Runs : HoldsRow(v, r) => state'[r] = state[r],
         HoldsAudit(v) => posed' = posed /\ inputs' = inputs /\ source' = source,
         SharesPeriod(v) => status' = status
  PROVE  Stands(v)'
<1>1. txn'[v] = txn[v]
  BY DEF OthersStand
<1>2. txn[v].at \in ApplySteps \union {"approving", "approved"} =>
        state'[txn[v].run] = state[txn[v].run]
  BY TxnFields DEF HoldsRow
<1>3. txn[v].at = "archiving" => \A r \in txn[v].rows : state'[r] = state[r]
  BY TxnFields DEF HoldsRow
<1>4. txn[v].at \in {"fresh", "unmoved", "drafted"} =>
        posed' = posed /\ inputs' = inputs /\ source' = source /\ status' = status
  BY DEF HoldsAudit, SharesPeriod, ApplySteps
<1> QED
  BY <1>1, <1>2, <1>3, <1>4 DEF Stands

\* A step that writes no committed row.
Reads == UNCHANGED <<runVars, worldVars>>

LEMMA ReadingStands ==
  ASSUME TypeOK, ReadsStand, NEW u \in Users, OthersStand(u), Reads, Stands(u)'
  PROVE  ReadsStand'
BY StandsKept DEF ReadsStand, Reads, runVars, worldVars

Invariants == OneAuditor' /\ RowsExclude' /\ PeriodExcludes' /\ ReadsStand'

LEMMA Settles ==
  ASSUME SelectionInv, NEW u \in Users, Gains(u), OthersStand(u), Stands(u)', Reads
  PROVE  Invariants
BY LocksExclude, ReadingStands DEF SelectionInv, Invariants

\* A transaction that ends lets go of everything.
LEMMA Ends ==
  ASSUME TypeOK, NEW u \in Users, Step(u, Idle)
  PROVE  Gains(u) /\ OthersStand(u) /\ Stands(u)'
<1>1. txn'[u] = Idle /\ OthersStand(u)
  BY StepFields DEF OthersStand
<1> QED
  BY <1>1 DEF Gains, Stands, HoldsAudit, HoldsRow, SharesPeriod, LocksPeriod, ApplySteps, Idle

LEMMA MoversKeep ==
  ASSUME SelectionInv, NEW u \in Users, Movers(u)
  PROVE  Invariants
<1> USE DEF SelectionInv
<1>1. ASSUME NEW moves \in SUBSET {"inputs", "source"}, BeginEdit(u, moves)
      PROVE  Invariants
  <2>1. txn'[u] = [at |-> "editing", moves |-> moves] /\ OthersStand(u)
    BY <1>1, StepFields DEF BeginEdit, OthersStand
  <2>2. Gains(u) /\ Stands(u)'
    BY <2>1 DEF Gains, Stands, HoldsAudit, HoldsRow, SharesPeriod, LocksPeriod, ApplySteps
  <2> QED
    BY <1>1, <2>1, <2>2, Settles DEF BeginEdit, Reads
<1>2. ASSUME NEW to \in Statuses, BeginAdminister(u, to)
      PROVE  Invariants
  <2>1. txn'[u] = [at |-> "administering", to |-> to] /\ OthersStand(u)
    BY <1>2, StepFields DEF BeginAdminister, OthersStand
  <2>2. Gains(u) /\ Stands(u)'
    BY <1>2, <2>1
       DEF BeginAdminister, Gains, Stands, HoldsAudit, HoldsRow, SharesPeriod, LocksPeriod,
           ApplySteps
  <2> QED
    BY <1>2, <2>1, <2>2, Settles DEF BeginAdminister, Reads
<1>3. CASE CommitEdit(u)
  <2>1. Gains(u) /\ OthersStand(u) /\ Stands(u)'
    BY <1>3, Ends DEF CommitEdit, Commit
  <2>2. ASSUME NEW v \in Users \ {u} PROVE Stands(v)'
    <3>1. ~HoldsAudit(v)
      BY <1>3 DEF CommitEdit, Commit, AuditFree
    <3> QED
      BY <1>3, <2>1, <3>1, StandsKept DEF CommitEdit, runVars, ReadsStand
  <2> QED
    BY <2>1, <2>2, LocksExclude DEF ReadsStand, Invariants
<1>4. CASE transitionPeriodStatus(u)
  <2>1. Gains(u) /\ OthersStand(u) /\ Stands(u)'
    BY <1>4, Ends DEF transitionPeriodStatus, Commit
  <2>2. ASSUME NEW v \in Users \ {u} PROVE Stands(v)'
    <3>1. ~SharesPeriod(v)
      BY <1>4 DEF transitionPeriodStatus, PeriodExcludes, LocksPeriod
    <3> QED
      BY <1>4, <2>1, <3>1, StandsKept DEF transitionPeriodStatus, runVars, ReadsStand
  <2> QED
    BY <2>1, <2>2, LocksExclude DEF ReadsStand, Invariants
<1> QED
  BY <1>1, <1>2, <1>3, <1>4 DEF Movers

\* A decision on one run whose row is free.
LEMMA MarkKeeps ==
  ASSUME SelectionInv, NEW u \in Users, NEW r \in Runs, txn' = txn, txn[u] = Idle,
         RowFree(u, r), AuditFree(u),
         \A s \in Runs \ {r} : state'[s] = state[s],
         inputs' = inputs, source' = source, status' = status
  PROVE  Invariants
<1> USE DEF SelectionInv
<1>1. Gains(u) /\ OthersStand(u) /\ Stands(u)'
  BY DEF Gains, OthersStand, Stands, HoldsAudit, HoldsRow, SharesPeriod, LocksPeriod,
         ApplySteps, Idle
<1>2. ASSUME NEW v \in Users \ {u} PROVE Stands(v)'
  <2>1. ~HoldsAudit(v) /\ ~HoldsRow(v, r)
    BY DEF RowFree, AuditFree
  <2> QED
    BY <1>1, <2>1, StandsKept DEF ReadsStand
<1> QED
  BY <1>1, <1>2, LocksExclude DEF ReadsStand, Invariants

LEMMA DecidersKeep ==
  ASSUME SelectionInv, NEW u \in Users, Deciders(u)
  PROVE  Invariants
<1> USE DEF SelectionInv
<1>1. ASSUME NEW r \in Runs, NEW revision \in 0 .. inputs, settleRun(u, r, revision)
      PROVE  Invariants
  BY <1>1, MarkKeeps DEF settleRun, worldVars, TypeOK
<1>2. ASSUME NEW r \in Runs, NEW to \in {"reviewed", "progressively_extended"}, Mark(u, r, to)
      PROVE  Invariants
  BY <1>2, MarkKeeps DEF Mark, worldVars, TypeOK
<1>3. ASSUME NEW r \in Runs, BeginApproval(u, r)
      PROVE  Invariants
  <2>1. txn'[u] = [at |-> "approving", run |-> r] /\ OthersStand(u)
    BY <1>3, StepFields DEF BeginApproval, OthersStand
  <2>2. Gains(u) /\ Stands(u)'
    BY <1>3, <2>1
       DEF BeginApproval, Gains, Stands, HoldsAudit, HoldsRow, SharesPeriod, LocksPeriod,
           ApplySteps, runVars
  <2> QED
    BY <1>3, <2>1, <2>2, Settles DEF BeginApproval, Reads
<1>4. CASE TransitionApproved(u)
  <2>1. /\ txn[u].at = "approving" /\ txn'[u].at = "approved" /\ txn'[u].run = txn[u].run
        /\ OthersStand(u)
    BY <1>4, AdvanceFields DEF TransitionApproved, OthersStand
  <2>2. Stands(u)
    BY DEF ReadsStand
  <2>3. Gains(u) /\ Stands(u)'
    BY <1>4, <2>1, <2>2
       DEF TransitionApproved, Gains, Stands, HoldsAudit, HoldsRow, SharesPeriod, LocksPeriod,
           ApplySteps, runVars
  <2> QED
    BY <1>4, <2>1, <2>3, Settles DEF TransitionApproved, Reads
<1>5. CASE approveRun(u)
  <2>1. Gains(u) /\ OthersStand(u) /\ Stands(u)'
    BY <1>5, Ends DEF approveRun, Commit
  <2>2. ASSUME NEW v \in Users \ {u} PROVE Stands(v)'
    <3>1. ~HoldsAudit(v)
      BY <1>5 DEF approveRun, Commit, AuditFree
    <3>2. ASSUME NEW r \in Runs, HoldsRow(v, r) PROVE state'[r] = state[r]
      <4>1. txn[u].run \in Runs /\ HoldsRow(u, txn[u].run)
        BY <1>5, TxnFields DEF approveRun, HoldsRow
      <4>2. r # txn[u].run
        BY <3>2, <4>1 DEF RowsExclude
      <4>3. r \notin Siblings(txn[u].run)
        BY <1>5, <3>2 DEF approveRun, RowFree
      <4> QED
        BY <1>5, <4>2, <4>3 DEF approveRun
    <3> QED
      BY <1>5, <2>1, <3>1, <3>2, StandsKept DEF approveRun, worldVars, ReadsStand
  <2> QED
    BY <2>1, <2>2, LocksExclude DEF ReadsStand, Invariants
<1>6. CASE BeginArchive(u)
  <2>1. /\ txn'[u] = [at |-> "archiving", rows |-> {},
                      todo |-> {r \in Runs : state[r] \in Settled}]
        /\ OthersStand(u)
    BY <1>6, StepFields DEF BeginArchive, OthersStand
  <2>2. Gains(u) /\ Stands(u)'
    BY <2>1
       DEF Gains, Stands, HoldsAudit, HoldsRow, SharesPeriod, LocksPeriod, ApplySteps
  <2> QED
    BY <1>6, <2>1, <2>2, Settles DEF BeginArchive, Reads
<1>7. ASSUME NEW r \in Runs, LockSettled(u, r)
      PROVE  Invariants
  <2>1. txn[u] \in [at : {"archiving"}, todo : SUBSET Runs, rows : SUBSET Runs]
    BY <1>7, TxnFields DEF LockSettled, Txns, Idle, ApplySteps
  <2>2. /\ txn'[u].at = "archiving"
        /\ txn'[u].rows = IF state[r] \in Settled THEN txn[u].rows \union {r} ELSE txn[u].rows
        /\ OthersStand(u)
    BY <1>7, <2>1 DEF LockSettled, OthersStand, TypeOK
  <2>3. Stands(u)
    BY DEF ReadsStand
  <2>4. Gains(u)
    BY <1>7, <2>1, <2>2
       DEF LockSettled, Gains, HoldsAudit, HoldsRow, SharesPeriod, LocksPeriod, ApplySteps
  <2>5. Stands(u)'
    BY <1>7, <2>1, <2>2, <2>3 DEF LockSettled, Stands, ApplySteps, runVars
  <2> QED
    BY <1>7, <2>2, <2>4, <2>5, Settles DEF LockSettled, Reads
<1>8. CASE archiveSettledRuns(u)
  <2>1. Gains(u) /\ OthersStand(u) /\ Stands(u)'
    BY <1>8, Ends DEF archiveSettledRuns, Commit
  <2>2. ASSUME NEW v \in Users \ {u} PROVE Stands(v)'
    <3>1. ~HoldsAudit(v)
      BY <1>8 DEF archiveSettledRuns, Commit, AuditFree
    <3>2. ASSUME NEW r \in Runs, HoldsRow(v, r) PROVE state'[r] = state[r]
      <4>1. r \notin txn[u].rows
        BY <1>8, <3>2 DEF archiveSettledRuns, RowsExclude, HoldsRow
      <4> QED
        BY <1>8, <4>1 DEF archiveSettledRuns
    <3> QED
      BY <1>8, <2>1, <3>1, <3>2, StandsKept DEF archiveSettledRuns, worldVars, ReadsStand
  <2> QED
    BY <2>1, <2>2, LocksExclude DEF ReadsStand, Invariants
<1> QED
  BY <1>1, <1>2, <1>3, <1>4, <1>5, <1>6, <1>7, <1>8 DEF Deciders

LEMMA AppliersKeep ==
  ASSUME SelectionInv, NEW u \in Users, Appliers(u)
  PROVE  Invariants
<1> USE DEF SelectionInv
<1>0. Stands(u)
  BY DEF ReadsStand
<1>1. ASSUME NEW r \in Runs, BeginApply(u, r)
      PROVE  Invariants
  <2>1. txn'[u] = [at |-> "applying", run |-> r, seen |-> source] /\ OthersStand(u)
    BY <1>1, StepFields DEF BeginApply, OthersStand
  <2>2. Gains(u) /\ Stands(u)'
    BY <1>1, <2>1
       DEF BeginApply, Gains, Stands, HoldsAudit, HoldsRow, SharesPeriod, LocksPeriod,
           ApplySteps, runVars
  <2> QED
    BY <1>1, <2>1, <2>2, Settles DEF BeginApply, Reads
<1>2. ASSUME NEW from \in ApplySteps, NEW to \in ApplySteps,
             txn[u].at = from, Advance(u, to), Reads,
             to \in {"ordered", "fresh", "unmoved", "drafted"} => HoldsAudit(u) \/ AuditFree(u),
             SharesPeriod(u) \/ CanShare(u),
             to \in {"fresh", "unmoved", "drafted"} => posed[txn[u].run] = inputs,
             to \in {"unmoved", "drafted"} => source = txn[u].seen,
             to = "drafted" => status # "closed"
      PROVE  Invariants
  <2>1. /\ txn'[u].at = to /\ txn'[u].run = txn[u].run /\ txn'[u].seen = txn[u].seen
        /\ OthersStand(u)
    BY <1>2, AdvanceFields DEF OthersStand, ApplySteps
  <2>2. Gains(u)
    BY <1>2, <2>1
       DEF Gains, HoldsAudit, HoldsRow, SharesPeriod, LocksPeriod, ApplySteps
  <2>3. Stands(u)'
    BY <1>0, <1>2, <2>1 DEF Stands, ApplySteps, Reads, runVars, worldVars
  <2> QED
    BY <1>2, <2>1, <2>2, <2>3, Settles
<1>3. CASE lockPeriodBeforeAudit(u)
  BY <1>3, <1>2 DEF lockPeriodBeforeAudit, Reads, ApplySteps
<1>4. CASE lockAuditOrdering(u)
  BY <1>4, <1>2 DEF lockAuditOrdering, Reads, ApplySteps, SharesPeriod
<1>5. CASE buildStaleness(u)
  BY <1>5, <1>2 DEF buildStaleness, Reads, ApplySteps, SharesPeriod, HoldsAudit
<1>6. CASE CompareDigest(u)
  BY <1>0, <1>6, <1>2
     DEF CompareDigest, SourceUnmoved, Stands, Reads, ApplySteps, SharesPeriod, HoldsAudit
<1>7. CASE createDraftVersion(u)
  BY <1>0, <1>7, <1>2
     DEF createDraftVersion, Stands, Reads, ApplySteps, SharesPeriod, HoldsAudit
<1>8. CASE applyCandidateToNewDraft(u)
  <2>1. Gains(u) /\ OthersStand(u) /\ Stands(u)'
    BY <1>8, Ends DEF applyCandidateToNewDraft, Commit
  <2>2. ASSUME NEW v \in Users \ {u} PROVE Stands(v)'
    <3>1. ~HoldsAudit(v)
      BY <1>8 DEF applyCandidateToNewDraft, Commit, AuditFree
    <3>2. ASSUME NEW r \in Runs, HoldsRow(v, r) PROVE state'[r] = state[r]
      <4>1. r # txn[u].run
        BY <1>8, <3>2 DEF applyCandidateToNewDraft, RowsExclude, HoldsRow, ApplySteps
      <4> QED
        BY <1>8, <4>1 DEF applyCandidateToNewDraft, TypeOK
    <3> QED
      BY <1>8, <2>1, <3>1, <3>2, StandsKept DEF applyCandidateToNewDraft, worldVars, ReadsStand
  <2> QED
    BY <2>1, <2>2, LocksExclude DEF ReadsStand, Invariants
<1> QED
  BY <1>1, <1>3, <1>4, <1>5, <1>6, <1>7, <1>8 DEF Appliers

LEMMA InvStep ==
  ASSUME SelectionInv, [Next]_vars
  PROVE  SelectionInv'
<1>1. TypeOK'
  BY TypeStep DEF SelectionInv
<1>2. CASE UNCHANGED vars
  BY <1>2, <1>1
     DEF SelectionInv, vars, runVars, worldVars, OneAuditor, RowsExclude, PeriodExcludes,
         ReadsStand, Stands, HoldsAudit, HoldsRow, SharesPeriod, LocksPeriod
<1>3. ASSUME NEW u \in Users, Rollback(u)
      PROVE  Invariants
  BY <1>3, Ends, Settles DEF Rollback, Reads, SelectionInv
<1>4. CASE Next
  BY <1>1, <1>3, <1>4, MoversKeep, DecidersKeep, AppliersKeep DEF Next, Invariants, SelectionInv
<1> QED
  BY <1>2, <1>4

LEMMA InvInit == Init => SelectionInv
<1>1. ASSUME Init
      PROVE  OneAuditor /\ RowsExclude /\ PeriodExcludes /\ ReadsStand
  BY <1>1 DEF Init, OneAuditor, RowsExclude, PeriodExcludes, ReadsStand, Stands, HoldsAudit,
              HoldsRow, SharesPeriod, LocksPeriod, ApplySteps, Idle
<1> QED
  BY <1>1, InitTyped DEF SelectionInv

THEOREM SelectionInvariant == Spec => []SelectionInv
BY InvInit, InvStep, PTL DEF Spec

\* Whoever has the audit lock waits for nobody, an approval excepted: an
\* apply that has it shares the period's row already.
LEMMA HoldersGoOn ==
  ASSUME SelectionInv, NEW u \in Users, NEW v \in Users, HoldsAudit(u), WaitsFor(u, v)
  PROVE  txn[u].at = "approved"
BY DEF HoldsAudit, WaitsFor, WaitsForRow, WaitsForAudit, SelectionInv, PeriodExcludes,
       SharesPeriod, ApplySteps

\* When transactions wait for each other, one is an approval that has the
\* audit lock and wants its siblings' rows, or two are archives
\* (CandidateSelection.OnlyRowsDeadlock).  Without such an approval nobody
\* among them has the audit lock, so nobody waits for it, so nobody is about
\* to let go of the period: what is left is archives waiting for rows.
THEOREM DeadlocksAreOfRows == Spec => []OnlyRowsDeadlock
<1>1. SelectionInv => OnlyRowsDeadlock
  <2> SUFFICES ASSUME SelectionInv, NEW S \in SUBSET Users, Deadlocked(S),
                      \A u \in S : txn[u].at # "approved"
               PROVE  \E u, v \in S : /\ u # v
                                      /\ txn[u].at = "archiving" /\ txn[v].at = "archiving"
    BY DEF OnlyRowsDeadlock
  <2>1. \A u \in S : \E v \in S \ {u} : WaitsFor(u, v)
    BY DEF Deadlocked
  <2>2. \A u \in S : ~HoldsAudit(u)
    BY <2>1, HoldersGoOn
  <2>3. \A u \in S : ~LocksPeriod(u)
    BY <2>1, <2>2 DEF WaitsFor, WaitsForRow, LocksPeriod
  <2>4. \A u \in S : txn[u].at = "archiving"
    BY <2>1, <2>2, <2>3 DEF WaitsFor, WaitsForRow
  <2>5. PICK u \in S : TRUE
    BY DEF Deadlocked
  <2>6. PICK v \in S \ {u} : WaitsFor(u, v)
    BY <2>1, <2>5
  <2> QED
    BY <2>4, <2>5, <2>6
<1> QED
  BY <1>1, SelectionInvariant, PTL
-----------------------------------------------------------------------------
(* The refinement.                                                          *)

Decided == Decisions!DecisionsNext \/ UNCHANGED Decisions!decisionVars

LEMMA MoversDecide ==
  ASSUME SelectionInv, NEW u \in Users, Movers(u)
  PROVE  Decided
<1> USE DEF SelectionInv, Decisions!decisionVars, runVars, worldVars
<1>1. ASSUME NEW moves \in SUBSET {"inputs", "source"}, BeginEdit(u, moves)
      PROVE  Decided
  BY <1>1 DEF BeginEdit, Decided
<1>2. ASSUME NEW to \in Statuses, BeginAdminister(u, to)
      PROVE  Decided
  BY <1>2 DEF BeginAdminister, Decided
<1>3. CASE CommitEdit(u)
  <2>1. Decisions!Edit
    BY <1>3 DEF CommitEdit, Decisions!Edit
  <2> QED
    BY <2>1 DEF Decided, Decisions!DecisionsNext
<1>4. CASE transitionPeriodStatus(u)
  <2>1. txn[u].to \in Statuses
    BY <1>4, TxnFields DEF transitionPeriodStatus
  <2>2. Decisions!Administer(txn[u].to)
    BY <1>4 DEF transitionPeriodStatus, Decisions!Administer
  <2> QED
    BY <2>1, <2>2 DEF Decided, Decisions!DecisionsNext, Statuses
<1> QED
  BY <1>1, <1>2, <1>3, <1>4 DEF Movers

LEMMA DecidersDecide ==
  ASSUME SelectionInv, NEW u \in Users, Deciders(u)
  PROVE  Decided
<1> USE DEF SelectionInv, Decisions!decisionVars, runVars, worldVars
<1>1. ASSUME NEW r \in Runs, NEW revision \in 0 .. inputs, settleRun(u, r, revision)
      PROVE  Decided
  <2>1. Decisions!Complete(r, revision)
    BY <1>1 DEF settleRun, Decisions!Complete
  <2> QED
    BY <2>1 DEF Decided, Decisions!DecisionsNext
<1>2. ASSUME NEW r \in Runs, NEW to \in {"reviewed", "progressively_extended"}, Mark(u, r, to)
      PROVE  Decided
  <2>1. Decisions!Review(r, to)
    BY <1>2 DEF Mark, Decisions!Review, Decisions!LegalTransitions, LegalTransitions,
                Decisions!CompletedFamily, CompletedFamily, Decisions!Settled, Settled
  <2>2. to \in Decisions!BuildStates
    BY DEF Decisions!BuildStates, Decisions!InFlight, Decisions!Settled,
           Decisions!CompletedFamily
  <2> QED
    BY <2>1, <2>2 DEF Decided, Decisions!DecisionsNext
<1>3. ASSUME NEW r \in Runs, BeginApproval(u, r)
      PROVE  Decided
  BY <1>3 DEF BeginApproval, Decided
<1>4. CASE TransitionApproved(u)
  BY <1>4 DEF TransitionApproved, Decided
<1>5. CASE approveRun(u)
  <2>1. txn[u].run \in Runs /\ state[txn[u].run] = "reviewed"
    BY <1>5, TxnFields DEF approveRun, ReadsStand, Stands
  <2>2. <<"reviewed", "approved">> \in Decisions!LegalTransitions
    BY DEF Decisions!LegalTransitions
  <2>3. Decisions!Approve(txn[u].run)
    BY <1>5, <2>1, <2>2
       DEF approveRun, Siblings, Retired, Decisions!Approve, Decisions!CompletedFamily,
           CompletedFamily
  <2> QED
    BY <2>1, <2>3 DEF Decided, Decisions!DecisionsNext
<1>6. CASE BeginArchive(u)
  BY <1>6 DEF BeginArchive, Decided
<1>7. ASSUME NEW r \in Runs, LockSettled(u, r)
      PROVE  Decided
  BY <1>7 DEF LockSettled, Decided
<1>8. CASE archiveSettledRuns(u)
  <2>1. txn[u].rows \subseteq Runs /\ \A r \in txn[u].rows : state[r] \in Settled
    BY <1>8, TxnFields DEF archiveSettledRuns, ReadsStand, Stands
  <2>2. Decisions!Archive(txn[u].rows)
    BY <1>8, <2>1
       DEF archiveSettledRuns, Decisions!Archive, Decisions!Settled, Settled,
           Decisions!CompletedFamily, CompletedFamily
  <2> QED
    BY <2>1, <2>2 DEF Decided, Decisions!DecisionsNext
<1> QED
  BY <1>1, <1>2, <1>3, <1>4, <1>5, <1>6, <1>7, <1>8 DEF Deciders

LEMMA AppliersDecide ==
  ASSUME SelectionInv, NEW u \in Users, Appliers(u)
  PROVE  Decided
<1> USE DEF SelectionInv, Decisions!decisionVars, runVars, worldVars
<1>1. ASSUME NEW r \in Runs, BeginApply(u, r)
      PROVE  Decided
  BY <1>1 DEF BeginApply, Decided
<1>2. CASE lockPeriodBeforeAudit(u) \/ lockAuditOrdering(u) \/ buildStaleness(u)
             \/ CompareDigest(u) \/ createDraftVersion(u)
  BY <1>2 DEF lockPeriodBeforeAudit, lockAuditOrdering, buildStaleness, CompareDigest,
              createDraftVersion, Decided
<1>3. CASE applyCandidateToNewDraft(u)
  <2>1. /\ txn[u].run \in Runs
        /\ state[txn[u].run] = "approved" /\ posed[txn[u].run] = inputs
        /\ source = txn[u].seen /\ status # "closed"
    BY <1>3, TxnFields DEF applyCandidateToNewDraft, ReadsStand, Stands, ApplySteps
  <2>2. Decisions!Apply(txn[u].run)
    BY <1>3, <2>1 DEF applyCandidateToNewDraft, Decisions!Apply
  <2> QED
    BY <2>1, <2>2 DEF Decided, Decisions!DecisionsNext
<1> QED
  BY <1>1, <1>2, <1>3 DEF Appliers

\* The transactions implement decisions of one step each
\* (CandidateSelection.DecidesInOneStep, the promise of selection.ts): what
\* an apply checked still holds when it commits.
THEOREM SelectionImplementsDecisions == Spec => DecidesInOneStep
<1>1. Init => Decisions!DecisionsInit
  BY DEF Init, Decisions!DecisionsInit
<1>2. SelectionInv /\ [Next]_vars => [Decisions!DecisionsNext]_Decisions!decisionVars
  <2> SUFFICES ASSUME SelectionInv, [Next]_vars
               PROVE  Decided
    BY DEF Decided
  <2>1. CASE UNCHANGED vars
    BY <2>1 DEF vars, runVars, worldVars, Decided, Decisions!decisionVars
  <2>2. ASSUME NEW u \in Users, Rollback(u)
        PROVE  Decided
    BY <2>2 DEF Rollback, runVars, worldVars, Decided, Decisions!decisionVars
  <2> QED
    BY <2>1, <2>2, MoversDecide, DecidersDecide, AppliersDecide DEF Next
<1> QED
  BY <1>1, <1>2, SelectionInvariant, PTL DEF Spec, DecidesInOneStep, Decisions!DecisionsSpec
=============================================================================
