---------------------------- MODULE Publication ----------------------------
(***************************************************************************)
(* Schedule versions from draft to superseded, and the transaction that    *)
(* publishes one (apps/api/src/schedule/service.ts and publication.ts,     *)
(* with the triggers and constraints of migrations 0009, 0014 and 0015).   *)
(*                                                                         *)
(* Every operation is one READ COMMITTED transaction of a user: the action *)
(* that begins it reads, later ones write or commit, and between them the  *)
(* other users move.  The variables are the committed rows; txn is what an *)
(* open transaction has read, written and locked.                          *)
(*                                                                         *)
(* An assignment is the person it assigns, and every two assignments       *)
(* overlap in time: that is what D-1a and D-1b are about.                  *)
(***************************************************************************)
EXTENDS Naturals, Sequences, FiniteSets

CONSTANTS
  Users,
  Periods,
  Versions,      \* ids of schedule_versions, used or not
  PeriodOf,      \* the period of each
  Staff,         \* memberships
  Keys,          \* publication idempotency keys
  MaxChanges,    \* bound: assignments added, removed or moved
  MaxFreezes,    \* bound: versions locked and periods moved out of planning
  Administered,  \* bound: the periods either happens in
  Nobody         \* where a removed assignment goes

ASSUME PublicationAssumption ==
  /\ PeriodOf \in [Versions -> Periods]
  /\ Nobody \notin Staff
  /\ Administered \subseteq Periods
  /\ MaxChanges \in Nat /\ MaxFreezes \in Nat
  /\ IsFiniteSet(Versions)

VARIABLES
  \* schedule_versions; none is an id not used yet
  state, isCurrent, locked, number,
  \* active assignment_snapshots of a version; current_published_assignments
  content, reality,
  \* schedule_periods.status, publication_records in order of commitment
  status, records,
  txn,
  changes, freezes,
  raced    \* ghost: published while a change of an assignment was open

versionVars == <<state, isCurrent, locked, number>>
periodVars  == <<status, records>>
boundVars   == <<changes, freezes>>
vars == <<versionVars, content, reality, periodVars, txn, boundVars, raced>>

States   == {"none", "draft", "in_review", "approved", "publishing", "published",
             "superseded", "cancelled"}
Moves    == {"draft", "in_review", "approved", "cancelled"}
Statuses == {"planning", "published", "closed"}

\* Mutant: publishing can be reached by a transition.
MutantLegalTransitions(s) == IF s = "approved" THEN {"publishing"} ELSE
  IF s = "draft" THEN {"in_review"} ELSE IF s = "in_review" THEN {"approved"} ELSE {}

LegalTransitions(s) ==
  CASE s = "draft"     -> {"in_review", "cancelled"}
    [] s = "in_review" -> {"draft", "approved", "cancelled"}
    [] s = "approved"  -> {"draft", "cancelled"}
    [] OTHER           -> {}

LegalPeriodTransitions(s) ==
  CASE s = "planning"  -> {"published", "closed"}
    [] s = "published" -> {"closed"}
    [] s = "closed"    -> {"planning"}

Idle == [at |-> "idle"]

\* awaited is a ghost: the record was the next one when its client looked.
Row == [version : Versions, prior : SUBSET Versions, number : Nat, key : Keys,
        awaited : BOOLEAN]

Txns ==
  {Idle}
    \union [at : {"creating"}, version : Versions, source : SUBSET Versions]
    \union [at : {"editing"}, version : Versions]
    \union [at : {"added"}, version : Versions, in : Staff]
    \union [at : {"changed"}, version : Versions, out : Staff,
            in : Staff \union {Nobody}]
    \union [at : {"moving"}, version : Versions, to : Moves]
    \union [at : {"requesting", "publishing"}, version : Versions, key : Keys,
            seen : SUBSET Versions, line : Nat]

TypeOK ==
  /\ state \in [Versions -> States \ {"publishing"}]
  /\ isCurrent \subseteq Versions
  /\ locked \subseteq Versions
  /\ number \in [Versions -> Nat]
  /\ content \in [Versions -> SUBSET Staff]
  /\ reality \subseteq Versions \X Staff
  /\ status \in [Periods -> Statuses]
  /\ records \in [Periods -> Seq(Row)]
  /\ txn \in [Users -> Txns]
  /\ changes \in 0 .. MaxChanges
  /\ freezes \in 0 .. MaxFreezes
  /\ raced \subseteq Versions

Init ==
  /\ state = [v \in Versions |-> "none"]
  /\ isCurrent = {} /\ locked = {} /\ raced = {}
  /\ number = [v \in Versions |-> 0]
  /\ content = [v \in Versions |-> {}]
  /\ reality = {}
  /\ status = [p \in Periods |-> "planning"]
  /\ records = [p \in Periods |-> <<>>]
  /\ txn = [u \in Users |-> Idle]
  /\ changes = 0 /\ freezes = 0
-----------------------------------------------------------------------------
Frozen(v) == state[v] \in {"published", "superseded"}

Of(p) == {v \in Versions : PeriodOf[v] = p}

Current(p) == Of(p) \intersect isCurrent

\* Holders of a period's row: FOR UPDATE, and KEY SHARE of a foreign key.
Holders(p, steps) == {u \in Users : txn[u].at \in steps /\ PeriodOf[txn[u].version] = p}
CanShare(p) == Holders(p, {"publishing"}) = {}
\* Mutant: FOR NO KEY UPDATE instead of FOR UPDATE on the period's row.
MutantCanLock(p) == Holders(p, {"publishing"}) = {}
CanLock(p)  == Holders(p, {"publishing", "added"}) = {}

\* People whose rows in v an open transaction has written.
Writing(v) ==
  UNION {CASE txn[u].at = "added"   -> {txn[u].in}
           [] txn[u].at = "changed" -> {txn[u].in, txn[u].out}
           [] OTHER -> {} : u \in {w \in Users : txn[w] # Idle /\ txn[w].version = v}}

Step(u, t) == txn' = [txn EXCEPT ![u] = t]
Commit(u)  == Step(u, Idle)

\* Any failure rolls a transaction back: a refusal of one of its own checks,
\* of a constraint or a trigger, a deadlock, a lost connection.
Rollback(u) ==
  /\ txn[u] # Idle
  /\ Commit(u)
  /\ UNCHANGED <<versionVars, content, reality, periodVars, boundVars, raced>>
-----------------------------------------------------------------------------
(* Drafts.  The trigger that refuses a closed period reads before the       *)
(* foreign key waits for the period's row.                                  *)

BeginDraft(u, v, source) ==
  /\ txn[u] = Idle
  /\ state[v] = "none"
  /\ \A w \in Users : txn[w].at = "creating" => txn[w].version # v
  /\ source \subseteq {w \in Of(PeriodOf[v]) : state[w] # "none"}
  /\ Cardinality(source) <= 1
  /\ status[PeriodOf[v]] # "closed"
  /\ Step(u, [at |-> "creating", version |-> v, source |-> source])
  /\ UNCHANGED <<versionVars, content, reality, periodVars, boundVars, raced>>

\* createDraftVersion with no source, cloneVersion with one.
CommitDraft(u) ==
  /\ txn[u].at = "creating"
  /\ LET v == txn[u].version IN
       /\ CanShare(PeriodOf[v])
       /\ state' = [state EXCEPT ![v] = "draft"]
       /\ content' = [content EXCEPT ![v] = UNION {content[w] : w \in txn[u].source}]
  /\ Commit(u)
  /\ UNCHANGED <<isCurrent, locked, number, reality, periodVars, boundVars, raced>>

Freeze(p) == p \in Administered /\ freezes < MaxFreezes /\ freezes' = freezes + 1

setLockState(v) ==
  /\ state[v] # "none" /\ ~Frozen(v)
  /\ \/ v \in locked /\ locked' = locked \ {v} /\ UNCHANGED freezes
     \/ v \notin locked /\ locked' = locked \union {v} /\ Freeze(PeriodOf[v])
  /\ UNCHANGED <<state, isCurrent, number, content, reality, periodVars, txn,
                 changes, raced>>
-----------------------------------------------------------------------------
(* Editing.  assertEditable reads the version; the trigger on the           *)
(* assignments reads its committed state again as the row is written.       *)

BeginEdit(u, v) ==
  /\ txn[u] = Idle
  /\ state[v] = "draft" /\ v \notin locked
  /\ Step(u, [at |-> "editing", version |-> v])
  /\ UNCHANGED <<versionVars, content, reality, periodVars, boundVars, raced>>

\* addManualAssignment: the identity it inserts first shares the period's row.
InsertAssignment(u, m) ==
  /\ txn[u].at = "editing" /\ changes < MaxChanges
  /\ LET v == txn[u].version IN
       /\ CanShare(PeriodOf[v])
       /\ ~Frozen(v)
       /\ m \notin content[v] \union Writing(v)
       /\ Step(u, [at |-> "added", version |-> v, in |-> m])
  /\ changes' = changes + 1
  /\ UNCHANGED <<versionVars, content, reality, periodVars, freezes, raced>>

CommitInsert(u) ==
  /\ txn[u].at = "added"
  /\ content' = [content EXCEPT ![txn[u].version] = @ \union {txn[u].in}]
  /\ Commit(u)
  /\ UNCHANGED <<versionVars, reality, periodVars, boundVars, raced>>

\* removeAssignment and reassignAssignment rewrite the row they find; the
\* update touches no key, so it takes no lock outside the row.
UpdateAssignment(u, m, to) ==
  /\ txn[u].at = "editing" /\ changes < MaxChanges
  /\ LET v == txn[u].version IN
       /\ ~Frozen(v)
       /\ m \in content[v] \ Writing(v)
       /\ to \notin content[v] \union (Writing(v) \ {Nobody})
       /\ Step(u, [at |-> "changed", version |-> v, out |-> m, in |-> to])
  /\ changes' = changes + 1
  /\ UNCHANGED <<versionVars, content, reality, periodVars, freezes, raced>>

CommitUpdate(u) ==
  /\ txn[u].at = "changed"
  /\ content' = [content EXCEPT ![txn[u].version] =
                   (@ \ {txn[u].out}) \union ({txn[u].in} \ {Nobody})]
  /\ Commit(u)
  /\ UNCHANGED <<versionVars, reality, periodVars, boundVars, raced>>
-----------------------------------------------------------------------------
(* transitionVersion reads the state it leaves and updates by id; only the  *)
(* trigger on frozen versions looks again.                                  *)

BeginTransition(u, v, to) ==
  /\ txn[u] = Idle
  /\ to \in LegalTransitions(state[v])
  /\ Step(u, [at |-> "moving", version |-> v, to |-> to])
  /\ UNCHANGED <<versionVars, content, reality, periodVars, boundVars, raced>>

\* Mutant: there is no trigger on frozen versions.
MutantTransitionAllowed(v) == TRUE
TransitionAllowed(v) == ~Frozen(v)

CommitTransition(u) ==
  /\ txn[u].at = "moving"
  /\ TransitionAllowed(txn[u].version)
  /\ state' = [state EXCEPT ![txn[u].version] = txn[u].to]
  /\ Commit(u)
  /\ UNCHANGED <<isCurrent, locked, number, content, reality, periodVars,
                 boundVars, raced>>

transitionPeriodStatus(p, to) ==
  /\ CanLock(p)
  /\ to \in LegalPeriodTransitions(status[p])
  /\ IF status[p] = "planning" THEN Freeze(p) ELSE UNCHANGED freezes
  /\ status' = [status EXCEPT ![p] = to]
  /\ UNCHANGED <<versionVars, content, reality, records, txn, changes, raced>>
-----------------------------------------------------------------------------
(* Publication and revert: the same transaction over a draft or a clone.    *)

\* A client that is shown an approved version looks at the period and names
\* the version it means to replace.
Request(u, v, k) ==
  /\ txn[u] = Idle
  /\ state[v] = "approved"
  /\ LET p == PeriodOf[v] IN
       Step(u, [at |-> "requesting", version |-> v, key |-> k,
                seen |-> Current(p), line |-> Len(records[p])])
  /\ UNCHANGED <<versionVars, content, reality, periodVars, boundVars, raced>>

\* Mutant: the key is searched for before the lock, when it is not there yet.
MutantKeyUnused(p, k) == TRUE
KeyUnused(p, k) == \A i \in DOMAIN records[p] : records[p][i].key # k

\* The period's row is locked, the records are searched for the key and the
\* version's state is read.  A key on record is a replay or a refusal: either
\* way nothing is written.
BeginPublish(u) ==
  /\ txn[u].at = "requesting"
  /\ CanLock(PeriodOf[txn[u].version])
  /\ KeyUnused(PeriodOf[txn[u].version], txn[u].key)
  /\ state[txn[u].version] = "approved"
  /\ txn' = [txn EXCEPT ![u].at = "publishing"]
  /\ UNCHANGED <<versionVars, content, reality, periodVars, boundVars, raced>>

\* Mutant: the highest number is searched without the period.
MutantNextNumber(p) ==
  1 + (CHOOSE n \in {number[v] : v \in Versions} : \A v \in Versions : number[v] <= n)
NextNumber(p) ==
  1 + (CHOOSE n \in {number[v] : v \in Of(p)} : \A v \in Of(p) : number[v] <= n)

\* Mutant: the expected prior version is optional.
MutantPriorExpected(u) == txn[u].seen = {} \/ txn[u].seen = Current(PeriodOf[txn[u].version])
PriorExpected(u) == txn[u].seen = Current(PeriodOf[txn[u].version])

\* Mutant: the constraint names the period, and compares it with itself only.
MutantBooksNobodyTwice(v) ==
  \A r \in reality : r[1] \in Of(PeriodOf[v]) \ Current(PeriodOf[v]) => r[2] \notin content[v]

\* D-1b, the exclusion constraint over the rows of every period.
BooksNobodyTwice(v) ==
  \A r \in reality : r[1] \notin Current(PeriodOf[v]) => r[2] \notin content[v]

\* Mutant: the superseded version's rows are not pruned.
MutantRowsAfter(v) == reality \union ({v} \X content[v])

RowsAfter(v) ==
  {r \in reality : r[1] \notin Current(PeriodOf[v])} \union ({v} \X content[v])

\* The update to publishing takes the version's row, so no transition comes
\* between it and the commit.  The state read before is not read again.
CommitPublish(u) ==
  /\ txn[u].at = "publishing"
  /\ LET v == txn[u].version
         p == PeriodOf[v]
         prior == Current(p)
     IN
       /\ PriorExpected(u)
       /\ status[p] # "closed"
       /\ v \notin locked
       /\ BooksNobodyTwice(v)
       /\ isCurrent' = (isCurrent \ prior) \union {v}
       /\ state' = [w \in Versions |-> IF w = v THEN "published"
                                     ELSE IF w \in prior THEN "superseded"
                                     ELSE state[w]]
       /\ number' = [number EXCEPT ![v] = NextNumber(p)]
       /\ reality' = RowsAfter(v)
       /\ records' = [records EXCEPT ![p] = Append(@,
            [version |-> v, prior |-> prior, number |-> NextNumber(p),
             key |-> txn[u].key, awaited |-> txn[u].line = Len(@)])]
       /\ raced' = IF \E w \in Users : txn[w].at = "changed" /\ txn[w].version = v
                   THEN raced \union {v} ELSE raced
  /\ Commit(u)
  /\ UNCHANGED <<locked, content, status, boundVars>>
-----------------------------------------------------------------------------
Draft(u) == \E v \in Versions :
  \/ \E source \in SUBSET Versions : BeginDraft(u, v, source)
  \/ BeginEdit(u, v)
  \/ \E to \in States : BeginTransition(u, v, to)
  \/ \E k \in Keys : Request(u, v, k)

Write(u) ==
  \/ CommitDraft(u)
  \/ \E m \in Staff : InsertAssignment(u, m)
  \/ CommitInsert(u)
  \/ \E m \in Staff, to \in Staff \union {Nobody} : UpdateAssignment(u, m, to)
  \/ CommitUpdate(u)
  \/ CommitTransition(u)
  \/ BeginPublish(u)
  \/ CommitPublish(u)
  \/ Rollback(u)

Administer ==
  \/ \E v \in Versions : setLockState(v)
  \/ \E p \in Periods, to \in Statuses : transitionPeriodStatus(p, to)

Next == Administer \/ \E u \in Users : Draft(u) \/ Write(u)

Spec == Init /\ [][Next]_vars
-----------------------------------------------------------------------------
(* Properties.                                                              *)

\* The i-th record of a period has the number i, and so has its version.
Numbered(p) == \A i \in 1 .. Len(records[p]) :
  /\ records[p][i].version \in Of(p)
  /\ records[p][i].number = i
  /\ number[records[p][i].version] = i

\* Each record replaced the version of the one before, or none.
Linked(p) == \A i \in 1 .. Len(records[p]) :
  records[p][i].prior = IF i = 1 THEN {} ELSE {records[p][i - 1].version}

\* The last version recorded is published and current, the others superseded.
LastIsCurrent(p) ==
  /\ \A i \in 1 .. Len(records[p]) :
       state[records[p][i].version] = IF i = Len(records[p]) THEN "published" ELSE "superseded"
  /\ Current(p) = IF records[p] = <<>> THEN {} ELSE {records[p][Len(records[p])].version}

\* Whatever is published or superseded has its record.
Recorded(p) == \A v \in Of(p) :
  Frozen(v) => \E i \in 1 .. Len(records[p]) : records[p][i].version = v

\* History is a straight line (SPEC-05, publishVersion): the records of a
\* period number its versions 1, 2, 3, ... without a gap, each replaces the
\* one before, the last is the current version and the others are superseded.
\* The unique indexes D-9 and D-16 are not in the model: they are not what
\* makes this so, and no publication runs into them.
HistoryIsALine ==
  \A p \in Periods : Numbered(p) /\ Linked(p) /\ LastIsCurrent(p) /\ Recorded(p)

\* What the staff see is the current versions' assignments (V-15c): the rows
\* of a superseded version are gone and the published one's are all there,
\* unless an assignment of it was being changed as it was published.
RealityMirrorsSchedule ==
  /\ \A r \in reality : r[1] \in isCurrent
  /\ \A v \in isCurrent \ raced : {r[2] : r \in {x \in reality : x[1] = v}} = content[v]

\* Nobody is in two places, whichever periods put them there (D-1b).
NobodyIsBookedTwice == \A r, q \in reality : r[2] = q[2] => r = q

\* A published version is left for superseded only, by a publication that
\* replaces it, and keeps its number: a transition that read it as approved
\* does not take it back (D-15b).
PublishedStands ==
  [][\A v \in Versions : Frozen(v) =>
       /\ number'[v] = number[v]
       /\ state'[v] # state[v] =>
            /\ state[v] = "published" /\ state'[v] = "superseded"
            /\ \E i \in DOMAIN records'[PeriodOf[v]] :
                 v \in records'[PeriodOf[v]][i].prior]_vars

\* No assignment joins a published version, though its insertion was open
\* when the version was about to be published (FAD-22: the set does not grow).
PublishedGainsNobody ==
  [][\A v \in Versions : Frozen(v) /\ v \notin raced => content'[v] = content[v]]_vars

\* A publication replaces the version its client saw as current, with none in
\* between: the loser of a race fails (V-12, CURRENT_VERSION_MOVED).
PublishesOverWhatItSaw ==
  \A p \in Periods : \A i \in DOMAIN records[p] : records[p][i].awaited

\* A key publishes once in a period, however often its request is repeated.
KeyPublishesOnce ==
  \A p \in Periods : \A i, j \in DOMAIN records[p] :
    records[p][i].key = records[p][j].key => i = j

\* A publication is one step of the period's history, although its statements
\* read under a lock, write and commit apart, and drafts, transitions and the
\* publications of other periods go on between them (publishVersion).
History == INSTANCE PublishedHistory WITH line <- records, rows <- reality
PublishesInOneStep == History!HistorySpec

\* Cancelled is an end (SPEC-05 3.1: "cancelled --> [*]"): a cancelled version
\* is not published.  Violated: publishVersion reads approved, a transition
\* cancels, and the update to publishing is by id.
CancelledIsNeverPublished ==
  [][\A v \in Versions : state[v] = "cancelled" => state'[v] # "published"]_vars
=============================================================================
