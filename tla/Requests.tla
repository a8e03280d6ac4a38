------------------------------ MODULE Requests ------------------------------
(***************************************************************************)
(* Requests of one group and the vacation weeks of one round in quota mode *)
(* (apps/api/src/requests): submission, decision, batch, reversal,         *)
(* withdrawal and the expiry sweep of plain requests; selection, approval  *)
(* against a grant, denial, withdrawal, commitment into a draft and        *)
(* reversal of weeks, each of which has a request whose status is derived. *)
(*                                                                         *)
(* An operation is one READ COMMITTED transaction.  One that writes the    *)
(* row it read by compare-and-set, and nothing else that others contend    *)
(* for, is one action.  The others are as many actions as they have        *)
(* statements another transaction can come between; txn is what an open    *)
(* one has read and written and the variables are the committed rows.      *)
(*                                                                         *)
(* No status is ever entered twice, so a compare-and-set on the version of *)
(* a request or selection is one on its status.  A grant's version counts. *)
(***************************************************************************)
EXTENDS Naturals, FiniteSets, RequestStatuses

CONSTANTS
  Users,
  Plain, SubtypeOf,    \* requests that are not of a week, and their subtypes
  Weeks,               \* selections: a member's weeks of the round
  Grants, Entitlement, \* vacation_grants and their units_total
  Keys,                \* approval idempotency keys
  RoundKeys,           \* commit idempotency keys
  Drafts,              \* draft versions that cover the round
  NoGrant, NoDraft, NoKey

ASSUME RequestsAssumption ==
  /\ SubtypeOf \in [Plain -> Subtypes \ Vacation]
  /\ Plain \intersect Weeks = {}
  /\ IsFiniteSet(Weeks)
  /\ Entitlement \in [Grants -> Nat]
  /\ NoGrant \notin Grants /\ NoDraft \notin Drafts /\ NoKey \notin RoundKeys

VARIABLES
  \* requests.status, expires_at in the past, decisions in approvals
  status, overdue, approvals,
  \* vacation_selections: status, grant_id, is_override,
  \* committed_to_version_id, commit_idempotency_key
  selection, grantOf, isOverride, target, commitKey,
  \* vacation_grants: units_consumed, override_units, version
  consumed, override, version,
  \* outcomes in vacation_approval_commands; keys in vacation_commit_commands
  commands, rounds,
  \* drafts with the assignments of a week
  booked,
  txn

requestVars   == <<status, overdue, approvals>>
selectionVars == <<selection, grantOf, isOverride, target, commitKey>>
grantVars     == <<consumed, override, version>>
roundVars     == <<rounds, booked>>
vars == <<requestVars, selectionVars, grantVars, commands, roundVars, txn>>

Requests == Plain \union Weeks

Subtype(r) == IF r \in Weeks THEN "vacation-selection" ELSE SubtypeOf[r]

\* What the code writes; the other statuses of the matrix have no writer.
Statuses == {"none", "submitted", "approved", "denied", "withdrawn", "expired",
             "superseded_by_revision", "reflected_in_version", "reversed"}
Selections == {"available", "pending", "approved", "committed", "denied",
               "withdrawn", "reversed"}
Outcomes == {"approved", "denied"}

Idle == [at |-> "idle"]

Txns ==
  {Idle}
    \union [at : {"denying"}, week : Weeks, key : Keys, as : {"denied"}]
    \union [at : {"approving"}, week : Weeks, key : Keys, as : {"approved"},
            grant : Grants, seen : Nat, spare : BOOLEAN]
    \union [at : {"holding"}, week : Weeks, key : Keys, as : {"approved"},
            grant : Grants, beyond : BOOLEAN]
    \union [at : {"leaving"}, week : Weeks, from : {"pending", "approved"}]
    \union [at : {"left"}, week : Weeks, grant : Grants \union {NoGrant}, seen : Nat]
    \union [at : {"asking"}, key : RoundKeys]
    \union [at : {"round", "booking"}, key : RoundKeys, draft : Drafts,
            todo : SUBSET Weeks, done : SUBSET Weeks]
    \union [at : {"reversing"}, week : Weeks, seen : Nat]
    \union [at : {"released"}, week : Weeks]
    \union [at : {"batch"}, as : Outcomes, todo : SUBSET Plain, done : SUBSET Plain]
    \union [at : {"sweeping"}, claimed : SUBSET Requests]

Logs == {<<>>, <<"approved">>, <<"denied">>, <<"approved", "reversed">>}

TypeOK ==
  /\ status \in [Requests -> Statuses]
  /\ overdue \subseteq Requests
  /\ approvals \in [Requests -> Logs]
  /\ selection \in [Weeks -> Selections]
  /\ grantOf \in [Weeks -> Grants \union {NoGrant}]
  /\ isOverride \subseteq Weeks
  /\ target \in [Weeks -> Drafts \union {NoDraft}]
  /\ commitKey \in [Weeks -> RoundKeys \union {NoKey}]
  /\ consumed \in [Grants -> Nat]
  /\ override \in [Grants -> Nat]
  /\ version \in [Grants -> Nat]
  /\ commands \in [Weeks -> [Keys -> Outcomes \union {"none"}]]
  /\ rounds \subseteq RoundKeys
  /\ booked \in [Weeks -> SUBSET Drafts]
  /\ txn \in [Users -> Txns]

Init ==
  /\ status = [r \in Requests |-> "none"] /\ overdue = {}
  /\ approvals = [r \in Requests |-> <<>>]
  /\ selection = [w \in Weeks |-> "available"]
  /\ grantOf = [w \in Weeks |-> NoGrant] /\ isOverride = {}
  /\ target = [w \in Weeks |-> NoDraft] /\ commitKey = [w \in Weeks |-> NoKey]
  /\ consumed = [g \in Grants |-> 0]
  /\ override = [g \in Grants |-> 0]
  /\ version = [g \in Grants |-> 1]
  /\ commands = [w \in Weeks |-> [k \in Keys |-> "none"]]
  /\ rounds = {} /\ booked = [w \in Weeks |-> {}]
  /\ txn = [u \in Users |-> Idle]
-----------------------------------------------------------------------------
(* Locks, held from the statement that takes them to the end.              *)

\* The rows a transaction has locked: a selection with its request, or a
\* request alone.
Rows(u) ==
  CASE txn[u].at = "left"             -> {txn[u].week}
    [] txn[u].at \in {"booking", "batch"} -> txn[u].done
    [] txn[u].at = "sweeping"         -> txn[u].claimed
    [] OTHER                          -> {}

RowFree(u, r) == \A v \in Users \ {u} : r \notin Rows(v)

HoldsGrant(u, g) ==
  \/ txn[u].at = "holding" /\ txn[u].grant = g
  \/ txn[u].at = "released" /\ grantOf[txn[u].week] = g

GrantFree(u, g) == \A v \in Users \ {u} : ~HoldsGrant(v, g)

\* The organization's audit lock, taken by the first audit event.
HoldsAudit(u) == txn[u].at = "booking" \/ (txn[u].at = "batch" /\ txn[u].done # {})

AuditFree(u) == \A v \in Users \ {u} : ~HoldsAudit(v)

Step(u, t) == txn' = [txn EXCEPT ![u] = t]

\* A commit follows the audit event.
Commit(u) == AuditFree(u) /\ Step(u, Idle)

Rollback(u) ==
  /\ txn[u] # Idle
  /\ Step(u, Idle)
  /\ UNCHANGED <<requestVars, selectionVars, grantVars, commands, roundVars>>
-----------------------------------------------------------------------------
(* Plain requests.                                                         *)

\* A key that is known replays or is refused: nothing is written.  A late
\* submission the policy accepts expires at the deadline that has passed.
submitRequest(u, r, late) ==
  /\ txn[u] = Idle /\ AuditFree(u)
  /\ status[r] = "none"
  /\ status' = [status EXCEPT ![r] = "submitted"]
  /\ overdue' = IF late THEN overdue \union {r} ELSE overdue
  /\ UNCHANGED <<approvals, selectionVars, grantVars, commands, roundVars, txn>>

withdrawRequest(u, r) ==
  /\ txn[u] = Idle /\ RowFree(u, r) /\ AuditFree(u)
  /\ TransitionIsLegal(Subtype(r), status[r], "withdrawn")
  /\ status' = [status EXCEPT ![r] = "withdrawn"]
  /\ UNCHANGED <<overdue, approvals, selectionVars, grantVars, commands,
                 roundVars, txn>>

\* decideRequestsBatch; decideRequest is a batch of one.
BeginBatch(u, items, decision) ==
  /\ txn[u] = Idle
  /\ items # {}
  /\ \A r \in items : status[r] = "submitted" /\ Decidable(Subtype(r))
  /\ Step(u, [at |-> "batch", as |-> decision, todo |-> items, done |-> {}])
  /\ UNCHANGED <<requestVars, selectionVars, grantVars, commands, roundVars>>

\* One item: its row, its decision, its audit event.  A refusal of one item
\* does not touch its neighbours.
DecideItem(u, r) ==
  /\ txn[u].at = "batch" /\ r \in txn[u].todo
  /\ RowFree(u, r)
  /\ IF status[r] = "submitted"
     THEN AuditFree(u) /\ txn' = [txn EXCEPT ![u].todo = @ \ {r}, ![u].done = @ \union {r}]
     ELSE txn' = [txn EXCEPT ![u].todo = @ \ {r}]
  /\ UNCHANGED <<requestVars, selectionVars, grantVars, commands, roundVars>>

CommitBatch(u) ==
  /\ txn[u].at = "batch" /\ txn[u].todo = {}
  /\ status' = [r \in Requests |-> IF r \in txn[u].done THEN txn[u].as ELSE status[r]]
  /\ approvals' = [r \in Requests |-> IF r \in txn[u].done THEN <<txn[u].as>>
                                      ELSE approvals[r]]
  /\ Commit(u)
  /\ UNCHANGED <<overdue, selectionVars, grantVars, commands, roundVars>>

\* Mutant: the reversal is a status only, without the row that supersedes.
MutantReversed(log) == log
Reversed(log) == Append(log, "reversed")

reverseDecision(u, r) ==
  /\ txn[u] = Idle /\ RowFree(u, r) /\ AuditFree(u)
  /\ status[r] = "approved" /\ Decidable(Subtype(r))
  /\ status' = [status EXCEPT ![r] = "superseded_by_revision"]
  /\ approvals' = [approvals EXCEPT ![r] = Reversed(@)]
  /\ UNCHANGED <<overdue, selectionVars, grantVars, commands, roundVars, txn>>
-----------------------------------------------------------------------------
(* The sweep.                                                              *)

DeadlinePasses(r) ==
  /\ status[r] = "submitted" /\ r \notin overdue
  /\ overdue' = overdue \union {r}
  /\ UNCHANGED <<status, approvals, selectionVars, grantVars, commands,
                 roundVars, txn>>

\* claimExpirable: FOR UPDATE SKIP LOCKED, of any subtype.
Claims(u) == {r \in overdue : status[r] \in Expirable /\ RowFree(u, r)}

BeginSweep(u) ==
  /\ txn[u] = Idle
  /\ Claims(u) # {}
  /\ Step(u, [at |-> "sweeping", claimed |-> Claims(u)])
  /\ UNCHANGED <<requestVars, selectionVars, grantVars, commands, roundVars>>

\* Mutant: there is no constraint on the pair.
MutantPairsStand(claimed) == TRUE

\* The constraint D-27, deferred to the commit: no request of a week is
\* expired while its selection is not.
PairsStand(claimed) == \A w \in claimed \intersect Weeks : DerivedStatus(selection[w]) = "expired"

\* sweepExpiredRequests.  When the constraint refuses, all of it rolls back.
CommitSweep(u) ==
  /\ txn[u].at = "sweeping"
  /\ PairsStand(txn[u].claimed)
  /\ status' = [r \in Requests |-> IF r \in txn[u].claimed THEN "expired" ELSE status[r]]
  /\ Commit(u)
  /\ UNCHANGED <<overdue, approvals, selectionVars, grantVars, commands, roundVars>>
-----------------------------------------------------------------------------
(* Vacation: selection and withdrawal.                                      *)

submitVacationSelection(u, w, late) ==
  /\ txn[u] = Idle /\ AuditFree(u)
  /\ selection[w] = "available"
  /\ selection' = [selection EXCEPT ![w] = "pending"]
  /\ status' = [status EXCEPT ![w] = "submitted"]
  /\ overdue' = IF late THEN overdue \union {w} ELSE overdue
  /\ UNCHANGED <<approvals, grantOf, isOverride, target, commitKey, grantVars,
                 commands, roundVars, txn>>

BeginWithdrawal(u, w) ==
  /\ txn[u] = Idle
  /\ <<selection[w], "withdrawn">> \in SelectionTransitions
  /\ Step(u, [at |-> "leaving", week |-> w, from |-> selection[w]])
  /\ UNCHANGED <<requestVars, selectionVars, grantVars, commands, roundVars>>

\* The selection's row and its request's, then the grant is read.
LeaveWeek(u) ==
  /\ txn[u].at = "leaving"
  /\ LET w == txn[u].week
         g == grantOf[w]
     IN
       /\ RowFree(u, w)
       /\ selection[w] = txn[u].from
       /\ Step(u, [at |-> "left", week |-> w, grant |-> g,
                   seen |-> IF g = NoGrant THEN 0 ELSE version[g]])
  /\ UNCHANGED <<requestVars, selectionVars, grantVars, commands, roundVars>>

\* Mutant: the override goes back without the floor of countersAfterReversal.
MutantReleasesOne(w) == 1
\* Mutant: an override unit goes back with any unit.
MutantOverrideReleased(w) == IF override[grantOf[w]] < 1 THEN override[grantOf[w]] ELSE 1

\* countersAfterReversal, and only for a selection that is an override.
OverrideReleased(w) ==
  IF w \notin isOverride THEN 0
  ELSE IF override[grantOf[w]] < 1 THEN override[grantOf[w]] ELSE 1

\* releaseGrantUnits, by compare-and-set on the version read.
Release(w) ==
  LET g == grantOf[w] IN
    /\ consumed' = [consumed EXCEPT ![g] = @ - 1]
    /\ override' = [override EXCEPT ![g] = @ - OverrideReleased(w)]
    /\ version' = [version EXCEPT ![g] = @ + 1]

CommitWithdrawal(u) ==
  /\ txn[u].at = "left"
  /\ LET w == txn[u].week
         g == txn[u].grant
     IN
       /\ IF g = NoGrant THEN UNCHANGED grantVars
          ELSE GrantFree(u, g) /\ version[g] = txn[u].seen /\ Release(w)
       /\ selection' = [selection EXCEPT ![w] = "withdrawn"]
       /\ status' = [status EXCEPT ![w] = "withdrawn"]
  /\ Commit(u)
  /\ UNCHANGED <<overdue, approvals, grantOf, isOverride, target, commitKey,
                 commands, roundVars>>
-----------------------------------------------------------------------------
(* Vacation: approval and denial, under a key of their own.                 *)

\* The insert of the command waits for an uncommitted one of the same key; a
\* committed one replays its outcome and writes nothing.
CommandIsNew(w, k) ==
  /\ commands[w][k] = "none"
  /\ \A v \in Users : txn[v].at \in {"approving", "denying", "holding"} =>
                        ~(txn[v].week = w /\ txn[v].key = k)

\* Selection and grant are read without a lock, in whatever status they are.
BeginApproval(u, w, k, g) ==
  /\ txn[u] = Idle
  /\ selection[w] # "available"
  /\ CommandIsNew(w, k)
  /\ Step(u, [at |-> "approving", week |-> w, key |-> k, as |-> "approved", grant |-> g,
              seen |-> version[g], spare |-> consumed[g] < Entitlement[g] + override[g]])
  /\ UNCHANGED <<requestVars, selectionVars, grantVars, commands, roundVars>>

BeginDenial(u, w, k) ==
  /\ txn[u] = Idle
  /\ selection[w] # "available"
  /\ CommandIsNew(w, k)
  /\ Step(u, [at |-> "denying", week |-> w, key |-> k, as |-> "denied"])
  /\ UNCHANGED <<requestVars, selectionVars, grantVars, commands, roundVars>>

\* Mutant: the grant is updated by id, whatever changed since it was read.
MutantAsRead(u, g) == TRUE
AsRead(u, g) == version[g] = txn[u].seen

\* consumeGrantUnit; raiseOverrideUnits before it when the grant read has no
\* unit to spare and the approver may override.
TakeUnit(u) ==
  /\ txn[u].at = "approving"
  /\ LET g == txn[u].grant IN
       /\ GrantFree(u, g)
       /\ AsRead(u, g)
       /\ txn[u].spare => consumed[g] < Entitlement[g] + override[g]
       /\ Step(u, [at |-> "holding", week |-> txn[u].week, key |-> txn[u].key,
                   as |-> "approved", grant |-> g, beyond |-> ~txn[u].spare])
  /\ UNCHANGED <<requestVars, selectionVars, grantVars, commands, roundVars>>

\* decideSelection and the root path, the approval row and the outcome.
Decides(u) ==
  LET w == txn[u].week IN
    /\ RowFree(u, w)
    /\ selection[w] = "pending"
    /\ PathIsLegal("vacation-selection", status[w], txn[u].as)
    /\ selection' = [selection EXCEPT ![w] = txn[u].as]
    /\ status' = [status EXCEPT ![w] = txn[u].as]
    /\ approvals' = [approvals EXCEPT ![w] = Append(@, txn[u].as)]
    /\ commands' = [commands EXCEPT ![w][txn[u].key] = txn[u].as]

approveVacationSelection(u) ==
  /\ txn[u].at = "holding"
  /\ Decides(u)
  /\ LET w == txn[u].week
         g == txn[u].grant
         more == IF txn[u].beyond THEN 1 ELSE 0
     IN
       /\ consumed' = [consumed EXCEPT ![g] = @ + 1]
       /\ override' = [override EXCEPT ![g] = @ + more]
       /\ version' = [version EXCEPT ![g] = @ + 1 + more]
       /\ grantOf' = [grantOf EXCEPT ![w] = g]
       /\ isOverride' = IF txn[u].beyond THEN isOverride \union {w} ELSE isOverride
  /\ Commit(u)
  /\ UNCHANGED <<overdue, target, commitKey, roundVars>>

denyVacationSelection(u) ==
  /\ txn[u].at = "denying"
  /\ Decides(u)
  /\ Commit(u)
  /\ UNCHANGED <<overdue, grantOf, isOverride, target, commitKey, grantVars, roundVars>>
-----------------------------------------------------------------------------
(* Vacation: the round is committed into a draft, or a week of it reversed. *)

\* findCommitCommand; a key on record replays.
AskRound(u, k) ==
  /\ txn[u] = Idle
  /\ k \notin rounds
  /\ Step(u, [at |-> "asking", key |-> k])
  /\ UNCHANGED <<requestVars, selectionVars, grantVars, commands, roundVars>>

ListRound(u, d) ==
  /\ txn[u].at = "asking"
  /\ LET approved == {w \in Weeks : selection[w] = "approved"} IN
       /\ approved # {}
       /\ Step(u, [at |-> "round", key |-> txn[u].key, draft |-> d,
                   todo |-> approved, done |-> {}])
  /\ UNCHANGED <<requestVars, selectionVars, grantVars, commands, roundVars>>

\* The first assignment of the round: its audit event takes the audit lock.
BookFirst(u) ==
  /\ txn[u].at = "round"
  /\ AuditFree(u)
  /\ txn' = [txn EXCEPT ![u].at = "booking"]
  /\ UNCHANGED <<requestVars, selectionVars, grantVars, commands, roundVars>>

\* The assignments of a week, refused where it is booked (D-1a), then its
\* selection and request by compare-and-set.
CommitWeek(u, w) ==
  /\ txn[u].at = "booking" /\ w \in txn[u].todo
  /\ txn[u].draft \notin booked[w]
  /\ RowFree(u, w)
  /\ selection[w] = "approved"
  /\ TransitionIsLegal("vacation-selection", status[w], "reflected_in_version")
  /\ txn' = [txn EXCEPT ![u].todo = @ \ {w}, ![u].done = @ \union {w}]
  /\ UNCHANGED <<requestVars, selectionVars, grantVars, commands, roundVars>>

\* Mutant: the conflict of the key is ignored: COMMIT_RACE_LOST is not raised.
MutantRoundIsNew(k) == TRUE
RoundIsNew(k) == k \notin rounds

CommitRound(u) ==
  /\ txn[u].at = "booking" /\ txn[u].todo = {}
  /\ RoundIsNew(txn[u].key)
  /\ LET done == txn[u].done IN
       /\ selection' = [w \in Weeks |-> IF w \in done THEN "committed" ELSE selection[w]]
       /\ status' = [r \in Requests |-> IF r \in done THEN "reflected_in_version"
                                        ELSE status[r]]
       /\ target' = [w \in Weeks |-> IF w \in done THEN txn[u].draft ELSE target[w]]
       /\ commitKey' = [w \in Weeks |-> IF w \in done THEN txn[u].key ELSE commitKey[w]]
       /\ booked' = [w \in Weeks |-> IF w \in done THEN booked[w] \union {txn[u].draft}
                                     ELSE booked[w]]
  /\ rounds' = rounds \union {txn[u].key}
  /\ Commit(u)
  /\ UNCHANGED <<overdue, approvals, grantOf, isOverride, grantVars, commands>>

BeginReversal(u, w) ==
  /\ txn[u] = Idle
  /\ selection[w] = "committed"
  /\ Step(u, [at |-> "reversing", week |-> w, seen |-> version[grantOf[w]]])
  /\ UNCHANGED <<requestVars, selectionVars, grantVars, commands, roundVars>>

\* releaseCommittedUnit comes before the selection's compare-and-set.
ReleaseUnit(u) ==
  /\ txn[u].at = "reversing"
  /\ LET g == grantOf[txn[u].week] IN GrantFree(u, g) /\ AsRead(u, g)
  /\ Step(u, [at |-> "released", week |-> txn[u].week])
  /\ UNCHANGED <<requestVars, selectionVars, grantVars, commands, roundVars>>

\* The draft keeps the week's assignments: a revision is asked for.
reverseVacationCommit(u) ==
  /\ txn[u].at = "released"
  /\ LET w == txn[u].week IN
       /\ RowFree(u, w)
       /\ selection[w] = "committed"
       /\ TransitionIsLegal("vacation-selection", status[w], "reversed")
       /\ selection' = [selection EXCEPT ![w] = "reversed"]
       /\ status' = [status EXCEPT ![w] = "reversed"]
       /\ target' = [target EXCEPT ![w] = NoDraft]
       /\ isOverride' = isOverride \union {w}
       /\ Release(w)
  /\ Commit(u)
  /\ UNCHANGED <<overdue, approvals, grantOf, commitKey, commands, roundVars>>
-----------------------------------------------------------------------------
Ask(u) ==
  \/ \E r \in Plain, late \in BOOLEAN : submitRequest(u, r, late)
  \/ \E r \in Plain : withdrawRequest(u, r) \/ reverseDecision(u, r)
  \/ \E items \in SUBSET Plain, decision \in Outcomes : BeginBatch(u, items, decision)
  \/ \E w \in Weeks, late \in BOOLEAN : submitVacationSelection(u, w, late)
  \/ \E w \in Weeks : BeginWithdrawal(u, w) \/ BeginReversal(u, w)
  \/ \E w \in Weeks, k \in Keys, g \in Grants : BeginApproval(u, w, k, g)
  \/ \E w \in Weeks, k \in Keys : BeginDenial(u, w, k)
  \/ \E k \in RoundKeys : AskRound(u, k)

Write(u) ==
  \/ \E r \in Plain : DecideItem(u, r)
  \/ CommitBatch(u)
  \/ LeaveWeek(u) \/ CommitWithdrawal(u)
  \/ TakeUnit(u) \/ approveVacationSelection(u) \/ denyVacationSelection(u)
  \/ \E d \in Drafts : ListRound(u, d)
  \/ BookFirst(u)
  \/ \E w \in Weeks : CommitWeek(u, w)
  \/ CommitRound(u)
  \/ ReleaseUnit(u) \/ reverseVacationCommit(u)

Next ==
  \/ \E u \in Users : Ask(u) \/ Write(u) \/ BeginSweep(u) \/ CommitSweep(u) \/ Rollback(u)
  \/ \E r \in Requests : DeadlinePasses(r)

Spec == Init /\ [][Next]_vars

\* Transactions end, the sweep is run again and again (its job is registered
\* and an operator enqueues it), and one that can commit over and over does.
FairSpec ==
  /\ Spec
  /\ \A u \in Users : /\ WF_vars(Write(u) \/ Rollback(u))
                      /\ SF_vars(BeginSweep(u)) /\ SF_vars(CommitSweep(u))
-----------------------------------------------------------------------------
(* Properties.                                                             *)

\* Weeks that hold a unit of a grant.
Live == {w \in Weeks : selection[w] \in {"approved", "committed"}}

\* The quota's books (D-5, D-6): a grant's counters are the weeks that hold
\* its units, those beyond the entitlement counted as overrides, whatever
\* approvals, withdrawals and reversals crossed.
UnitsMatchSelections == \A g \in Grants :
  /\ consumed[g] = Cardinality({w \in Live : grantOf[w] = g})
  /\ override[g] = Cardinality({w \in Live \intersect isOverride : grantOf[w] = g})

\* D-27: a request says what its selection says.  Only the sweep runs into
\* the constraint; the other writers are not checked against it here, and
\* keep the pair together by themselves.
PairAgrees == \A w \in Weeks : status[w] = DerivedStatus(selection[w])

\* The decisions a request of a status can have behind it.
LogsOf(s) ==
  CASE s = "approved"               -> {<<"approved">>}
    [] s = "denied"                 -> {<<"denied">>}
    [] s = "superseded_by_revision" -> {<<"approved", "reversed">>}
    [] s = "withdrawn"              -> {<<>>, <<"approved">>}
    [] s \in {"reflected_in_version", "reversed"} -> {<<"approved">>}
    [] OTHER                        -> {<<>>}

Commanded(w) == {k \in Keys : commands[w][k] # "none"}

\* The log of decisions and the status tell the same story, and a decision on
\* a week is some command's, of one key, with the outcome a replay reports.
DecisionsAreRecorded ==
  /\ \A r \in Requests : approvals[r] \in LogsOf(status[r])
  /\ \A w \in Weeks :
       IF approvals[w] = <<>> THEN Commanded(w) = {}
       ELSE \E k \in Keys : Commanded(w) = {k} /\ approvals[w] = <<commands[w][k]>>

\* A week is booked in one draft, by the round that committed it, and a
\* round's key committed one draft; a round that failed left nothing booked.
WeekIsBookedOnce ==
  /\ \A w \in Weeks :
       /\ selection[w] \notin {"committed", "reversed"} => booked[w] = {}
       /\ selection[w] = "committed" => booked[w] = {target[w]}
       /\ selection[w] = "reversed" => Cardinality(booked[w]) = 1
       /\ booked[w] # {} => commitKey[w] \in rounds
  /\ \A v, w \in Weeks : booked[v] # {} /\ commitKey[v] = commitKey[w] => booked[v] = booked[w]

\* The counters implement the ledger, where a grant is a set of weeks.
Ledger == INSTANCE EntitlementLedger WITH
  within <- [g \in Grants |-> {w \in Live \ isOverride : grantOf[w] = g}],
  beyond <- [g \in Grants |-> {w \in Live \intersect isOverride : grantOf[w] = g}],
  spent  <- {w \in Weeks : grantOf[w] # NoGrant /\ w \notin Live}

\* Every step of the services is a step of the ledger or leaves it alone: no
\* unit is given twice, none beyond what the entitlement and the overrides
\* allow, and no override while a unit was to spare.
KeepsTheLedger == Ledger!LedgerSpec

\* SweepResult: a request that cannot be expired is no "reason to fail the
\* sweep and leave the rest unswept".  Violated: a pending week past its
\* deadline fails every sweep that claims it.
OverdueExpires ==
  \A r \in Plain : r \in overdue /\ status[r] = "submitted" ~> status[r] # "submitted"
=============================================================================
