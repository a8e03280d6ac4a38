-------------------------- MODULE RequestStatuses ---------------------------
(***************************************************************************)
(* The statuses of requests and of vacation selections, and the edges      *)
(* between them (packages/domain/src/requests/subtypes.ts, transitions.ts, *)
(* vacation-selection.ts; migrations 0022 and 0023 hold the same tables).  *)
(***************************************************************************)
EXTENDS Sequences

Subtypes == {"availability", "time-off", "no-call", "shift-preference",
             "shift-group-off", "vacation-selection"}

Vacation        == {"vacation-selection"}
Reviewed        == Subtypes \ {"shift-preference"}
AcceptedAsInput == {"availability", "shift-preference"}

\* Statuses a request is decided from by nobody and left undecided in.
Undecided == {"submitted", "under_review", "accepted_as_input"}

\* Mutant: any status expires, the wildcard that V-31 replaced.
MutantExpirable == Undecided \union {"approved", "reflected_in_version"}
Expirable == Undecided

TransitionIsLegal(subtype, from, to) ==
  \/ from = "draft" /\ to = "submitted"
  \/ from = "submitted" /\ to = "under_review" /\ subtype \in Reviewed
  \/ from = "submitted" /\ to = "accepted_as_input" /\ subtype \in AcceptedAsInput
  \/ from = "under_review" /\ to \in {"approved", "denied"} /\ subtype \in Reviewed
  \/ to = "withdrawn" /\ \/ from = "submitted"
                         \/ from \in {"under_review", "approved"} /\ subtype \in Reviewed
                         \/ from = "accepted_as_input" /\ subtype \in AcceptedAsInput
                         \/ from = "reflected_in_version" /\ subtype \notin Vacation
  \/ to = "consumed_by_build" /\
       \/ from = "approved" /\ subtype \in Reviewed \ Vacation
       \/ from = "accepted_as_input" /\ subtype = "shift-preference"
  \/ to = "reflected_in_version" /\
       \/ from = "consumed_by_build" /\ subtype \notin Vacation
       \/ from = "approved" /\ subtype \in Vacation
  \/ from = "consumed_by_build" /\ to = "unsatisfied" /\ subtype = "shift-preference"
  \/ from = "reflected_in_version" /\ to = "reversed" /\ subtype \in Vacation
  \/ from \in Expirable /\ to = "expired"
  \/ from = "approved" /\ to = "superseded_by_revision" /\ subtype \in Reviewed

\* The edges a decision walks: decisionStatusPath and selectionEdgeRootPath.
PathIsLegal(subtype, from, to) ==
  \/ TransitionIsLegal(subtype, from, to)
  \/ /\ TransitionIsLegal(subtype, from, "under_review")
     /\ TransitionIsLegal(subtype, "under_review", to)

\* Vacation is decided, withdrawn, committed and reversed by its own services.
Decidable(subtype) == subtype \in Reviewed \ Vacation

SelectionTransitions ==
  {<<"available", "pending">>, <<"pending", "approved">>, <<"pending", "denied">>,
   <<"pending", "withdrawn">>, <<"pending", "expired">>, <<"approved", "committed">>,
   <<"approved", "withdrawn">>, <<"committed", "reversed">>}

\* D-27: the status a selection's request has, none while it has no request.
DerivedStatus(selection) ==
  CASE selection = "available" -> "none"
    [] selection = "pending"   -> "submitted"
    [] selection = "committed" -> "reflected_in_version"
    [] OTHER                   -> selection
=============================================================================
