------------------------- MODULE CandidateDecisions -------------------------
(***************************************************************************)
(* What choosing a candidate promises, each decision in one step: a run is *)
(* applied to a draft only from the inputs it was posed against, over the  *)
(* source its scheduler looked at, into a period that takes drafts, and    *)
(* approving one retires every other candidate (doc 35 section 6g ruling   *)
(* 4: builds/selection.ts; report 21 section 4: builds/service.ts).        *)
(***************************************************************************)
EXTENDS Naturals, BuildStates

CONSTANT Runs

VARIABLES
  state,    \* of each run
  posed,    \* the revision of the inputs each run was posed against
  inputs,   \* the current revision of the inputs
  source,   \* the current revision of the source draft's material
  status,   \* of the period
  drafts    \* the revisions of the source a run was drafted over

decisionVars == <<state, posed, inputs, source, status, drafts>>

DecisionsInit ==
  /\ state = [r \in Runs |-> "running"]
  /\ posed = [r \in Runs |-> 0]
  /\ inputs = 0 /\ source = 0
  /\ status = "planning"
  /\ drafts = [r \in Runs |-> {}]

\* An edit moves the inputs, the material the digest is of, or both.
Edit ==
  /\ inputs' \in {inputs, inputs + 1}
  /\ source' \in {source, source + 1}
  /\ UNCHANGED <<state, posed, status, drafts>>

Administer(to) ==
  /\ status' = to
  /\ UNCHANGED <<state, posed, inputs, source, drafts>>

Complete(r, revision) ==
  /\ state[r] = "running"
  /\ state' = [state EXCEPT ![r] = "completed"]
  /\ posed' = [posed EXCEPT ![r] = revision]
  /\ UNCHANGED <<inputs, source, status, drafts>>

Review(r, to) ==
  /\ to \in {"reviewed", "progressively_extended"}
  /\ <<state[r], to>> \in LegalTransitions
  /\ state' = [state EXCEPT ![r] = to]
  /\ UNCHANGED <<posed, inputs, source, status, drafts>>

Approve(r) ==
  /\ <<state[r], "approved">> \in LegalTransitions
  /\ state' = [s \in Runs |-> IF s = r THEN "approved"
                              ELSE IF state[s] \in CompletedFamily THEN "superseded"
                              ELSE state[s]]
  /\ UNCHANGED <<posed, inputs, source, status, drafts>>

Apply(r) ==
  /\ state[r] = "approved"
  /\ posed[r] = inputs
  /\ status # "closed"
  /\ state' = [state EXCEPT ![r] = "applied_to_draft_schedule"]
  /\ drafts' = [drafts EXCEPT ![r] = {source}]
  /\ UNCHANGED <<posed, inputs, source, status>>

Archive(rows) ==
  /\ \A r \in rows : state[r] \in Settled
  /\ state' = [r \in Runs |-> IF r \in rows THEN "archived" ELSE state[r]]
  /\ UNCHANGED <<posed, inputs, source, status, drafts>>

DecisionsNext ==
  \/ Edit
  \/ \E to \in {"planning", "published", "closed"} : Administer(to)
  \/ \E r \in Runs : \/ \E revision \in 0 .. inputs : Complete(r, revision)
                     \/ \E to \in BuildStates : Review(r, to)
                     \/ Approve(r)
                     \/ Apply(r)
  \/ \E rows \in SUBSET Runs : Archive(rows)

DecisionsSpec == DecisionsInit /\ [][DecisionsNext]_decisionVars
=============================================================================
