--------------------------- MODULE BuildContract ---------------------------
(***************************************************************************)
(* What the builds of a period promise to whoever asks for them, without   *)
(* the queue, the workers, the claims and the locks that keep the promise: *)
(* a run is posed one problem, is solved once and while fewer than the cap *)
(* are, has one answer or none, is a candidate if the independent checker  *)
(* admitted the answer, and the one that is chosen is applied only to the  *)
(* period it was posed on (builds/states.ts and its tables in migrations   *)
(* 0018 and 0020, builds/capacity.ts, report 21 sections 4 and 5).         *)
(***************************************************************************)
EXTENDS Naturals, FiniteSets

CONSTANTS
  Runs,
  Inputs,   \* what the canonical input of the period can be
  NoInput,
  Cap       \* runs that may be solved at once

VARIABLES
  stage,    \* how far each run is
  problem,  \* the input each run is pinned to
  answer,   \* none, or whether the checker admitted what the solver found
  world     \* the canonical input of the period now

contractVars == <<stage, problem, answer, world>>

Chosen == {"approved", "applied_to_draft_schedule"}
Choices == {"candidate"} \union Chosen
Stages == {"absent", "preparing", "queued", "running", "ended"} \union Choices

ContractInit ==
  /\ stage = [r \in Runs |-> "absent"]
  /\ problem = [r \in Runs |-> NoInput]
  /\ answer = [r \in Runs |-> "none"]
  /\ world \in Inputs

Edit(v) == world' = v /\ UNCHANGED <<stage, problem, answer>>

Prepare(r) ==
  /\ stage[r] = "absent"
  /\ stage' = [stage EXCEPT ![r] = "preparing"]
  /\ UNCHANGED <<problem, answer, world>>

\* The problem is pinned once; a run that fails its checks stays where it is.
Pose(r, input, to) ==
  /\ stage[r] = "preparing" /\ to \in {"preparing", "queued"}
  /\ problem[r] \in {NoInput, input}
  /\ stage' = [stage EXCEPT ![r] = to]
  /\ problem' = [problem EXCEPT ![r] = input]
  /\ UNCHANGED <<answer, world>>

Start(r) ==
  /\ stage[r] = "queued"
  /\ Cardinality({s \in Runs : stage[s] = "running"}) < Cap
  /\ stage' = [stage EXCEPT ![r] = "running"]
  /\ UNCHANGED <<problem, answer, world>>

Answer(r, a) ==
  /\ stage[r] = "running" /\ answer[r] = "none"
  /\ answer' = [answer EXCEPT ![r] = a]
  /\ stage' = [stage EXCEPT ![r] = IF a = "usable" THEN "candidate" ELSE "ended"]
  /\ UNCHANGED <<problem, world>>

\* Cancelled in the queue, or reaped: these runs never have an answer.
GiveUp(rs) ==
  /\ \A r \in rs : stage[r] \in {"queued", "running"} /\ answer[r] = "none"
  /\ stage' = [r \in Runs |-> IF r \in rs THEN "ended" ELSE stage[r]]
  /\ UNCHANGED <<problem, answer, world>>

\* Choosing one retires every other, whatever had been done with it.
Choose(r) ==
  /\ stage[r] = "candidate" /\ answer[r] = "usable"
  /\ stage' = [s \in Runs |-> IF s = r THEN "approved"
                              ELSE IF stage[s] \in Choices THEN "ended"
                              ELSE stage[s]]
  /\ UNCHANGED <<problem, answer, world>>

Apply(r) ==
  /\ stage[r] = "approved"
  /\ problem[r] = world
  /\ stage' = [stage EXCEPT ![r] = "applied_to_draft_schedule"]
  /\ UNCHANGED <<problem, answer, world>>

Archive(rs) ==
  /\ \A r \in rs : stage[r] \in Choices \union {"ended"}
  /\ stage' = [r \in Runs |-> IF r \in rs THEN "ended" ELSE stage[r]]
  /\ UNCHANGED <<problem, answer, world>>

ContractNext ==
  \/ \E v \in Inputs : Edit(v)
  \/ \E r \in Runs :
       \/ Prepare(r) \/ Start(r) \/ Choose(r) \/ Apply(r)
       \/ \E input \in Inputs, to \in Stages : Pose(r, input, to)
       \/ \E a \in {"usable", "useless"} : Answer(r, a)
  \/ \E rs \in SUBSET Runs : GiveUp(rs) \/ Archive(rs)

ContractSpec == ContractInit /\ [][ContractNext]_contractVars
=============================================================================
