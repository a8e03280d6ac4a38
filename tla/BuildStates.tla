---------------------------- MODULE BuildStates ----------------------------
(***************************************************************************)
(* The lifecycle of a schedule build as plain data: the states, the legal  *)
(* edges, the families the services select by, and the one place where a   *)
(* solve outcome becomes a state (apps/api/src/builds/states.ts, mirrored  *)
(* by app_build_run_transition_is_legal in migration 0018).                *)
(***************************************************************************)

\* A build being configured, validated, checked, queued or solved.
InFlight == {"draft_configuration", "validating", "readiness_check",
             "queued", "running"}

\* A build that has a candidate somebody may still choose.
CompletedFamily == {"completed", "completed_with_unmet_preferences",
                    "reviewed", "progressively_extended", "approved",
                    "applied_to_draft_schedule"}

\* A build that has an answer, or the record that it will never have one.
Settled == CompletedFamily \union {"infeasible", "failed", "cancelled", "superseded"}

BuildStates == InFlight \union Settled \union {"archived"}

LegalTransitions ==
  {<<"draft_configuration", "validating">>}
    \union ({"validating"} \X {"draft_configuration", "readiness_check"})
    \union ({"readiness_check"} \X {"draft_configuration", "queued"})
    \union ({"queued"} \X {"running", "cancelled"})
    \union ({"running"} \X {"completed", "completed_with_unmet_preferences",
                            "infeasible", "failed", "cancelled"})
    \union ({"completed", "completed_with_unmet_preferences",
             "progressively_extended"} \X {"reviewed"})
    \union ({"reviewed"} \X {"progressively_extended", "approved"})
    \union {<<"approved", "applied_to_draft_schedule">>}
    \union (CompletedFamily \X {"superseded"})
    \union (Settled \X {"archived"})

(***************************************************************************)
(* What a solve can come back with, as far as the lifecycle tells answers  *)
(* apart.  "clean", "unmet" and "unusable" are OPTIMAL or FEASIBLE: with a *)
(* candidate the independent checker admits and no soft penalty, with a    *)
(* penalty, and with no candidate or one the checker refuses.  "killed"    *)
(* and "crashed" are FAILED as the parent attributes it to a subprocess    *)
(* that ended by a signal or with an error; "invalid" is MODEL_INVALID,    *)
(* UNKNOWN or a FAILED the solver reports itself.                          *)
(***************************************************************************)
Answers == {"clean", "unmet", "unusable", "infeasible", "timeout",
            "cancelled", "killed", "crashed", "invalid"}

TerminationReasons == {"completed", "deadline", "user_cancelled", "killed",
                       "crashed", "rejected"}

Usable(answer) == answer \in {"clean", "unmet"}

\* Mutant: the worker's status decides, whatever the checker found.
MutantClassifiedState(answer) ==
  CASE answer \in {"infeasible", "cancelled"}          -> answer
    [] answer \in {"clean", "unmet", "unusable"}       -> "completed"
    [] OTHER                                           -> "failed"

ClassifiedState(answer) ==
  CASE answer = "clean"      -> "completed"
    [] answer = "unmet"      -> "completed_with_unmet_preferences"
    [] answer = "infeasible" -> "infeasible"
    [] answer = "cancelled"  -> "cancelled"
    [] OTHER                 -> "failed"

ClassifiedReason(answer) ==
  CASE answer \in {"clean", "unmet", "infeasible"} -> "completed"
    [] answer = "timeout"                          -> "deadline"
    [] answer = "cancelled"                        -> "user_cancelled"
    [] answer \in {"killed", "crashed"}             -> answer
    [] OTHER                                       -> "rejected"
=============================================================================
