-------------------------- MODULE MCBuildLifecycle --------------------------
(* Model checking of BuildLifecycle: the sets are model values, given in    *)
(* the .cfg files; runs, configurations and workers are interchangeable.    *)
EXTENDS BuildLifecycle, TLC

CONSTANTS ready, other, unready, closed, broken

RunSymmetry == Permutations(Runs) \union Permutations(Workers) \union Permutations(Configs)
=============================================================================
