------------------------ MODULE MCCandidateSelection ------------------------
(* Model checking of CandidateSelection.                                   *)
EXTENDS CandidateSelection, TLC

Symmetry == Permutations(Users) \union Permutations(Runs)
=============================================================================
