--------------------------- MODULE MCPublication ----------------------------
(* Model checking of Publication: two periods, the first with two versions. *)
EXTENDS Publication, TLC

CONSTANTS p1, p2, v1, v2, v3

MCPeriods  == {p1, p2}
MCVersions == {v1, v2, v3}
MCAdministered == {p1}
MCPeriodOf == (v1 :> p1) @@ (v2 :> p1) @@ (v3 :> p2)

Symmetry == Permutations(Users) \union Permutations(Staff) \union Permutations(Keys)
              \union Permutations({v1, v2})
=============================================================================
