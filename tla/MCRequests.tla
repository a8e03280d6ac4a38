----------------------------- MODULE MCRequests -----------------------------
(* Model checking of Requests: one grant of one unit.                       *)
EXTENDS Requests, TLC

MCSubtypeOf == [r \in Plain |-> "time-off"]
MCEntitlement == [g \in Grants |-> 1]

Symmetry == Permutations(Users) \union Permutations(Plain) \union Permutations(Weeks)
              \union Permutations(Keys) \union Permutations(RoundKeys) \union Permutations(Drafts)
=============================================================================
