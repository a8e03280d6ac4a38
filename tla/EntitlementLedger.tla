------------------------- MODULE EntitlementLedger --------------------------
(***************************************************************************)
(* What the vacation quota promises, without requests, versions, keys or   *)
(* transactions: a week takes a unit of a grant once and may give it back  *)
(* once.  Within the entitlement a unit is there for the taking; beyond it *)
(* a unit is an override, and nobody is given one while the entitlement    *)
(* still has a unit (SPEC-08 section 5, D-5).                              *)
(***************************************************************************)
EXTENDS Naturals, FiniteSets

CONSTANTS
  Weeks,
  Grants,
  Entitlement   \* units of each grant

VARIABLES
  within,   \* weeks that hold a unit of each grant
  beyond,   \* weeks that hold an override of it
  spent     \* weeks that held one and gave it back

ledger == <<within, beyond, spent>>

Holding == UNION {within[g] \union beyond[g] : g \in Grants}

LedgerInit ==
  /\ within = [g \in Grants |-> {}]
  /\ beyond = [g \in Grants |-> {}]
  /\ spent = {}

Take(w, g) ==
  /\ w \notin Holding \union spent
  /\ Cardinality(within[g]) < Entitlement[g]
  /\ within' = [within EXCEPT ![g] = @ \union {w}]
  /\ UNCHANGED <<beyond, spent>>

TakeBeyond(w, g) ==
  /\ w \notin Holding \union spent
  /\ Cardinality(within[g]) >= Entitlement[g]
  /\ beyond' = [beyond EXCEPT ![g] = @ \union {w}]
  /\ UNCHANGED <<within, spent>>

GiveBack(w) ==
  /\ w \in Holding
  /\ within' = [g \in Grants |-> within[g] \ {w}]
  /\ beyond' = [g \in Grants |-> beyond[g] \ {w}]
  /\ spent' = spent \union {w}

LedgerNext == \E w \in Weeks :
  \/ \E g \in Grants : Take(w, g) \/ TakeBeyond(w, g)
  \/ GiveBack(w)

LedgerSpec == LedgerInit /\ [][LedgerNext]_ledger
=============================================================================
