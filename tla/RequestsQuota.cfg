SPECIFICATION Spec
CONSTANTS
  Users = {u1, u2}
  Plain = {r1}
  Weeks = {w1, w2}
  Grants = {g1}
  Keys = {k1, k2}
  RoundKeys = {c1, c2}
  Drafts = {d1, d2}
  NoGrant = NoGrant
  NoDraft = NoDraft
  NoKey = NoKey
  SubtypeOf <- MCSubtypeOf
  Entitlement <- MCEntitlement
SYMMETRY Symmetry
INVARIANTS TypeOK UnitsMatchSelections PairAgrees DecisionsAreRecorded WeekIsBookedOnce
PROPERTIES KeepsTheLedger
