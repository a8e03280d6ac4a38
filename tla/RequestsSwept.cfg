SPECIFICATION FairSpec
CONSTANTS
  Users = {u1}
  Plain = {r1}
  Weeks = {w1}
  Grants = {g1}
  Keys = {}
  RoundKeys = {}
  Drafts = {}
  NoGrant = NoGrant
  NoDraft = NoDraft
  NoKey = NoKey
  SubtypeOf <- MCSubtypeOf
  Entitlement <- MCEntitlement
CHECK_DEADLOCK FALSE
PROPERTIES OverdueExpires
