SPECIFICATION Spec
CONSTANTS
  Users = {u1, u2}
  Staff = {s1}
  Keys = {k1, k2}
  Nobody = Nobody
  p1 = p1
  p2 = p2
  v1 = v1
  v2 = v2
  v3 = v3
  Periods <- MCPeriods
  Versions <- MCVersions
  PeriodOf <- MCPeriodOf
  Administered <- MCAdministered
  MaxChanges = 0
  MaxFreezes = 0
SYMMETRY Symmetry
CHECK_DEADLOCK FALSE
PROPERTIES CancelledIsNeverPublished
