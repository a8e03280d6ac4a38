SPECIFICATION Spec
CONSTANTS
  Users = {u1, u2, u3}
  Runs = {r1, r2}
  MaxEdits = 2
INVARIANTS RowsComeFirst
