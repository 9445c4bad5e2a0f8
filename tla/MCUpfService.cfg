SPECIFICATION ServiceSpec
CONSTANTS
  Ids = {i1, i2, i3}
  Seids = {s1, s2}
  NoSession = NoSession
  MaxRestarts = 1
SYMMETRY ServiceSymmetry
INVARIANTS ServiceTypeOK SessionsAreTheirOwn SerialView
PROPERTIES ImplementsTable
CHECK_DEADLOCK FALSE
