SPECIFICATION PduSpec
CONSTANTS
  Ids = {c1, c2}
  Seids = {s1, s2}
  SmfSeid = s1
  NoSession = NoSession
  ReadTicks = 2
  GraceTicks = 2
  MaxRestarts = 1
INVARIANTS EverySessionIsTracked
CHECK_DEADLOCK FALSE
