SPECIFICATION PduSpec
CONSTANTS
  Ids = {c1, c2}
  Seids = {s1}
  SmfSeid = s1
  NoSession = NoSession
  ReadTicks = 2
  GraceTicks = 2
  MaxRestarts = 1
INVARIANTS PduTypeOK AcceptedIsBacked OneAnswerPerCall
PROPERTIES NoEarlyTimeout ImplementsTable EveryCallEnds
CHECK_DEADLOCK FALSE
