SPECIFICATION RegSpec
CONSTANTS
  g1 = g1
  g2 = g2
  ue = ue
  Gnbs = {g1, g2}
  UEs = {ue}
  Message <- MCMessage
  Event <- MCMessage
  Admins = {a1}
  ResponseRoom = 1
  NoContext = NoContext
  MaxSent = 3
INVARIANTS RegTypeOK ContextKeepsUp DeletedStaysDeleted EventsAreBacked EventsInOrder
PROPERTIES MessagesAreHandled
CHECK_DEADLOCK FALSE
