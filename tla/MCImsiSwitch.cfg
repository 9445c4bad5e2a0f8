SPECIFICATION SwitchSpec
CONSTANTS
  m1 = m1
  m2 = m2
  m3 = m3
  phone = phone
  tablet = tablet
  Messages = {m1, m2, m3}
  Malformed = {}
  DeviceOf <- MCDeviceOf
  Clients = {c1}
  NoMessage = NoMessage
  MaxDisruptions = 1
INVARIANTS SwitchTypeOK OneAnswerPerDelivery NewestIsPending AnswerIsNeverOlder PassedIsHeld
PROPERTIES PublishedIsStored
CHECK_DEADLOCK FALSE
