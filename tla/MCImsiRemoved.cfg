SPECIFICATION SwitchSpec
CONSTANTS
  m1 = m1
  m2 = m2
  m3 = m3
  phone = phone
  tablet = tablet
  Messages = {m1, m2, m3}
  Malformed = {m3}
  DeviceOf <- MCDeviceOf
  Clients = {c1}
  NoMessage = NoMessage
  MaxDisruptions = 1
INVARIANTS AnsweredIsRemoved
CHECK_DEADLOCK FALSE
