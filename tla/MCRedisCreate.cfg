SPECIFICATION RedisSpec
CONSTANTS
  Requests = {r1, r2}
  Imsis = {u1}
  NoSession = NoSession
  MaxFaults = 0
  MaxExpiries = 0
PROPERTIES CreateKeepsExisting
CHECK_DEADLOCK FALSE
