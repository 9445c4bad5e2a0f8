SPECIFICATION GtpcSpec
CONSTANTS
  Requests = {r1, r2}
  Imsis = {u1, u2}
  PoolSize = 1
  NoRequest = NoRequest
PROPERTIES EveryRequestEnds
CHECK_DEADLOCK FALSE
