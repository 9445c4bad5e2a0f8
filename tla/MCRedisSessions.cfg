SPECIFICATION RedisSpec
CONSTANTS
  Requests = {r1, r2, r3, r4}
  Imsis = {u1, u2}
  NoSession = NoSession
  MaxFaults = 2
  MaxExpiries = 1
SYMMETRY RedisSymmetry
INVARIANTS RedisTypeOK SerialRegistry ReturnedWasStored SerialCreatesAgree SessionsKeepTheirImsi
CHECK_DEADLOCK FALSE
