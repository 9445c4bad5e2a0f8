SPECIFICATION BssSpec
CONSTANTS
  imsi = imsi
  Imsis = {imsi}
  Request <- MCRequest
  Half = 4
  Absent = Absent
  NoRequest = NoRequest
  MaxRequests = 4
  MaxRestarts = 1
INVARIANTS BssTypeOK BalanceIsAccountedFor AnswersFormALedger OneRegistrationWins
PROPERTIES ImplementsAccounts EveryRequestEnds
CHECK_DEADLOCK FALSE
