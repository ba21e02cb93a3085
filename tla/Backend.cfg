CONSTANTS
  Media = {m1, m2}
  m1 = m1
  m2 = m2
  MaxConcurrency = 2
  MaxTries = 2
  QueryCap = 1
  MaxLogins = 2
  NoCall = NoCall
SPECIFICATION LiveSpec
CHECK_DEADLOCK FALSE
INVARIANTS TypeOK SuccessIsStored RenewedIsNewer
PROPERTIES MediaReturns
