CONSTANTS
  w1 = w1
  p1 = p1
  Workers = {w1}
  People = {p1}
  MaxAttempts = 2
  MaxEvents = 1
  MaxPunches = 0
  MaxSwitches = 1
  MaxFaults = 2
  MaxRetries = 1
  MaxAccounts = 1
  MaxEither = 2
SPECIFICATION FairSpec
INVARIANT RedeliveryIsExplained
PROPERTY JobsComeToRest
CHECK_DEADLOCK FALSE
