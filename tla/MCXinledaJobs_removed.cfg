CONSTANTS
  w1 = w1
  w2 = w2
  p1 = p1
  Workers = {w1, w2}
  People = {p1}
  MaxAttempts = 1
  MaxEvents = 2
  MaxPunches = 0
  MaxSwitches = 0
  MaxFaults = 0
  MaxRetries = 0
  MaxAccounts = 1
  MaxEither = 0
SPECIFICATION Spec
SYMMETRY Symmetric
INVARIANT RemovedHasLeft
CHECK_DEADLOCK FALSE
