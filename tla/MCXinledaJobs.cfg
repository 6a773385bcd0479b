CONSTANTS
  w1 = w1
  w2 = w2
  p1 = p1
  Workers = {w1, w2}
  People = {p1}
  MaxAttempts = 1
  MaxEvents = 2
  MaxPunches = 1
  MaxSwitches = 1
  MaxFaults = 1
  MaxRetries = 0
  MaxAccounts = 2
  MaxEither = 1
SPECIFICATION Spec
SYMMETRY Symmetric
INVARIANTS TypeOK OneJobPerEntity ReportedInOrder MappingIsOfThisAccount
PROPERTY TokenIsPolled
CHECK_DEADLOCK FALSE
