CONSTANTS
  w1 = w1
  w2 = w2
  Retriers = {w1, w2}
  MaxRetries = 1
  MaxReports = 2
  MaxEvents = 2
SPECIFICATION Spec
INVARIANTS TypeOK SendsAreBounded AckShows DeviceFollowsThePerson
CHECK_DEADLOCK FALSE
SYMMETRY Symmetric
