SPECIFICATION Spec
CONSTANTS
  Workers = {w1}
  People = {p1}
  NULL = NULL
  MaxAttempts = 2
  MaxPhotos = 1
  MaxRequests = 3
  MaxFailures = 0
INVARIANT SwitchingOnEnrollsAll
CHECK_DEADLOCK FALSE
