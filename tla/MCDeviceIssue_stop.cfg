CONSTANTS
  w1 = w1
  Retriers = {w1}
  MaxRetries = 1
  MaxReports = 1
  MaxEvents = 2
SPECIFICATION Spec
PROPERTIES StoppedIsNotRetried
CHECK_DEADLOCK FALSE
