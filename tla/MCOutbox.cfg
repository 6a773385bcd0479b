CONSTANTS
  w1 = w1
  w2 = w2
  a1 = a1
  t1 = t1
  k1 = k1
  Workers = {w1, w2}
  Aggregates = {a1}
  EventTypes = {t1}
  Keys = {k1}
  NULL = NULL
  MaxAttempts = 2
  MaxEvents = 2
  MaxEnqueues = 2
  MaxCrashes = 1
  MaxPanics = 1
  MaxOverruns = 1
SPECIFICATION FairSpec
INVARIANTS TypeOK OneHandlerPerAggregate SettledInOrder CompletedCarriesHandledRequest PendingHasBudget
PROPERTIES SettledIsFinal EventuallySettled ImplementsEventQueue
CHECK_DEADLOCK FALSE
