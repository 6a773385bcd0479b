\* Two workers and a person; a source is switched on, off and on again.
SPECIFICATION FairSpec
CONSTANTS
  Workers = {w1, w2}
  People = {p1}
  NULL = NULL
  MaxAttempts = 2
  MaxPhotos = 2
  MaxRequests = 3
  MaxFailures = 1
INVARIANTS TypeOK EnabledMeansEnrolled ClearedStaysEmpty
PROPERTY UnneededLibraryIsEmptied
CHECK_DEADLOCK FALSE
