CONSTANTS
  a = a
  b = b
  Users = {a, b}
  NULL = NULL
  MaxWrites = 1
  MaxTroubles = 1
SPECIFICATION Spec
SYMMETRY Symmetric
INVARIANTS TypeOK SeesOwnChanges OnlyOwnData
CHECK_DEADLOCK FALSE
