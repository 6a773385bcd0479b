CONSTANTS
  w1 = w1
  w2 = w2
  c1 = c1
  c2 = c2
  p1 = p1
  a1 = a1
  a2 = a2
  Workers = {w1, w2}
  Configs = {c1, c2}
  People = {p1}
  NULL = NULL
  Accounts = {a1, a2}
  MaxWrites = 1
  MaxEdits = 2
  MaxExtras = 1
SPECIFICATION Spec
SYMMETRY Symmetric
INVARIANTS TypeOK EachPlatformGetsAJobUnlessAbsorbed BindingFollowsConfigUnlessRewound
  EverybodyIsSentAgain
CHECK_DEADLOCK FALSE
