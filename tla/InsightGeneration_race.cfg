SPECIFICATION Spec
CONSTANTS
  r1 = r1
  r2 = r2
  r3 = r3
  d1 = d1
  d2 = d2
  s1 = s1
  s2 = s2
  Request = {r1, r2, r3}
  Dataset = {d1}
  Scope = {s1}
  Target <- MCSameScope
  EmptyScope = {}
  Backend = "redis"
  NoToken = NoToken
  Retention = 1
  MaxNow = 1
  MaxRestarts = 1
SYMMETRY MCSymmetry
INVARIANTS
  NoOrphanInsight
  FreshAnswersAgree
  LiveNeverFails
PROPERTIES
  OnlyStoredIsServed
  ImplementsContract
CHECK_DEADLOCK FALSE
