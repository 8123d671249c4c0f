SPECIFICATION StoresSpec
CONSTANTS
  r1 = r1
  r2 = r2
  d1 = d1
  s1 = s1
  Request = {r1, r2}
  Dataset = {d1}
  Scope = {s1}
  Target <- MCSameScope
  EmptyScope = {}
  Backend = "memory"
  NoToken = NoToken
  Retention = 1
  MaxNow = 1
  MaxRestarts = 1
INVARIANTS
  LiveNeverFails
  OneFreshInsight
PROPERTIES
  Answered
  NothingServedAfterRemoval
  ExpiredForgotten
CHECK_DEADLOCK FALSE
