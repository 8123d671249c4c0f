SPECIFICATION TimedSpec
CONSTANTS
  r1 = r1
  r2 = r2
  r3 = r3
  r4 = r4
  d1 = d1
  s1 = s1
  s2 = s2
  Request = {r1, r2, r3}
  Dataset = {d1}
  Scope = {s1, s2}
  Target <- MCTarget
  Backend = "redis"
  NoToken = NoToken
  LockTTL = 2
  MaxHold = 3
INVARIANTS
  OneHolderPerTTL
PROPERTIES
  TokenSafe
  NoLeakedEntry
CHECK_DEADLOCK FALSE
