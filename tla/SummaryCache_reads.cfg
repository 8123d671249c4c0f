SPECIFICATION Spec
CONSTANTS
  r1 = r1
  r2 = r2
  r3 = r3
  r4 = r4
  d1 = d1
  d2 = d2
  f1 = f1
  i1 = i1
  Reader = {r1, r2, r3, r4}
  Dataset = {d1, d2}
  Filter = {f1}
  Insight = {i1}
  Ask <- MCReaders
  Subject <- MCSubject
  Content <- MCContent
  Size <- MCSize
  AllRows = 2
  Storage = "memory"
  Backend = "redis"
  None = None
INVARIANTS
  InsightIsUsed
  ShownIsOwn
  NothingServedAfterRemoval
PROPERTY
  CacheForgets
CHECK_DEADLOCK FALSE
