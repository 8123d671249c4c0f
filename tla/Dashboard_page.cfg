SPECIFICATION Spec
CONSTANTS
  d1 = d1
  d2 = d2
  f1 = f1
  f2 = f2
  Dataset = {d1, d2}
  Filter = {f1, f2}
  DefaultFilter = f1
  Content <- MCContent
  Whole <- MCWhole
  Storage = "memory"
  MaxClicks = 7
  None = None
INVARIANTS
  ShownInsightIsOwn
  ChatIsOwn
  AnswersFitTheirInsight
PROPERTIES
  InsightStays
  PageSettles
CHECK_DEADLOCK FALSE
