SPECIFICATION Spec
CONSTANTS
  Storage = "database"
  Category <- MCCategory
  Keywords <- MCKeywords
  Strip <- MCStrip
  FloatText <- MCFloatText
  PageSize = 2
  PreviewRows = 1
  None = None
  File <- MCFile
  Filter = {"all", "account"}
  Criteria <- MCCriteria
  DefaultFilter = "all"
  MaxClicks = 4
  MaxRows = 2
INVARIANTS
  RemovedRowsHaveReasons
  PoolAgreesWithSummary
  SummaryIsGiven
  ShownIsOwn
  NoFalseEmptyOnline
PROPERTIES
  NothingSkipped
  PoolSettles
CHECK_DEADLOCK FALSE
