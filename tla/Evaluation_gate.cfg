SPECIFICATION EvalSpec
CONSTANTS
  Adapter = {"direct"}
  CallId = {"call_1", "call_2", "call_3", "x", "ghost", "rule_1"}
  GenId <- MCGenId
  NoId = NoId
  Number = {"m", "t", "1", "made up"}
  Output <- MCOutput
  IdNumbers <- MCIdNumbers
  Questions = {}
  Plans <- MCCasePlans
  Answers <- MCCaseAnswers
  Argument = {"versions"}
  MaxToolCalls = 3
  Suites <- MCSuites
  Categories = {"complex", "unknown"}
INVARIANTS
  GateIsSound
  ShippedPasses
CHECK_DEADLOCK FALSE
