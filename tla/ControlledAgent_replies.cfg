SPECIFICATION Spec
CONSTANTS
  Adapter = {"direct", "langchain"}
  CallId = {"call_1", "call_2", "call_3", "x", "ghost", "rule_1"}
  GenId <- MCGenId
  NoId = NoId
  Number = {"m", "t", "1", "made up"}
  Output <- MCOutput
  IdNumbers <- MCIdNumbers
  Questions <- MCQuestions
  Plans <- MCPlans
  Answers <- MCAnswers
  Argument = {}
  MaxToolCalls = 2
INVARIANTS
  AnswerIsEvidenced
  RunsAreReported
  AdaptersAgreeOnTypedReplies
CHECK_DEADLOCK FALSE
