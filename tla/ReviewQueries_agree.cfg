SPECIFICATION Spec
CONSTANTS
  Storage = "memory"
  Category <- MCCategory
  Keywords <- MCKeywords
  Strip <- MCStrip
  FloatText <- MCFloatText
  PageSize = 2
  PreviewRows = 1
  None = None
  Tokens <- MCTokens
  PriorityRows = 3
  KeywordRows = 2
  PacketSize = 5
  GroupOrder <- MCGroupOrder
  File <- MCFile
  Filter <- MCFilter
  Reply <- MCReply
  ToolCall <- MCToolCall
  MaxAnswers = 2
  MaxInsights = 1
INVARIANTS
  AnswersAgree
  SignatureIsScope
  SummaryAddsUp
  FiguresInRange
  PrioritiesRanked
  PacketCovers
CHECK_DEADLOCK FALSE
