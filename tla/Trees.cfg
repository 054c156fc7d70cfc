SPECIFICATION FairRequestSpec
CONSTANTS
  Text <- MCText
  Lower <- MCLower
  TrimSpace <- MCTrimSpace
  ParseFloat <- None
  FormatNumber <- MCFormatNumber
  ParseInterval <- None
  Registry <- MCRegistry
  Value <- Vals
  Target <- MCTarget
  Condition <- MCCondition
  Filter <- MCFilter
  Excludable <- MCExcludable
  Row <- MCRow
  Instant <- None
  Affixes <- MCAffixes
  JoinKey <- MCJoinKey
  ValueExpr <- MCValueExpr
  Sortable = {}
  HavingKeys = {}
  Request <- MCRequest
INVARIANTS TypeOK MeansTheFilter ReportsFirstFault JoinsOfMentionedColumns PlaceholdersInOrder
  JoinsServeTheStatement LimitsHold FirstErrorAnswers ValidatedNeverFailsOnJoins
PROPERTY Answered
CHECK_DEADLOCK FALSE
