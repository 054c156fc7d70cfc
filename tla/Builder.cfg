SPECIFICATION BuilderSpec
CONSTANTS
  Text <- MCText
  Lower <- MCLower
  TrimSpace <- MCTrimSpace
  ParseFloat <- None
  FormatNumber <- MCFormatNumber
  ParseInterval <- None
  Registry <- MCRegistry
  Value <- Vals
  Target <- MCTarget
  Condition <- MCCondition
  Filter <- MCFilter
  Excludable <- MCExcludable
  Row <- MCRow
  Instant <- None
  Affixes <- MCAffixes
  HavingKeys <- MCHavingKeys
  Null = Null
  SortField <- MCSortField
  Literal <- MCLiteral
  Seeks <- MCSeeks
  Calls = 3
INVARIANTS StatementInOrder WhereMeansItsParts HavingApart
CHECK_DEADLOCK FALSE
