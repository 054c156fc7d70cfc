SPECIFICATION Spec
CONSTANTS
  Text <- MCText
  Lower <- MCLower
  TrimSpace <- MCTrimSpace
  ParseFloat <- MCParseFloat
  FormatNumber <- MCFormatNumber
  ParseInterval <- MCParseInterval
  Registry <- MCRegistry
  Value <- Vals
  Target <- MCTarget
  Condition <- MCCondition
  Filter <- MCFilter
  Excludable <- MCExcludable
  Row <- MCRow
  Instant <- MCInstant
  Affixes <- MCAffixes
INVARIANTS MeansTheFilter ReportsFirstFault JoinsOfMentionedColumns PlaceholdersInOrder
CHECK_DEADLOCK FALSE
