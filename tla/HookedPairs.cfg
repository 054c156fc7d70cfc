SPECIFICATION Spec
CONSTANTS
  Text <- MCText
  Lower <- MCLower
  TrimSpace <- MCTrimSpace
  ParseFloat <- MCParseFloat
  FormatNumber <- MCFormatNumber
  ParseInterval <- MCParseInterval
  Registry <- MCRegistry
  Value <- Vals
  Target <- MCTarget
  Condition <- MCCondition
  Filter <- HookedPairs
  Excludable <- MCExcludable
  Row <- MCRow
  Instant <- MCInstant
  Affixes <- MCAffixes
INVARIANT HooksRunOnEveryValue
CHECK_DEADLOCK FALSE
