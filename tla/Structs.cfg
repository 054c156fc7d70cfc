SPECIFICATION FairSpec
CONSTANTS
  Struct <- MCStruct
  TimeType <- MCTimeType
  Given <- MCGiven
  Extra <- MCExtra
  ToSnakeCase <- MCToSnakeCase
INVARIANTS FirstTagFault RegistryOfTheTags CursorKeysAreRead RowFitsTags
PROPERTY Started
CHECK_DEADLOCK FALSE
