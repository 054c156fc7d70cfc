\* Pages in order, nothing skipped, the count, the end; NULL and refusals.
CONSTANTS
  Null = Null
  Row <- MCRow
  Field <- MCField
  Wanted <- MCWanted
  Request <- MCRequest
  StructColumns <- MCStructColumns
  Numeric <- MCNumeric
  Mantissa = 4
  MaxMet = 4
SPECIFICATION FairSpec
INVARIANTS
  TypeOK
  NullsWhereAsked
  MetInOrder
  NothingSkipped
  CountAgrees
PROPERTIES
  ImplementsScan
  WalkEnds
CHECK_DEADLOCK FALSE
