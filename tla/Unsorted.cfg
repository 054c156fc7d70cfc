\* A limit without a sort.
CONSTANTS
  Null = Null
  Row <- PlainRow
  Field <- MCField
  Wanted <- PlainRow
  Request <- UnsortedRequest
  StructColumns <- MCStructColumns
  Numeric <- MCNumeric
  Mantissa = 4
  MaxMet = 6
SPECIFICATION Spec
INVARIANTS
  NextLeadsOn
CHECK_DEADLOCK FALSE
