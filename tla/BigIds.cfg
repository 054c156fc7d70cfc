\* Identifiers a float64 does not hold.
CONSTANTS
  Null = Null
  Row <- BigRow
  Field <- MCField
  Wanted <- BigRow
  Request <- BigRequest
  StructColumns <- MCStructColumns
  Numeric <- MCNumeric
  Mantissa = 4
  MaxMet = 6
SPECIFICATION Spec
INVARIANTS
  UniqueKeyNeverRepeats
CHECK_DEADLOCK FALSE
