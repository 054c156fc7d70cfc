\* A sort key with a display form.
CONSTANTS
  Null = Null
  Row <- PlainRow
  Field <- MCField
  Wanted <- PlainRow
  Request <- DisplayRequest
  StructColumns <- MCStructColumns
  Numeric <- MCNumeric
  Mantissa = 4
  MaxMet = 6
SPECIFICATION Spec
INVARIANTS
  CursorHoldsSortValues
CHECK_DEADLOCK FALSE
