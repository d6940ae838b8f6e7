\* Four kinds of rules over one set of data, up to MaxNodes expression nodes.
CONSTANTS
  Size <- MCSize
  Mantissa <- MCMantissa
  Unit = 2
  Steps = {1, 2, 4, 8, 16, 32}
  Objects <- MCObjects
  Base <- MCBase
  Cells <- MCCells
  Addressable <- MCAddressable
  Scopes <- MCScopes
SPECIFICATION Spec
INVARIANTS DataWellTyped ReadBack ArithmeticNeverPanics OperatorsExact
PROPERTIES LocalsOwnTheirValue
CHECK_DEADLOCK FALSE
