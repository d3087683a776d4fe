SPECIFICATION Spec
CONSTANTS
  Programs <- ManyPrograms
  Builtins <- BuiltinNames
  Symbol <- Symbols
  MaxTypes = 12
INVARIANTS
  TypesAreRight
  WellTypedIsAccepted
  LossesReported
  NoHalfBuilt
  ReturnsMatch
CHECK_DEADLOCK FALSE
