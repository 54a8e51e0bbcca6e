CONSTANTS
  Programs   <- MCPrograms
  Names      <- MCNames
  Primitives <- MCPrimitives
  Literals   <- MCLiterals
  Strings    <- MCStrings
  MaxErrors  = 3
SPECIFICATION Spec
CHECK_DEADLOCK FALSE
INVARIANTS
  TreesAsWritten
  FailureIsTold
  DamageIsLocal
