SPECIFICATION Spec
CONSTANTS
  Narrow = 2
  Word = 4
  Slot = 8
  Mantissa = 6
  RoundsMax = 6
  Functions <- MCFunctions
  Numbers <- MCNumbers
INVARIANTS
  NativeAgrees
  ConstantsAgree
  ComptimeAgrees
  RangeCounts
CHECK_DEADLOCK FALSE
