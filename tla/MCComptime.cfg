CONSTANTS
  Programs <- MCPrograms
  Tapes <- MCTapes
  Limit <- MCLimit
  StackMax = 11
  FramesMax = 2
  MemMax = 4
  Fuel = 8
SPECIFICATION Spec
CHECK_DEADLOCK FALSE
INVARIANTS
  StackAsPlanned
  RunAgrees
