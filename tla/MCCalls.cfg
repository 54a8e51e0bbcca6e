SPECIFICATION Spec
CONSTANTS
  ArgRegs <- MCArgRegs
  XmmRegs <- MCXmmRegs
  Words = 200
  Programs <- MCPrograms
INVARIANTS
  ArgumentsArrive
  ResultsArrive
  StackKept
CHECK_DEADLOCK FALSE
