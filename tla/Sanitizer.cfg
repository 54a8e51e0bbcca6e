CONSTANTS
  Page = 3
  FirstPage = 1
  LastPage = 9
  MaxRecords = 2
  Sizes = {0, 2, 4}
  Errnos = {1, 2}
  MaxCalls = 3
SPECIFICATION Spec
CHECK_DEADLOCK FALSE
INVARIANTS
  RangesApart
  VerdictsRight
