CONSTANTS
  Name = {"x", "y", "_"}
  Ignored = {"_"}
  MaxDecls = 4
  MaxDepth = 5
SPECIFICATION Spec
CHECK_DEADLOCK FALSE
INVARIANT
  LoweredAgrees
