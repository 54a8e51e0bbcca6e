SPECIFICATION Spec
CONSTANTS
  x = x
  y = y
  Var = {x, y}
  Profiles <- MCProfiles
INVARIANTS
  ReadsAgree
  PhisComplete
  ReadsComeBack
SYMMETRY Symmetry
CHECK_DEADLOCK FALSE
