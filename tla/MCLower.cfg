SPECIFICATION Spec
CONSTANTS
  L = L
  M = M
  Label = {L, M}
  Profiles <- MCProfiles
INVARIANTS
  EdgesMatchTerminators
  OpenBlocksAccounted
  FallThroughReal
  DeferDiscipline
  DefersDieWithScope
PROPERTIES
  SealedKeepPreds
  TerminatorsFinal
SYMMETRY Symmetry
CHECK_DEADLOCK FALSE
