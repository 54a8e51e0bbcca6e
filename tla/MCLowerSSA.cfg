SPECIFICATION SSASpec
CONSTANTS
  L = L
  Label = {L}
  Profiles <- MCProfiles
INVARIANTS
  HangsInDeadLoopsOnly
  DefinedBeforeRead
CHECK_DEADLOCK FALSE
