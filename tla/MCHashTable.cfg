SPECIFICATION FairSpec
CONSTANTS
  k1 = k1
  k2 = k2
  k3 = k3
  k4 = k4
  Key = {k1, k2, k3, k4}
  Value = {v1, v2}
  NULL = NULL
  TOMBSTONE = TOMBSTONE
  NOT_FOUND = NOT_FOUND
  InitCapacity = 4
  Capacities <- MCCapacities
  Levels <- MCLevels
  ProbeSlot <- MCProbeSlot
  ProbeBudget <- MCProbeBudget
INVARIANTS
  TypeOK
  EveryEntryFindable
  OneHomePerKey
  CountIsEntries
  LoadBounded
  GeometrySound
PROPERTIES
  IsMap
  SetReturns
