---------------------------- MODULE MCHashTable -----------------------------
(***************************************************************************)
(* The hash table on the geometry of HashLevels with SmallLevel 2 and      *)
(* MinLevel 1: 4 slots are one level, 8 are two and 16 are three.  The     *)
(* probe sequences are chosen so that keys collide: the level loop can     *)
(* fail while slots are free, and a rehash can grow the table again.       *)
(***************************************************************************)
EXTENDS HashTable

CONSTANTS k1, k2, k3, k4

Geometry == INSTANCE HashLevels WITH SmallLevel <- 2, MinLevel <- 1

\* The geometry of the code, for all capacities up to a bound.
Real     == INSTANCE HashLevels WITH SmallLevel <- 32, MinLevel <- 4
CapBound == 200

MCCapacities == {4, 8, 16}

LevelTable  == [c \in MCCapacities |-> Geometry!BuildLevels(c)]
BudgetTable == [f \in 0..8, s \in 1..8 |->
                  IF f <= s THEN Geometry!BudgetOf(f, s) ELSE 0]

MCLevels(c) == LevelTable[c]
MCProbeBudget(free, size) == BudgetTable[free, size]

\* The probe sequences in a first level of four slots.
FirstLevel(k) == CASE k = k1 -> <<1, 0, 1, 2>> [] k = k2 -> <<1, 1, 3, 3>>
                   [] k = k3 -> <<1, 1, 1, 1>> [] OTHER  -> <<0, 2, 2, 0>>

MCProbeSlot(k, i, j, size) ==
  IF i = 1 /\ size = 4 THEN FirstLevel(k)[j + 1]
  ELSE IF size = 4 THEN (IF k = k4 THEN j ELSE 0)
  ELSE ((CASE k = k1 -> 2 [] k = k2 -> 3 [] k = k3 -> 2 [] OTHER -> 6) + j) % size

-----------------------------------------------------------------------------
RealPartitions == \A cap \in 1..CapBound : Real!Partitions(cap)
RealBudgets    == \A size \in 1..(CapBound \div 2) : Real!UsefulBudget(size)

\* What HashTable takes for granted of its geometry, and more, holds at every
\* capacity the table takes, and at every one up to a bound with the sizes of
\* the code: ST_build_levels_ cuts the array into levels that cover it once,
\* each at least as large as what comes after it, and ST_probe_budget gives
\* every level a number of probes that has an even chance to meet a free slot,
\* or the maximum.
GeometrySound ==
  /\ Geometry!Partitions(capacity) /\ RealPartitions
  /\ \A i \in DOMAIN Levels(capacity) : Geometry!UsefulBudget(Levels(capacity)[i].size)
  /\ RealBudgets
=============================================================================
