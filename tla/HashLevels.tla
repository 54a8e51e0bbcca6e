----------------------------- MODULE HashLevels -----------------------------
(***************************************************************************)
(* The geometry of the elastic hash table of utils/st_ht.c: how a capacity *)
(* is cut into levels, and how many probes one level is given.  Both are   *)
(* pure functions of the table's size, written here as functions on Nat.   *)
(* ST_ht_init, ST_ht_set and ST_find_slot recompute the levels on every    *)
(* call, so a wrong cut is wrong for every lookup.                         *)
(***************************************************************************)
EXTENDS Integers, Sequences

CONSTANTS
  SmallLevel,   \* ST_MAX_LVL: a level this small takes all that is left (32)
  MinLevel      \* ST_MIN_LVL: a rest this small joins the last level (4)

\* As a slip in the code: the rest is dropped instead of joined.
CutDropsRest(rem) ==
  LET size == rem - rem \div 2
  IN  IF size <= SmallLevel \/ rem - size <= MinLevel
      THEN [size |-> size, last |-> TRUE]
      ELSE [size |-> size, last |-> FALSE]

(***************************************************************************)
(* One turn of the loop of ST_build_levels_: the larger half of what is    *)
(* left, or all of it.  (The loop's own bound, n < ST_MAX_LVL - 1, is      *)
(* never met: a u32 halves at most 27 times before it reaches 32.)         *)
(***************************************************************************)
Cut(rem) ==
  LET size == rem - rem \div 2
  IN  IF size <= SmallLevel \/ rem - size <= MinLevel
      THEN [size |-> rem, last |-> TRUE]
      ELSE [size |-> size, last |-> FALSE]

LevelsFrom[start \in Nat, rem \in Nat] ==
  IF rem = 0 THEN <<>>
  ELSE LET cut == Cut(rem)
       IN  <<[start |-> start, size |-> cut.size]>>
             \o (IF cut.last THEN <<>>
                 ELSE LevelsFrom[start + cut.size, rem - cut.size])

BuildLevels(cap) == LevelsFrom[0, cap]

MaxBudget == 18   \* the whole part of 4 * log2(1 / ST_DELTA) + 0.999

(***************************************************************************)
(* ST_probe_budget for eps = free/size: the whole part of                  *)
(* 4 * log2(1/eps) + 0.999, kept within 1..MaxBudget.  It is b at most if  *)
(* 4 * log2(size/free) < b + 0.001, that is, if size^4 exceeds             *)
(* 2^b * free^4 by less than the factor 2^0.001 = 1 + 1/1442.              *)
(***************************************************************************)
BudgetOf(free, size) ==
  LET Enough(b) == size^4 - 2^b * free^4 <= (2^b * free^4) \div 1442
  IN  CHOOSE b \in 1..MaxBudget :
        /\ b = MaxBudget \/ Enough(b)
        /\ \A c \in 1..(b - 1) : ~ Enough(c)

-----------------------------------------------------------------------------
SlotsOf(level) == level.start .. level.start + level.size - 1

(***************************************************************************)
(* Every slot of the array belongs to exactly one level, and no level      *)
(* reaches past the array: ST_ht_set never writes outside ht->slots, two   *)
(* levels never share a slot, and no part of the capacity is wasted.  The  *)
(* insertion policy needs more: a level before the last is larger than     *)
(* SmallLevel, so eps2 > 0.25 speaks of a real level, and at least as      *)
(* large as everything after it.                                           *)
(***************************************************************************)
Partitions(cap) ==
  LET levels == BuildLevels(cap) IN
  /\ \A s \in 0..(cap - 1) : \E i \in DOMAIN levels : s \in SlotsOf(levels[i])
  /\ \A i \in DOMAIN levels :
       /\ SlotsOf(levels[i]) \subseteq 0..(cap - 1)
       /\ \A k \in DOMAIN levels : i # k => SlotsOf(levels[i]) \cap SlotsOf(levels[k]) = {}
       /\ i < Len(levels) => /\ levels[i].size > SmallLevel
                             /\ levels[i].size >= cap - (levels[i].start + levels[i].size)

(***************************************************************************)
(* ST_probe_budget at its numeric edges: a wholly free level (log2 of 1)   *)
(* still gets a probe, and unless the budget is at its maximum the probes  *)
(* times the free share of the level stay at least one half, so a level    *)
(* that passed the eps1 test is tried in earnest.                          *)
(***************************************************************************)
UsefulBudget(size) ==
  \A free \in 1..size :
    LET b == BudgetOf(free, size)
    IN  b \in 1..MaxBudget /\ (b = MaxBudget \/ b * free * 2 >= size)
=============================================================================
