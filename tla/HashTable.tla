----------------------------- MODULE HashTable ------------------------------
(***************************************************************************)
(* The hash table of utils/st_ht.c.  ST_ht_get and ST_ht_delete are one    *)
(* step.  ST_ht_set may call ST_ht_grow, which calls ST_ht_set again for   *)
(* every entry of the old array, which may call ST_ht_grow again; these    *)
(* activations are the frames of a stack, and a step is one decision of    *)
(* the function on its top.  Nothing else runs while a call is active.     *)
(*                                                                         *)
(* Levels, ProbeSlot and ProbeBudget are parameters: what is proved here   *)
(* holds for every level geometry that fits the array and for every hash.  *)
(* HashLevels defines the ones of the code.                                *)
(***************************************************************************)
EXTENDS Integers, Sequences, FiniteSets

CONSTANTS
  Key,                \* key contents (ST_key_equal compares bytes)
  Value,
  NULL,               \* the key pointer of a slot never used
  TOMBSTONE,          \* ST_TOMBSTONE, left by ST_ht_delete
  NOT_FOUND,          \* the zeroed ST_ht_generic_t of an absent key
  InitCapacity,       \* what ST_ht_init allocates (8)
  Capacities,         \* bound: the capacities the table may take
  Levels(_),          \* ST_build_levels_: sequence of [start, size]
  ProbeSlot(_, _, _, _), \* ST_probe_slot: key, level, probe, level size
  ProbeBudget(_, _)   \* ST_probe_budget: free slots, level size

ASSUME SentinelsDiffer ==
  /\ NULL # TOMBSTONE
  /\ NULL \notin [key : Key, val : Value]
  /\ TOMBSTONE \notin [key : Key, val : Value]
  /\ NOT_FOUND \notin Value

ASSUME CapacitiesAreSizes ==
  /\ Capacities \subseteq Nat \ {0}
  /\ InitCapacity \in Capacities

\* GeometrySound of MCHashTable, as far as the table relies on it.
ASSUME LevelsFitArray ==
  \A c \in Capacities :
    /\ Levels(c) \in Seq([start : Nat, size : Nat \ {0}])
    /\ \A i \in DOMAIN Levels(c) : Levels(c)[i].start + Levels(c)[i].size <= c

\* The hash is reduced modulo the size of the level.
ASSUME ProbesStayInLevel ==
  \A c \in Capacities : \A i \in DOMAIN Levels(c) :
    \A k \in Key : \A j \in 0..(Levels(c)[i].size - 1) :
      ProbeSlot(k, i, j, Levels(c)[i].size) \in 0..(Levels(c)[i].size - 1)

VARIABLES
  slots,      \* ht->slots: NULL, TOMBSTONE or an entry, per index
  capacity,   \* ht->capacity
  count,      \* ht->count
  stack,      \* the active calls of ST_ht_set and ST_ht_grow, outermost first
  ret         \* what the last ST_ht_get or ST_ht_delete returned

vars == <<slots, capacity, count, stack, ret>>

-----------------------------------------------------------------------------
Entry == [key : Key, val : Value]
Cell  == Entry \cup {NULL, TOMBSTONE}

\* An ST_ht_set about to look its key up ("enter") or, the table having just
\* grown for load, about to place it ("place").
SetFrame  == [fn : {"set"}, key : Key, val : Value, pc : {"enter", "place"}]
\* An ST_ht_grow and the entries of the old array it has yet to move, each
\* with its index there.  (Nothing writes to the old array any more, so the
\* entries past the loop's counter are all that is left of it.)
GrowFrame == [fn : {"grow"}, todo : SUBSET (Nat \X Entry)]

SetCall(k, v, pc) == [fn |-> "set", key |-> k, val |-> v, pc |-> pc]
Live(tab)  == {s \in DOMAIN tab : tab[s] \in Entry}
GrowCall   == [fn |-> "grow", todo |-> {<<s, slots[s]>> : s \in Live(slots)}]
Free(s)    == slots[s] \in {NULL, TOMBSTONE}          \* ST_slot_free
Idle       == stack = <<>>
Top        == stack[Len(stack)]
Pop        == SubSeq(stack, 1, Len(stack) - 1)

\* Probe j of level i for key k, as an index into the array.
SlotAt(k, i, j) ==
  Levels(capacity)[i].start + ProbeSlot(k, i, j, Levels(capacity)[i].size)

ProbesOf(i) == 0..(Levels(capacity)[i].size - 1)

\* As a slip in the code: a tombstone ends the search like an empty slot.
ReachedNoTombs(k, i, j) ==
  \A m \in 0..(j - 1) : slots[SlotAt(k, i, m)] \notin {NULL, TOMBSTONE}

\* ST_find_slot gets to probe j of level i: NULL would have ended the level.
Reached(k, i, j) == \A m \in 0..(j - 1) : slots[SlotAt(k, i, m)] # NULL

(***************************************************************************)
(* The slots ST_find_slot can stop at for key k.  It takes the first in    *)
(* probe order; SlotKeysDiffer says there is at most one.  The empty set   *)
(* is its "not found", ht->capacity.                                       *)
(***************************************************************************)
Hits(k) ==
  {s \in Live(slots) :
     /\ slots[s].key = k
     /\ \E i \in DOMAIN Levels(capacity) : \E j \in ProbesOf(i) :
          s = SlotAt(k, i, j) /\ Reached(k, i, j)}

FindSlot(k) == CHOOSE s \in Hits(k) : TRUE

\* As a slip in the code: the entry about to be placed is not counted.
OverLoadTooLate == 100 * count > 95 * capacity

\* count + 1 > capacity * (1 - ST_DELTA)
OverLoad == 100 * (count + 1) > 95 * capacity

FreeIn(i) ==
  Cardinality({s \in 0..(Levels(capacity)[i].size - 1) :
                 Free(Levels(capacity)[i].start + s)})

(***************************************************************************)
(* What ST_ht_set tries when its loop is at level i: pairs of a level and  *)
(* a number of probes, in order.  eps1 > 0.025 and eps2 > 0.25 are written *)
(* over the integers.                                                      *)
(***************************************************************************)
TriesAt(i) ==
  LET L       == Levels(capacity)
      hasNext == i < Len(L)
      roomy1  == 40 * FreeIn(i) > L[i].size
      roomy2  == hasNext /\ 4 * FreeIn(i + 1) > L[i + 1].size
  IN  IF hasNext /\ roomy1 /\ roomy2
      THEN << <<i, ProbeBudget(FreeIn(i), L[i].size)>>, <<i + 1, L[i + 1].size>> >>
      ELSE IF hasNext /\ ~ roomy1
      THEN << <<i + 1, L[i + 1].size>> >>
      ELSE << <<i, L[i].size>> >>

\* st_try_place finds a free slot among the first b probes of level l.
CanPlace(k, l, b) == \E j \in ProbesOf(l) : j < b /\ Free(SlotAt(k, l, j))

\* The first free probe of level l is j, and it is within the budget b.
FirstFree(k, l, b, j) ==
  /\ j < b
  /\ Free(SlotAt(k, l, j))
  /\ \A m \in 0..(j - 1) : ~ Free(SlotAt(k, l, m))

TriesBefore(k, i, t) ==
  /\ \A h \in 1..(i - 1) : \A u \in DOMAIN TriesAt(h) :
       ~ CanPlace(k, TriesAt(h)[u][1], TriesAt(h)[u][2])
  /\ \A u \in 1..(t - 1) : ~ CanPlace(k, TriesAt(i)[u][1], TriesAt(i)[u][2])

NoRoom(k) ==
  \A i \in DOMAIN Levels(capacity) : \A t \in DOMAIN TriesAt(i) :
    ~ CanPlace(k, TriesAt(i)[t][1], TriesAt(i)[t][2])

-----------------------------------------------------------------------------
Init ==
  /\ capacity = InitCapacity
  /\ slots = [s \in 0..(InitCapacity - 1) |-> NULL]
  /\ count = 0
  /\ stack = <<>>
  /\ ret = NOT_FOUND

\* A user calls ST_ht_set.
Set(k, v) ==
  /\ Idle
  /\ stack' = <<SetCall(k, v, "enter")>>
  /\ UNCHANGED <<slots, capacity, count, ret>>

Get(k) ==
  /\ Idle
  /\ ret' = IF Hits(k) = {} THEN NOT_FOUND ELSE slots[FindSlot(k)].val
  /\ UNCHANGED <<slots, capacity, count, stack>>

\* As slips in the code: the slot is emptied instead of buried; the count
\* is left alone; the count goes down whether or not the key was there.
DeleteEmpties(k) ==
  /\ Idle
  /\ IF Hits(k) = {}
     THEN ret' = NOT_FOUND /\ UNCHANGED <<slots, count>>
     ELSE /\ ret' = slots[FindSlot(k)].val
          /\ slots' = [slots EXCEPT ![FindSlot(k)] = NULL]
          /\ count' = count - 1
  /\ UNCHANGED <<capacity, stack>>

DeleteKeepsCount(k) ==
  /\ Idle
  /\ IF Hits(k) = {}
     THEN ret' = NOT_FOUND /\ UNCHANGED slots
     ELSE /\ ret' = slots[FindSlot(k)].val
          /\ slots' = [slots EXCEPT ![FindSlot(k)] = TOMBSTONE]
  /\ UNCHANGED <<capacity, count, stack>>

DeleteAlwaysCounts(k) ==
  /\ Idle
  /\ IF Hits(k) = {}
     THEN ret' = NOT_FOUND /\ UNCHANGED slots
     ELSE /\ ret' = slots[FindSlot(k)].val
          /\ slots' = [slots EXCEPT ![FindSlot(k)] = TOMBSTONE]
  /\ count' = count - 1
  /\ UNCHANGED <<capacity, stack>>

Delete(k) ==
  /\ Idle
  /\ IF Hits(k) = {}
     THEN ret' = NOT_FOUND /\ UNCHANGED <<slots, count>>
     ELSE /\ ret' = slots[FindSlot(k)].val
          /\ slots' = [slots EXCEPT ![FindSlot(k)] = TOMBSTONE]
          /\ count' = count - 1
  /\ UNCHANGED <<capacity, stack>>

\* ST_ht_set found its key: the stored value is overwritten, the call returns.
Overwrite ==
  /\ ~ Idle /\ Top.fn = "set" /\ Top.pc = "enter"
  /\ Hits(Top.key) # {}
  /\ slots' = [slots EXCEPT ![FindSlot(Top.key)].val = Top.val]
  /\ stack' = Pop
  /\ UNCHANGED <<capacity, count, ret>>

\* As a slip in the code: the new array is no larger than the old one.
GrowSameSize(pc) ==
  /\ 2 * capacity \in Capacities
  /\ capacity' = capacity
  /\ slots' = [s \in 0..(capacity - 1) |-> NULL]
  /\ count' = 0
  /\ stack' = Append(Append(Pop, [Top EXCEPT !.pc = pc]), GrowCall)
  /\ UNCHANGED ret

(***************************************************************************)
(* The head of ST_ht_grow: a zeroed array of twice the capacity.  The      *)
(* caller resumes at pc when the old entries have been set again.  The     *)
(* first conjunct is the bound on the model.                               *)
(***************************************************************************)
Grow(pc) ==
  /\ 2 * capacity \in Capacities
  /\ capacity' = 2 * capacity
  /\ slots' = [s \in 0..(2 * capacity - 1) |-> NULL]
  /\ count' = 0
  /\ stack' = Append(Append(Pop, [Top EXCEPT !.pc = pc]), GrowCall)
  /\ UNCHANGED ret

\* The key is absent and the table is at its load limit.
GrowForLoad ==
  /\ ~ Idle /\ Top.fn = "set" /\ Top.pc = "enter"
  /\ Hits(Top.key) = {}
  /\ OverLoad
  /\ Grow("place")

\* The call on top is about to run the level loop.
Placing ==
  /\ ~ Idle /\ Top.fn = "set"
  /\ Top.pc = "place" \/ (Hits(Top.key) = {} /\ ~ OverLoad)

\* The first successful try of the level loop, and the call returns.
Place ==
  /\ Placing
  /\ \E i \in DOMAIN Levels(capacity) : \E t \in DOMAIN TriesAt(i) :
       /\ TriesBefore(Top.key, i, t)
       /\ LET l == TriesAt(i)[t][1]
              b == TriesAt(i)[t][2]
          IN  \E j \in ProbesOf(l) :
                /\ FirstFree(Top.key, l, b, j)
                /\ slots' = [slots EXCEPT ![SlotAt(Top.key, l, j)] =
                               [key |-> Top.key, val |-> Top.val]]
  /\ count' = count + 1
  /\ stack' = Pop
  /\ UNCHANGED <<capacity, ret>>

\* Every try of the level loop failed: grow and start ST_ht_set over.
GrowForRoom ==
  /\ Placing
  /\ NoRoom(Top.key)
  /\ Grow("enter")

\* As a slip in the code: the loop over the old array starts at 1.
RehashSkipsFirst ==
  /\ ~ Idle /\ Top.fn = "grow"
  /\ \E p \in Top.todo :
       /\ \A q \in Top.todo : p[1] <= q[1]
       /\ stack' = Append(Pop, [Top EXCEPT !.todo = @ \ {p}]) \o
                    (IF p[1] = 0 THEN <<>>
                     ELSE <<SetCall(p[2].key, p[2].val, "enter")>>)
  /\ UNCHANGED <<slots, capacity, count, ret>>

\* ST_ht_grow sets the next entry of the old array again.
Rehash ==
  /\ ~ Idle /\ Top.fn = "grow"
  /\ \E p \in Top.todo :
       /\ \A q \in Top.todo : p[1] <= q[1]
       /\ stack' = Append(Append(Pop, [Top EXCEPT !.todo = @ \ {p}]),
                          SetCall(p[2].key, p[2].val, "enter"))
  /\ UNCHANGED <<slots, capacity, count, ret>>

\* The old array is exhausted: ST_ht_grow returns.
GrowReturns ==
  /\ ~ Idle /\ Top.fn = "grow"
  /\ Top.todo = {}
  /\ stack' = Pop
  /\ UNCHANGED <<slots, capacity, count, ret>>

TableStep == \/ Overwrite \/ GrowForLoad \/ Place \/ GrowForRoom
             \/ Rehash \/ GrowReturns

Next == \/ \E k \in Key, v \in Value : Set(k, v)
        \/ \E k \in Key : Get(k)
        \/ \E k \in Key : Delete(k)
        \/ TableStep

Spec == Init /\ [][Next]_vars

\* A call of ST_ht_set keeps running until it returns.
FairSpec == Spec /\ WF_vars(TableStep)

-----------------------------------------------------------------------------
\* The types of the variables: ht->count is a u32 that must not wrap below 0.
TypeOK ==
  /\ capacity \in Capacities
  /\ slots \in [0..(capacity - 1) -> Cell]
  /\ count \in Nat
  /\ stack \in Seq(SetFrame \cup GrowFrame)
  /\ ret \in Value \cup {NOT_FOUND}

(***************************************************************************)
(* Every entry can be found again: ST_find_slot, which stops a level at    *)
(* the first empty slot, gets to the slot the entry sits in, whatever has  *)
(* been deleted, buried and re-used along its probe sequence since.        *)
(***************************************************************************)
EveryEntryFindable == \A s \in Live(slots) : s \in Hits(slots[s].key)

\* The calls of ST_ht_set and of ST_ht_grow that are active.
Setting == {n \in DOMAIN stack : stack[n].fn = "set"}
Growing == {n \in DOMAIN stack : stack[n].fn = "grow"}

SlotKeysDiffer ==
  \A s, r \in Live(slots) : slots[s].key = slots[r].key => s = r
MovingNotInSlots ==
  \A s \in Live(slots) : \A n \in Growing : \A p \in stack[n].todo :
    slots[s].key # p[2].key
MovingKeysDiffer ==
  \A n, m \in Growing : \A p \in stack[n].todo : \A q \in stack[m].todo :
    p[2].key = q[2].key => n = m /\ p = q
SettingKeysDiffer ==
  \A n, m \in Setting : stack[n].key = stack[m].key => n = m
SettingNotMoving ==
  \A n \in Setting : \A m \in Growing : \A p \in stack[m].todo :
    stack[n].key # p[2].key
SettingNotInSlots ==
  \A n \in Setting : \A s \in Live(slots) :
    stack[n].key = slots[s].key => Len(stack) = 1 /\ stack[n].pc = "enter"

(***************************************************************************)
(* A key has one home: one slot, one entry still to be moved out of an old *)
(* array, or one active ST_ht_set.  The exception is the user's own        *)
(* ST_ht_set that has yet to look its key up.  A set that overlooked an    *)
(* entry would leave a stale one behind that a later delete uncovers, and  *)
(* a rehash that met its key again would overwrite new with old.           *)
(***************************************************************************)
OneHomePerKey == /\ SlotKeysDiffer   /\ MovingNotInSlots /\ MovingKeysDiffer
                 /\ SettingKeysDiffer /\ SettingNotMoving /\ SettingNotInSlots

\* ht->count, which decides when to grow, is the number of entries, also in
\* the middle of a rehash and after deletes and re-used tombstones.
CountIsEntries == count = Cardinality(Live(slots))

\* After every call the table is at most 95% full: whatever path the call
\* took through growth and nested growth, the load test was not bypassed.
LoadBounded == Idle => 100 * count <= 95 * capacity

(***************************************************************************)
(* The map the table stands for.  While ST_ht_grow runs, an entry is in    *)
(* the new array, in the part of an old array still to be moved, or in an  *)
(* ST_ht_set called by an ST_ht_grow.  The user's own ST_ht_set, at the    *)
(* bottom of the stack, takes effect when it returns.                      *)
(***************************************************************************)
Moving == UNION {stack[n].todo : n \in Growing}

ValuesOf(k) ==
  {slots[s].val : s \in {s \in Live(slots) : slots[s].key = k}}
  \cup {p[2].val : p \in {p \in Moving : p[2].key = k}}
  \cup {stack[n].val :
          n \in {n \in Setting : n > 1 /\ stack[n].key = k}}

Dict == [k \in Key |-> IF ValuesOf(k) = {} THEN NOT_FOUND
                       ELSE CHOOSE v \in ValuesOf(k) : TRUE]

Map == INSTANCE KVMap WITH dict <- Dict, ret <- ret

\* Through growth, nested growth, tombstones and their re-use the table is
\* the map its header promises.
IsMap == Map!MapSpec

\* Every ST_ht_set returns: growing and trying again comes to an end.
SetReturns == ~ Idle ~> Idle
=============================================================================
