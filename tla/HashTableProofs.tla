-------------------------- MODULE HashTableProofs ---------------------------
(***************************************************************************)
(* Proofs about HashTable for every set of keys and values, every level    *)
(* geometry that fits the array, every hash and every probe budget.        *)
(*                                                                         *)
(* The inductive invariant IInv couples what a lookup relies on            *)
(* (EveryEntryFindable) with where keys may be (OneHomePerKey): a key is   *)
(* placed because a lookup missed it, so a miss must mean absence, and a   *)
(* rehash may only place what is nowhere else.                             *)
(***************************************************************************)
EXTENDS HashTable, FiniteSetTheorems, SequenceTheorems, TLAPS

Frame == SetFrame \cup GrowFrame

-----------------------------------------------------------------------------
(* The stack of calls. *)

\* The stack under its top frame.
LEMMA PopFacts ==
  ASSUME stack \in Seq(Frame), ~ Idle
  PROVE  /\ Len(stack) \in Nat \ {0}
         /\ DOMAIN stack = 1..Len(stack)
         /\ Top \in Frame
         /\ Pop \in Seq(Frame)
         /\ Len(Pop) = Len(stack) - 1
         /\ DOMAIN Pop = 1..(Len(stack) - 1)
         /\ \A n \in 1..(Len(stack) - 1) : Pop[n] = stack[n]
<1>1. /\ Len(stack) \in Nat \ {0}
      /\ DOMAIN stack = 1..Len(stack)
      /\ \A n \in 1..Len(stack) : stack[n] \in Frame
  BY EmptySeq, LenProperties, ElementOfSeq DEF Idle
<1>2. Top \in Frame
  BY <1>1 DEF Top
<1>3. \A n \in 1..(Len(stack) - 1) : stack[n] \in Frame
  BY <1>1
<1> DEFINE m == Len(stack) - 1
<1>4. m \in Nat /\ (m = 0 \/ 1 <= m)
  BY <1>1
<1>5. /\ Pop \in Seq(Frame)
      /\ Len(Pop) = IF 1 <= m THEN m - 1 + 1 ELSE 0
      /\ \A n \in 1..(m - 1 + 1) : Pop[n] = stack[1 + n - 1]
  BY <1>1, <1>3, SubSeqProperties DEF Pop
<1> HIDE DEF m
<1>6. m - 1 + 1 = m /\ (\A n \in 1..m : 1 + n - 1 = n)
  BY <1>4
<1>7. Len(Pop) = m
  BY <1>4, <1>5, <1>6
<1>8. \A n \in 1..m : Pop[n] = stack[n]
  BY <1>5, <1>6
<1>9. DOMAIN Pop = 1..m
  BY <1>5, <1>7, LenProperties
<1> QED BY <1>1, <1>2, <1>5, <1>7, <1>8, <1>9 DEF m

\* The stack when the function on top, resuming as f, has called g.
LEMMA CallFacts ==
  ASSUME stack \in Seq(Frame), ~ Idle, NEW f \in Frame, NEW g \in Frame,
         NEW st, st = Append(Append(Pop, f), g)
  PROVE  /\ st \in Seq(Frame)
         /\ Len(st) = Len(stack) + 1
         /\ DOMAIN st = 1..(Len(stack) + 1)
         /\ \A n \in 1..(Len(stack) - 1) : st[n] = stack[n]
         /\ st[Len(stack)] = f
         /\ st[Len(stack) + 1] = g
<1> DEFINE s1 == Append(Pop, f)
<1>1. /\ Len(stack) \in Nat \ {0}
      /\ Pop \in Seq(Frame)
      /\ Len(Pop) = Len(stack) - 1
      /\ \A n \in 1..(Len(stack) - 1) : Pop[n] = stack[n]
  BY PopFacts
<1>2. /\ s1 \in Seq(Frame)
      /\ Len(s1) = Len(Pop) + 1
      /\ \A n \in 1..Len(Pop) : s1[n] = Pop[n]
      /\ s1[Len(Pop) + 1] = f
  BY <1>1, AppendProperties
<1>3. /\ st \in Seq(Frame)
      /\ Len(st) = Len(s1) + 1
      /\ \A n \in 1..Len(s1) : st[n] = s1[n]
      /\ st[Len(s1) + 1] = g
  BY <1>2, AppendProperties
<1>4. DOMAIN st = 1..Len(st)
  BY <1>3, LenProperties
<1> HIDE DEF s1
<1> QED BY <1>1, <1>2, <1>3, <1>4

\* What a frame is follows from the function it runs.
LEMMA FrameKinds ==
  ASSUME NEW f \in Frame
  PROVE  /\ f.fn = "set" => f \in SetFrame
         /\ f.fn = "grow" => f \in GrowFrame
  BY DEF Frame, SetFrame, GrowFrame

LEMMA SetFrameFacts ==
  ASSUME NEW f \in SetFrame, NEW pc \in {"enter", "place"}
  PROVE  /\ [f EXCEPT !.pc = pc] \in SetFrame
         /\ [f EXCEPT !.pc = pc].key = f.key
         /\ [f EXCEPT !.pc = pc].val = f.val
         /\ [f EXCEPT !.pc = pc].pc = pc
         /\ [f EXCEPT !.pc = pc].fn = "set"
         /\ f.key \in Key
         /\ f.val \in Value
  BY DEF SetFrame

LEMMA GrowFrameFacts ==
  ASSUME NEW f \in GrowFrame, NEW p \in f.todo
  PROVE  /\ [f EXCEPT !.todo = @ \ {p}] \in GrowFrame
         /\ [f EXCEPT !.todo = @ \ {p}].todo = f.todo \ {p}
         /\ [f EXCEPT !.todo = @ \ {p}].fn = "grow"
         /\ p[2] \in Entry
         /\ p[2].key \in Key
         /\ p[2].val \in Value
  BY DEF GrowFrame, Entry

LEMMA EntryUpdate ==
  ASSUME NEW e \in Entry, NEW v \in Value
  PROVE  /\ [e EXCEPT !.val = v] \in Entry
         /\ [e EXCEPT !.val = v].key = e.key
         /\ [e EXCEPT !.val = v].val = v
  BY DEF Entry

-----------------------------------------------------------------------------
(* The array. *)

\* A level is a part of the array.
LEMMA LevelFacts ==
  ASSUME capacity \in Capacities, NEW i \in DOMAIN Levels(capacity)
  PROVE  /\ Levels(capacity)[i].start \in Nat
         /\ Levels(capacity)[i].size \in Nat \ {0}
         /\ Levels(capacity)[i].start + Levels(capacity)[i].size <= capacity
<1> DEFINE L == Levels(capacity)[i]
<1>1. /\ Levels(capacity) \in Seq([start : Nat, size : Nat \ {0}])
      /\ L.start + L.size <= capacity
  BY LevelsFitArray
<1>2. L \in [start : Nat, size : Nat \ {0}]
  BY <1>1, LenProperties
<1> QED BY <1>1, <1>2

\* A probe is an index into the array: no write lands outside ht->slots.
LEMMA SlotInRange ==
  ASSUME capacity \in Capacities, NEW k \in Key,
         NEW i \in DOMAIN Levels(capacity), NEW j \in ProbesOf(i)
  PROVE  SlotAt(k, i, j) \in 0..(capacity - 1)
<1> DEFINE L == Levels(capacity)[i]
<1>1. /\ L.start \in Nat /\ L.size \in Nat \ {0} /\ L.start + L.size <= capacity
  BY LevelFacts
<1>2. j \in 0..(L.size - 1)
  BY DEF ProbesOf
<1>3. ProbeSlot(k, i, j, L.size) \in 0..(L.size - 1)
  BY <1>2, ProbesStayInLevel
<1>4. capacity \in Nat
  BY CapacitiesAreSizes
<1>5. SlotAt(k, i, j) = L.start + ProbeSlot(k, i, j, L.size)
  BY DEF SlotAt
<1> HIDE DEF L
<1> QED BY <1>1, <1>3, <1>4, <1>5

\* Every level ST_ht_set tries is one of the table's.
LEMMA TriesAreLevels ==
  ASSUME capacity \in Capacities,
         NEW i \in DOMAIN Levels(capacity), NEW t \in DOMAIN TriesAt(i)
  PROVE  TriesAt(i)[t][1] \in DOMAIN Levels(capacity)
<1> DEFINE L == Levels(capacity)
           b == ProbeBudget(FreeIn(i), L[i].size)
<1>1. Len(L) \in Nat /\ DOMAIN L = 1..Len(L)
  BY LevelsFitArray, LenProperties
<1>2. \/ TriesAt(i) = << <<i, b>>, <<i + 1, L[i + 1].size>> >> /\ i < Len(L)
      \/ TriesAt(i) = << <<i + 1, L[i + 1].size>> >> /\ i < Len(L)
      \/ TriesAt(i) = << <<i, L[i].size>> >>
  BY DEF TriesAt
<1> HIDE DEF b, L
<1>3. i \in 1..Len(L) /\ (i < Len(L) => i + 1 \in 1..Len(L))
  BY <1>1 DEF L
<1>4. TriesAt(i)[t][1] = i \/ (i < Len(L) /\ TriesAt(i)[t][1] = i + 1)
  BY <1>2
<1> QED BY <1>1, <1>3, <1>4 DEF L

\* A search that hits, hits an entry of the key searched for.
LEMMA FindSlotFacts ==
  ASSUME TypeOK, NEW k \in Key, Hits(k) # {}
  PROVE  /\ FindSlot(k) \in Live(slots)
         /\ FindSlot(k) \in 0..(capacity - 1)
         /\ slots[FindSlot(k)] \in Entry
         /\ slots[FindSlot(k)].key = k
<1>1. FindSlot(k) \in Hits(k)
  BY DEF FindSlot
<1> QED BY <1>1 DEF Hits, Live, TypeOK

\* Under the invariant a search that misses means that the key is absent.
LEMMA MissMeansAbsent ==
  ASSUME EveryEntryFindable, NEW k, Hits(k) = {}
  PROVE  \A s \in Live(slots) : slots[s].key # k
  BY DEF EveryEntryFindable

LEMMA LiveFinite ==
  ASSUME TypeOK
  PROVE  IsFiniteSet(Live(slots))
<1>1. Live(slots) \in SUBSET (0..(capacity - 1))
  BY DEF Live, TypeOK
<1>2. IsFiniteSet(0..(capacity - 1))
  BY FS_Interval, CapacitiesAreSizes DEF TypeOK
<1> QED BY <1>1, <1>2, FS_Subset
-----------------------------------------------------------------------------
(* Type correctness. *)

\* TypeOK with the frames as one set, the form the sequence lemmas want.
LEMMA TypeFacts ==
  ASSUME TypeOK
  PROVE  /\ stack \in Seq(Frame)
         /\ capacity \in Nat \ {0}
         /\ DOMAIN slots = 0..(capacity - 1)
  BY CapacitiesAreSizes DEF TypeOK, Frame

\* The new, empty array and the frames ST_ht_grow and its caller leave.
LEMMA GrowTyped ==
  ASSUME TypeOK, ~ Idle, Top \in SetFrame,
         NEW pc \in {"enter", "place"}, Grow(pc)
  PROVE  TypeOK'
<1>1. GrowCall \in GrowFrame
  BY TypeFacts DEF GrowCall, GrowFrame, Live
<1>2. [Top EXCEPT !.pc = pc] \in SetFrame
  BY SetFrameFacts
<1>3. stack' \in Seq(Frame)
  BY <1>1, <1>2, TypeFacts, CallFacts DEF Grow, Frame
<1>4. /\ capacity' \in Capacities
      /\ slots' \in [0..(capacity' - 1) -> Cell]
      /\ count' \in Nat
      /\ ret' \in Value \cup {NOT_FOUND}
  BY DEF Grow, TypeOK, Cell
<1> QED BY <1>3, <1>4 DEF TypeOK, Frame

\* The stack after the function on top returned.
LEMMA PopTyped ==
  ASSUME TypeOK, ~ Idle, stack' = Pop
  PROVE  stack' \in Seq(SetFrame \cup GrowFrame)
  BY TypeFacts, PopFacts DEF Frame

\* The count stays a natural number through ST_ht_delete because it counts
\* the entries: an entry found means that there was one to count.
LEMMA CountPositive ==
  ASSUME TypeOK, CountIsEntries, NEW s \in Live(slots)
  PROVE  count - 1 \in Nat
<1>1. IsFiniteSet(Live(slots)) /\ Live(slots) # {}
  BY LiveFinite
<1>2. Cardinality(Live(slots)) # 0 /\ Cardinality(Live(slots)) \in Nat
  BY <1>1, FS_EmptySet, FS_CardinalityType
<1> QED BY <1>2 DEF CountIsEntries

\* Every step of the table preserves the types.
LEMMA TypeStep ==
  ASSUME TypeOK, CountIsEntries, [Next]_vars
  PROVE  TypeOK'
<1> USE DEF TypeOK
<1>1. ASSUME NEW k \in Key, NEW v \in Value, Set(k, v)
      PROVE  TypeOK'
  <2>1. SetCall(k, v, "enter") \in SetFrame
    BY DEF SetCall, SetFrame
  <2> QED BY <1>1, <2>1 DEF Set
<1>2. ASSUME NEW k \in Key, Get(k)
      PROVE  TypeOK'
  <2>1. Hits(k) # {} => slots[FindSlot(k)].val \in Value
    BY FindSlotFacts DEF Entry
  <2> QED BY <1>2, <2>1 DEF Get
<1>3. ASSUME NEW k \in Key, Delete(k)
      PROVE  TypeOK'
  <2>1. CASE Hits(k) = {}
    BY <1>3, <2>1 DEF Delete
  <2>2. CASE Hits(k) # {}
    <3>1. slots[FindSlot(k)].val \in Value
      BY <2>2, FindSlotFacts DEF Entry
    <3>2. count - 1 \in Nat
      BY <2>2, FindSlotFacts, CountPositive
    <3> QED BY <1>3, <2>2, <3>1, <3>2 DEF Delete, Cell
  <2> QED BY <2>1, <2>2
<1>4. CASE Overwrite
  <2>1. ~ Idle /\ Top.fn = "set" /\ Hits(Top.key) # {}
    BY <1>4 DEF Overwrite
  <2>2. Top \in SetFrame
    BY <2>1, TypeFacts, PopFacts, FrameKinds
  <2>3. [slots[FindSlot(Top.key)] EXCEPT !.val = Top.val] \in Entry
    BY <2>1, <2>2, SetFrameFacts, FindSlotFacts, EntryUpdate
  <2>4. slots' \in [0..(capacity - 1) -> Cell]
    BY <1>4, <2>3 DEF Overwrite, Cell
  <2> QED BY <1>4, <2>1, <2>4, PopTyped DEF Overwrite
<1>5. CASE GrowForLoad
  <2>1. Top \in SetFrame
    BY <1>5, TypeFacts, PopFacts, FrameKinds DEF GrowForLoad
  <2> QED BY <1>5, <2>1, GrowTyped DEF GrowForLoad
<1>6. CASE GrowForRoom
  <2>1. Top \in SetFrame
    BY <1>6, TypeFacts, PopFacts, FrameKinds DEF GrowForRoom, Placing
  <2> QED BY <1>6, <2>1, GrowTyped DEF GrowForRoom, Placing
<1>7. CASE Place
  <2>1. ~ Idle /\ Top.fn = "set"
    BY <1>7 DEF Place, Placing
  <2>2. Top \in SetFrame
    BY <2>1, TypeFacts, PopFacts, FrameKinds
  <2>3. [key |-> Top.key, val |-> Top.val] \in Entry
    BY <2>2, SetFrameFacts DEF Entry
  <2>4. slots' \in [0..(capacity - 1) -> Cell]
    BY <1>7, <2>3 DEF Place, Cell
  <2> QED BY <1>7, <2>1, <2>4, PopTyped DEF Place
<1>8. CASE Rehash
  <2>1. ~ Idle /\ Top \in GrowFrame
    BY <1>8, TypeFacts, PopFacts, FrameKinds DEF Rehash
  <2>2. PICK p \in Top.todo :
          stack' = Append(Append(Pop, [Top EXCEPT !.todo = @ \ {p}]),
                          SetCall(p[2].key, p[2].val, "enter"))
    BY <1>8 DEF Rehash
  <2>3. /\ [Top EXCEPT !.todo = @ \ {p}] \in Frame
        /\ SetCall(p[2].key, p[2].val, "enter") \in Frame
    BY <2>1, GrowFrameFacts DEF Frame, SetCall, SetFrame
  <2>4. stack' \in Seq(Frame)
    <3> DEFINE a == [Top EXCEPT !.todo = @ \ {p}]
               b == SetCall(p[2].key, p[2].val, "enter")
    <3>1. Pop \in Seq(Frame)
      BY <2>1, TypeFacts, PopFacts
    <3>2. a \in Frame /\ b \in Frame /\ stack' = Append(Append(Pop, a), b)
      BY <2>2, <2>3
    <3> HIDE DEF a, b
    <3> QED
      BY ONLY <3>1, <3>2
  <2> QED BY <1>8, <2>4 DEF Rehash, Frame
<1>9. CASE GrowReturns
  BY <1>9, PopTyped DEF GrowReturns
<1>10. CASE UNCHANGED vars
  BY <1>10 DEF vars
<1> QED BY <1>1, <1>2, <1>3, <1>4, <1>5, <1>6, <1>7, <1>8, <1>9, <1>10
        DEF Next, TableStep

-----------------------------------------------------------------------------
(* The three ways a step writes to the array it keeps. *)

LEMMA OverwriteArray ==
  ASSUME TypeOK, NEW s \in Live(slots), NEW v \in Value,
         slots' = [slots EXCEPT ![s].val = v]
  PROVE  /\ Live(slots') = Live(slots)
         /\ \A r \in Live(slots) : slots'[r].key = slots[r].key
         /\ \A r \in DOMAIN slots : slots[r] # NULL => slots'[r] # NULL
         /\ slots'[s].val = v
         /\ \A r \in DOMAIN slots : r # s => slots'[r] = slots[r]
<1>1. s \in DOMAIN slots /\ slots[s] \in Entry
  BY DEF Live
<1>2. /\ slots'[s] \in Entry
      /\ slots'[s].key = slots[s].key
      /\ slots'[s].val = v
  BY <1>1, EntryUpdate DEF TypeOK
<1>3. /\ DOMAIN slots' = DOMAIN slots
      /\ \A r \in DOMAIN slots : r # s => slots'[r] = slots[r]
  BY DEF TypeOK
<1>4. Live(slots') = Live(slots)
  BY <1>1, <1>2, <1>3 DEF Live
<1> QED BY <1>1, <1>2, <1>3, <1>4, SentinelsDiffer DEF Entry, Live

LEMMA PlaceArray ==
  ASSUME TypeOK, NEW s \in DOMAIN slots, Free(s), NEW e \in Entry,
         slots' = [slots EXCEPT ![s] = e]
  PROVE  /\ s \notin Live(slots)
         /\ Live(slots') = Live(slots) \cup {s}
         /\ slots'[s] = e
         /\ \A r \in DOMAIN slots : r # s => slots'[r] = slots[r]
         /\ \A r \in DOMAIN slots : slots[r] # NULL => slots'[r] # NULL
<1>1. NULL \notin Entry /\ TOMBSTONE \notin Entry
  BY SentinelsDiffer DEF Entry
<1>2. /\ DOMAIN slots' = DOMAIN slots
      /\ slots'[s] = e
      /\ \A r \in DOMAIN slots : r # s => slots'[r] = slots[r]
  BY DEF TypeOK
<1> QED BY <1>1, <1>2 DEF Live, Free

LEMMA BuryArray ==
  ASSUME TypeOK, NEW s \in Live(slots),
         slots' = [slots EXCEPT ![s] = TOMBSTONE]
  PROVE  /\ Live(slots') = Live(slots) \ {s}
         /\ \A r \in DOMAIN slots : r # s => slots'[r] = slots[r]
         /\ \A r \in DOMAIN slots : slots[r] # NULL => slots'[r] # NULL
<1>1. TOMBSTONE \notin Entry /\ TOMBSTONE # NULL
  BY SentinelsDiffer DEF Entry
<1>2. /\ DOMAIN slots' = DOMAIN slots
      /\ \A r \in DOMAIN slots : r # s => slots'[r] = slots[r]
      /\ slots'[s] = TOMBSTONE
  BY DEF TypeOK, Live
<1> QED BY <1>1, <1>2 DEF Live

LEMMA EmptyArray ==
  ASSUME slots' = [s \in 0..(2 * capacity - 1) |-> NULL]
  PROVE  Live(slots') = {}
  BY SentinelsDiffer DEF Live, Entry

(***************************************************************************)
(* A used slot never becomes unused again, so the entries that could be    *)
(* found still can, and a new one can be if every probe before its own     *)
(* was in use.                                                             *)
(***************************************************************************)
LEMMA FindableKept ==
  ASSUME TypeOK, TypeOK', EveryEntryFindable, capacity' = capacity,
         \A s \in DOMAIN slots : slots[s] # NULL => slots'[s] # NULL,
         \A s \in Live(slots') :
           \/ s \in Live(slots) /\ slots'[s].key = slots[s].key
           \/ \E i \in DOMAIN Levels(capacity) : \E j \in ProbesOf(i) :
                /\ s = SlotAt(slots'[s].key, i, j)
                /\ Reached(slots'[s].key, i, j)
  PROVE  EveryEntryFindable'
<1> SUFFICES ASSUME NEW s \in Live(slots')
             PROVE  s \in Hits(slots[s].key)'
  BY DEF EveryEntryFindable
<1>1. PICK k \in Key : k = slots'[s].key
  BY DEF Live, Entry
<1>2. PICK i \in DOMAIN Levels(capacity) : \E j \in ProbesOf(i) :
        s = SlotAt(k, i, j) /\ Reached(k, i, j)
  <2>1. CASE s \in Live(slots) /\ slots'[s].key = slots[s].key
    BY <1>1, <2>1 DEF EveryEntryFindable, Hits
  <2> QED BY <1>1, <2>1
<1>3. PICK j \in ProbesOf(i) : s = SlotAt(k, i, j) /\ Reached(k, i, j)
  BY <1>2
<1>4. \A m \in 0..(j - 1) : SlotAt(k, i, m)' = SlotAt(k, i, m)
  BY DEF SlotAt
<1>5. \A m \in 0..(j - 1) : SlotAt(k, i, m) \in DOMAIN slots
  <2>1. \A m \in 0..(j - 1) : m \in ProbesOf(i)
    <3>1. Levels(capacity)[i].size \in Nat
      BY LevelFacts DEF TypeOK
    <3> QED BY <3>1 DEF ProbesOf
  <2> QED BY <2>1, <1>1, SlotInRange DEF TypeOK
<1>6. Reached(k, i, j)'
  BY <1>3, <1>4, <1>5 DEF Reached
<1>7. SlotAt(k, i, j)' = SlotAt(k, i, j) /\ ProbesOf(i)' = ProbesOf(i)
  BY DEF SlotAt, ProbesOf
<1> QED BY <1>1, <1>3, <1>6, <1>7 DEF Hits

-----------------------------------------------------------------------------
(* The inductive invariant. *)

IInv == TypeOK /\ CountIsEntries /\ EveryEntryFindable /\ OneHomePerKey

\* The frames left when the function on top has returned.
LEMMA PopFrames ==
  ASSUME TypeOK, ~ Idle, stack' = Pop
  PROVE  /\ Len(stack') = Len(stack) - 1
         /\ \A n \in Setting' : n \in Setting /\ n # Len(stack) /\ stack'[n] = stack[n]
         /\ \A n \in Growing' : n \in Growing /\ n # Len(stack) /\ stack'[n] = stack[n]
<1>1. /\ Len(stack) \in Nat \ {0}
      /\ DOMAIN stack = 1..Len(stack)
      /\ Len(stack') = Len(stack) - 1
      /\ DOMAIN stack' = 1..(Len(stack) - 1)
      /\ \A n \in 1..(Len(stack) - 1) : stack'[n] = stack[n]
  BY TypeFacts, PopFacts
<1> QED BY <1>1 DEF Setting, Growing

\* The frames when the function on top, resuming as f, has called g.
LEMMA CallFrames ==
  ASSUME TypeOK, ~ Idle, NEW f \in Frame, NEW g \in Frame,
         f.fn = Top.fn, stack' = Append(Append(Pop, f), g)
  PROVE  /\ Len(stack) \in Setting \cup Growing
         /\ stack'[Len(stack)] = f
         /\ stack'[Len(stack) + 1] = g
         /\ Len(stack') = Len(stack) + 1
         /\ Len(stack) \in Nat \ {0}
         /\ \A n \in Setting' \ {Len(stack) + 1} :
              n \in Setting /\ (n # Len(stack) => stack'[n] = stack[n])
         /\ \A n \in Growing' \ {Len(stack) + 1} :
              n \in Growing /\ (n # Len(stack) => stack'[n] = stack[n])
         /\ Len(stack) + 1 \in Setting' => g.fn = "set"
         /\ Len(stack) + 1 \in Growing' => g.fn = "grow"
<1>1. /\ Len(stack') = Len(stack) + 1
      /\ DOMAIN stack' = 1..(Len(stack) + 1)
      /\ \A n \in 1..(Len(stack) - 1) : stack'[n] = stack[n]
      /\ stack'[Len(stack)] = f
      /\ stack'[Len(stack) + 1] = g
  <2>1. stack \in Seq(Frame)
    BY TypeFacts
  <2>2. Len(stack') = Len(stack) + 1
    BY <2>1, CallFacts
  <2>3. DOMAIN stack' = 1..(Len(stack) + 1)
    BY <2>1, CallFacts
  <2>4. \A n \in 1..(Len(stack) - 1) : stack'[n] = stack[n]
    BY <2>1, PopFacts, CallFacts
  <2>5. stack'[Len(stack)] = f
    <3> DEFINE s1 == Append(Pop, f)
    <3>1. /\ Pop \in Seq(Frame)
          /\ Len(Pop) = Len(stack) - 1
          /\ Len(stack) \in Nat \ {0}
      BY <2>1, PopFacts
    <3>2. s1 \in Seq(Frame) /\ Len(s1) = Len(Pop) + 1 /\ s1[Len(Pop) + 1] = f
      BY <3>1, AppendProperties
    <3>3. \A n \in 1..Len(s1) : Append(s1, g)[n] = s1[n]
      BY <3>2, AppendProperties
    <3>4. Len(s1) = Len(stack) /\ s1[Len(stack)] = f /\ Len(stack) \in 1..Len(s1)
      BY <3>1, <3>2
    <3>5. stack' = Append(s1, g)
      OBVIOUS
    <3> HIDE DEF s1
    <3> QED BY <3>3, <3>4, <3>5
  <2>6. stack'[Len(stack) + 1] = g
    BY <2>1, CallFacts
  <2> QED BY <2>2, <2>3, <2>4, <2>5, <2>6
<1>2. /\ Len(stack) \in Nat \ {0}
      /\ DOMAIN stack = 1..Len(stack)
      /\ stack[Len(stack)] = Top
      /\ Top.fn \in {"set", "grow"}
  BY TypeFacts, PopFacts DEF Frame, SetFrame, GrowFrame, Top
<1>3. Len(stack) \in Setting \cup Growing
  BY <1>2 DEF Setting, Growing
<1>4. \A n \in DOMAIN stack' \ {Len(stack) + 1} :
        /\ n \in DOMAIN stack
        /\ n # Len(stack) => stack'[n] = stack[n]
        /\ stack'[n].fn = stack[n].fn
  <2> SUFFICES ASSUME NEW n \in DOMAIN stack', n # Len(stack) + 1
               PROVE  /\ n \in DOMAIN stack
                      /\ n # Len(stack) => stack'[n] = stack[n]
                      /\ stack'[n].fn = stack[n].fn
    OBVIOUS
  <2>1. n \in 1..Len(stack)
    <3>1. n \in 1..(Len(stack) + 1)
      BY <1>1
    <3> QED BY <1>2, <3>1
  <2>2. CASE n = Len(stack)
    BY <1>1, <1>2, <2>1, <2>2
  <2>3. CASE n \in 1..(Len(stack) - 1)
    BY <1>1, <1>2, <2>1, <2>3
  <2> QED BY <1>2, <2>1, <2>2, <2>3
<1>5. /\ \A n \in Setting' \ {Len(stack) + 1} :
           n \in Setting /\ (n # Len(stack) => stack'[n] = stack[n])
      /\ \A n \in Growing' \ {Len(stack) + 1} :
           n \in Growing /\ (n # Len(stack) => stack'[n] = stack[n])
  BY <1>4 DEF Setting, Growing
<1>6. /\ Len(stack) + 1 \in Setting' => g.fn = "set"
      /\ Len(stack) + 1 \in Growing' => g.fn = "grow"
  BY <1>1 DEF Setting, Growing
<1> QED BY <1>1, <1>2, <1>3, <1>5, <1>6

-----------------------------------------------------------------------------
(* Where keys may be, action by action. *)

\* A function returns and the entries keep their keys.
LEMMA HomesAfterPop ==
  ASSUME TypeOK, OneHomePerKey, ~ Idle, stack' = Pop,
         Live(slots') = Live(slots),
         \A s \in Live(slots) : slots'[s].key = slots[s].key
  PROVE  OneHomePerKey'
<1> USE PopFrames DEF OneHomePerKey
<1>1. SlotKeysDiffer'
  BY DEF SlotKeysDiffer
<1>2. MovingNotInSlots'
  BY DEF MovingNotInSlots
<1>3. MovingKeysDiffer'
  BY DEF MovingKeysDiffer
<1>4. SettingKeysDiffer'
  BY DEF SettingKeysDiffer
<1>5. SettingNotMoving'
  BY DEF SettingNotMoving
<1>6. SettingNotInSlots'
  <2> SUFFICES ASSUME NEW n \in Setting', NEW s \in Live(slots')
               PROVE  stack'[n].key # slots'[s].key
    BY DEF SettingNotInSlots
  <2>1. n \in Setting /\ n # Len(stack) /\ stack'[n] = stack[n]
    OBVIOUS
  <2>2. Len(stack) # 1
    BY <2>1, TypeFacts, LenProperties DEF Setting
  <2> QED BY <2>1, <2>2 DEF SettingNotInSlots
<1> QED BY <1>1, <1>2, <1>3, <1>4, <1>5, <1>6

\* A key absent from the array is placed in it and its ST_ht_set returns.
LEMMA HomesAfterPlace ==
  ASSUME TypeOK, OneHomePerKey, ~ Idle, Top.fn = "set", stack' = Pop,
         \A r \in Live(slots) : slots[r].key # Top.key,
         NEW s, s \notin Live(slots),
         Live(slots') = Live(slots) \cup {s},
         slots'[s].key = Top.key,
         \A r \in Live(slots) : slots'[r].key = slots[r].key
  PROVE  OneHomePerKey'
<1>1. Len(stack) \in Setting /\ stack[Len(stack)] = Top
  BY TypeFacts, PopFacts DEF Setting, Top
<1> USE <1>1, PopFrames DEF OneHomePerKey
<1>2. SlotKeysDiffer'
  BY DEF SlotKeysDiffer
<1>3. MovingNotInSlots'
  BY DEF MovingNotInSlots, SettingNotMoving
<1>4. MovingKeysDiffer'
  BY DEF MovingKeysDiffer
<1>5. SettingKeysDiffer'
  BY DEF SettingKeysDiffer
<1>6. SettingNotMoving'
  BY DEF SettingNotMoving
<1>7. SettingNotInSlots'
  <2> SUFFICES ASSUME NEW n \in Setting', NEW r \in Live(slots')
               PROVE  stack'[n].key # slots'[r].key
    BY DEF SettingNotInSlots
  <2>1. n \in Setting /\ n # Len(stack) /\ stack'[n] = stack[n]
    OBVIOUS
  <2>2. Len(stack) # 1
    BY <2>1, TypeFacts, LenProperties DEF Setting
  <2>3. CASE r = s
    BY <2>1, <2>3 DEF SettingKeysDiffer
  <2>4. CASE r \in Live(slots)
    BY <2>1, <2>2, <2>4 DEF SettingNotInSlots
  <2> QED BY <2>3, <2>4
<1> QED BY <1>2, <1>3, <1>4, <1>5, <1>6, <1>7

(***************************************************************************)
(* ST_ht_set, its key being absent, calls ST_ht_grow: what was in the      *)
(* array is now to be moved, and the array is empty.                       *)
(***************************************************************************)
LEMMA HomesAfterGrow ==
  ASSUME TypeOK, OneHomePerKey, ~ Idle, Top.fn = "set",
         \A r \in Live(slots) : slots[r].key # Top.key,
         NEW pc \in {"enter", "place"}, Grow(pc)
  PROVE  OneHomePerKey'
<1> DEFINE f == [Top EXCEPT !.pc = pc]
           N == Len(stack)
<1>1. Top \in SetFrame
  BY TypeFacts, PopFacts, FrameKinds
<1>2. GrowCall \in GrowFrame /\ GrowCall.fn = "grow"
      /\ GrowCall.todo = {<<s, slots[s]>> : s \in Live(slots)}
  BY TypeFacts DEF GrowCall, GrowFrame, Live
<1>3. f \in SetFrame /\ f.key = Top.key /\ f.fn = "set"
  BY <1>1, SetFrameFacts
<1>4. stack' = Append(Append(Pop, f), GrowCall)
  BY DEF Grow
<1>5. N \in Setting /\ stack[N] = Top
  BY TypeFacts, PopFacts DEF Setting, Top
<1> HIDE DEF f
<1>6. /\ stack'[N] = f
      /\ stack'[N + 1] = GrowCall
      /\ N \in Nat \ {0}
      /\ Len(stack') = N + 1
      /\ N + 1 \notin Setting'
      /\ \A n \in Setting' : n \in Setting /\ stack'[n].key = stack[n].key
      /\ \A n \in Growing' \ {N + 1} : n \in Growing /\ stack'[n] = stack[n]
  <2>1. /\ stack'[N] = f
        /\ stack'[N + 1] = GrowCall
        /\ N \in Nat \ {0}
        /\ Len(stack') = N + 1
        /\ N + 1 \notin Setting'
        /\ \A n \in Setting' \ {N + 1} :
             n \in Setting /\ (n # N => stack'[n] = stack[n])
        /\ \A n \in Growing' \ {N + 1} :
             n \in Growing /\ (n # N => stack'[n] = stack[n])
    BY <1>1, <1>2, <1>3, <1>4, CallFrames DEF Frame
  <2>2. N \notin Growing
    BY <1>5 DEF Growing
  <2> QED BY <1>3, <1>5, <2>1, <2>2
<1>7. Live(slots') = {}
  BY EmptyArray DEF Grow
<1>8. \A n \in Growing' : \A p \in stack'[n].todo :
        \/ n = N + 1 /\ \E s \in Live(slots) : p = <<s, slots[s]>>
        \/ n # N + 1 /\ n \in Growing /\ p \in stack[n].todo /\ stack'[n] = stack[n]
  BY <1>2, <1>6
<1>9. \A n \in Setting : \A s \in Live(slots) : stack[n].key # slots[s].key
  <2> SUFFICES ASSUME NEW n \in Setting, NEW s \in Live(slots),
                      stack[n].key = slots[s].key
               PROVE  FALSE
    OBVIOUS
  <2>1. N = 1
    BY DEF OneHomePerKey, SettingNotInSlots
  <2>2. n = N
    BY <2>1, TypeFacts, LenProperties DEF Setting
  <2> QED BY <1>5, <2>2
<1> HIDE DEF N
<1> USE DEF OneHomePerKey
<1>10. SlotKeysDiffer' /\ MovingNotInSlots' /\ SettingNotInSlots'
  BY <1>7 DEF SlotKeysDiffer, MovingNotInSlots, SettingNotInSlots
<1>11. SettingKeysDiffer'
  BY <1>6 DEF SettingKeysDiffer
<1>12. SettingNotMoving'
  BY <1>6, <1>8, <1>9 DEF SettingNotMoving
<1>13. MovingKeysDiffer'
  <2> SUFFICES ASSUME NEW n \in Growing', NEW m \in Growing',
                      NEW p \in stack'[n].todo, NEW q \in stack'[m].todo,
                      p[2].key = q[2].key
               PROVE  n = m /\ p = q
    BY DEF MovingKeysDiffer
  <2>1. CASE n = N + 1 /\ m = N + 1
    BY <1>8, <2>1 DEF SlotKeysDiffer
  <2>2. CASE n = N + 1 /\ m # N + 1
    BY <1>8, <2>2 DEF MovingNotInSlots
  <2>3. CASE n # N + 1 /\ m = N + 1
    BY <1>8, <2>3 DEF MovingNotInSlots
  <2>4. CASE n # N + 1 /\ m # N + 1
    BY <1>8, <2>4 DEF MovingKeysDiffer
  <2> QED BY <2>1, <2>2, <2>3, <2>4
<1> QED BY <1>10, <1>11, <1>12, <1>13

\* ST_ht_grow hands the next entry of the old array to ST_ht_set.
LEMMA HomesAfterRehash ==
  ASSUME TypeOK, OneHomePerKey, Rehash
  PROVE  OneHomePerKey'
<1> DEFINE N == Len(stack)
<1>1. ~ Idle /\ Top \in GrowFrame /\ Top.fn = "grow"
  BY TypeFacts, PopFacts, FrameKinds DEF Rehash
<1>2. PICK p \in Top.todo :
        stack' = Append(Append(Pop, [Top EXCEPT !.todo = @ \ {p}]),
                        SetCall(p[2].key, p[2].val, "enter"))
  BY DEF Rehash
<1> DEFINE f == [Top EXCEPT !.todo = @ \ {p}]
           g == SetCall(p[2].key, p[2].val, "enter")
<1>3. /\ f \in GrowFrame /\ f.fn = "grow" /\ f.todo = Top.todo \ {p}
      /\ g \in SetFrame /\ g.fn = "set" /\ g.key = p[2].key
  BY <1>1, GrowFrameFacts DEF SetCall, SetFrame
<1>4. N \in Growing /\ stack[N] = Top
  BY <1>1, TypeFacts, PopFacts DEF Growing, Top
<1> HIDE DEF f, g
<1>5. /\ stack'[N] = f
      /\ stack'[N + 1] = g
      /\ N \in Nat \ {0}
      /\ Len(stack') = N + 1
      /\ N + 1 \notin Growing'
      /\ \A n \in Setting' \ {N + 1} :
           n \in Setting /\ (n # N => stack'[n] = stack[n])
      /\ \A n \in Growing' \ {N + 1} :
           n \in Growing /\ (n # N => stack'[n] = stack[n])
  BY <1>1, <1>2, <1>3, CallFrames DEF Frame, f, g
<1>6. N \notin Setting
  BY <1>1, <1>4 DEF Setting
<1>7. slots' = slots /\ Live(slots') = Live(slots)
  BY DEF Rehash
<1>8. \A n \in Growing' : n \in Growing /\ stack'[n].todo \subseteq stack[n].todo
                          /\ (n = N => p \notin stack'[n].todo)
  BY <1>3, <1>4, <1>5
<1>9. \A n \in Setting' :
        \/ n = N + 1 /\ stack'[n].key = p[2].key
        \/ n # N + 1 /\ n \in Setting /\ stack'[n] = stack[n]
  BY <1>3, <1>5, <1>6
<1>10. N \in Growing /\ p \in stack[N].todo
  BY <1>4
<1>11. Len(stack) # 1 \/ \A n \in Setting' : n = N + 1
  <2>1. Setting \subseteq 1..N
    BY TypeFacts, LenProperties DEF Setting
  <2> SUFFICES ASSUME N = 1, NEW n \in Setting'
               PROVE  n = N + 1
    OBVIOUS
  <2>2. Setting = {}
    BY <1>6, <2>1
  <2> QED BY <1>9, <2>2
<1> HIDE DEF N
<1> USE DEF OneHomePerKey
<1>12. SlotKeysDiffer'
  BY <1>7 DEF SlotKeysDiffer
<1>13. MovingNotInSlots'
  BY <1>7, <1>8 DEF MovingNotInSlots
<1>14. MovingKeysDiffer'
  BY <1>8 DEF MovingKeysDiffer
<1>15. SettingKeysDiffer'
  BY <1>9, <1>10 DEF SettingKeysDiffer, SettingNotMoving
<1>16. SettingNotMoving'
  BY <1>8, <1>9, <1>10 DEF SettingNotMoving, MovingKeysDiffer
<1>17. SettingNotInSlots'
  BY <1>7, <1>9, <1>10, <1>11 DEF SettingNotInSlots, MovingNotInSlots
<1> QED BY <1>12, <1>13, <1>14, <1>15, <1>16, <1>17

\* The level loop runs only for a key that is not in the array.
LEMMA PlacingMeansAbsent ==
  ASSUME IInv, Placing
  PROVE  \A s \in Live(slots) : slots[s].key # Top.key
<1>1. CASE Hits(Top.key) = {}
  BY <1>1, MissMeansAbsent DEF IInv
<1>2. CASE Top.pc = "place"
  <2>1. Len(stack) \in Setting /\ stack[Len(stack)] = Top
    BY TypeFacts, PopFacts DEF IInv, Setting, Top, Placing
  <2> QED BY <1>2, <2>1 DEF IInv, OneHomePerKey, SettingNotInSlots
<1> QED BY <1>1, <1>2 DEF Placing

\* st_try_place writes one entry into one free slot of the array, at a probe
\* of the key before which every probe is in use.
LEMMA PlaceWrites ==
  ASSUME TypeOK, Place, Top \in SetFrame
  PROVE  \E s \in DOMAIN slots :
           /\ Free(s)
           /\ slots' = [slots EXCEPT ![s] = [key |-> Top.key, val |-> Top.val]]
           /\ \E i \in DOMAIN Levels(capacity) : \E j \in ProbesOf(i) :
                s = SlotAt(Top.key, i, j) /\ Reached(Top.key, i, j)
<1>1. PICK i \in DOMAIN Levels(capacity) : \E t \in DOMAIN TriesAt(i) :
        \E j \in ProbesOf(TriesAt(i)[t][1]) :
          /\ FirstFree(Top.key, TriesAt(i)[t][1], TriesAt(i)[t][2], j)
          /\ slots' = [slots EXCEPT ![SlotAt(Top.key, TriesAt(i)[t][1], j)] =
                         [key |-> Top.key, val |-> Top.val]]
  BY DEF Place
<1>2. PICK t \in DOMAIN TriesAt(i) : \E l :
        /\ l = TriesAt(i)[t][1]
        /\ \E j \in ProbesOf(l) :
             /\ FirstFree(Top.key, l, TriesAt(i)[t][2], j)
             /\ slots' = [slots EXCEPT ![SlotAt(Top.key, l, j)] =
                            [key |-> Top.key, val |-> Top.val]]
  BY <1>1
<1>3. PICK l : \E j \in ProbesOf(l) :
        /\ l = TriesAt(i)[t][1]
        /\ FirstFree(Top.key, l, TriesAt(i)[t][2], j)
        /\ slots' = [slots EXCEPT ![SlotAt(Top.key, l, j)] =
                       [key |-> Top.key, val |-> Top.val]]
  BY <1>2
<1>4. PICK j \in ProbesOf(l) :
        /\ FirstFree(Top.key, l, TriesAt(i)[t][2], j)
        /\ slots' = [slots EXCEPT ![SlotAt(Top.key, l, j)] =
                       [key |-> Top.key, val |-> Top.val]]
  BY <1>3
<1>5. l \in DOMAIN Levels(capacity)
  BY <1>3, TriesAreLevels DEF TypeOK
<1>6. SlotAt(Top.key, l, j) \in DOMAIN slots
  BY <1>5, SlotInRange, SetFrameFacts DEF TypeOK
<1>7. Free(SlotAt(Top.key, l, j)) /\ Reached(Top.key, l, j)
  BY <1>4 DEF FirstFree, Reached, Free
<1> QED BY <1>4, <1>5, <1>6, <1>7

\* Every step keeps one home per key.
LEMMA HomesStep ==
  ASSUME IInv, TypeOK', [Next]_vars
  PROVE  OneHomePerKey'
<1> USE DEF IInv
<1>1. ASSUME NEW k \in Key, NEW v \in Value, Set(k, v)
      PROVE  OneHomePerKey'
  <2>1. /\ Len(stack') = 1 /\ DOMAIN stack' = {1}
        /\ stack'[1].fn = "set" /\ stack'[1].pc = "enter"
        /\ slots' = slots
    BY <1>1 DEF Set, SetCall
  <2>2. Growing' = {} /\ Setting' = {1}
    BY <2>1 DEF Growing, Setting
  <2> QED BY <2>1, <2>2 DEF OneHomePerKey, SlotKeysDiffer, MovingNotInSlots,
             MovingKeysDiffer, SettingKeysDiffer, SettingNotMoving, SettingNotInSlots
<1>2. ASSUME NEW k \in Key, Get(k)
      PROVE  OneHomePerKey'
  BY <1>2 DEF Get, OneHomePerKey, SlotKeysDiffer, MovingNotInSlots, Growing, Setting,
              MovingKeysDiffer, SettingKeysDiffer, SettingNotMoving, SettingNotInSlots
<1>3. ASSUME NEW k \in Key, Delete(k)
      PROVE  OneHomePerKey'
  <2>1. Live(slots') \subseteq Live(slots)
        /\ \A s \in Live(slots') : slots'[s] = slots[s]
    <3>1. CASE Hits(k) = {}
      BY <1>3, <3>1 DEF Delete
    <3>2. CASE Hits(k) # {}
      BY <1>3, <3>2, FindSlotFacts, BuryArray DEF Delete, Live
    <3> QED BY <3>1, <3>2
  <2>2. stack' = stack /\ stack = <<>>
    BY <1>3 DEF Delete, Idle
  <2>3. Growing' = {} /\ Setting' = {}
    BY <2>2 DEF Growing, Setting
  <2> QED BY <2>1, <2>3 DEF OneHomePerKey, SlotKeysDiffer, MovingNotInSlots,
             MovingKeysDiffer, SettingKeysDiffer, SettingNotMoving, SettingNotInSlots
<1>4. CASE Overwrite
  <2>1. /\ ~ Idle /\ stack' = Pop /\ Hits(Top.key) # {}
        /\ slots' = [slots EXCEPT ![FindSlot(Top.key)].val = Top.val]
        /\ Top \in SetFrame
    BY <1>4, TypeFacts, PopFacts, FrameKinds DEF Overwrite
  <2>2. /\ Live(slots') = Live(slots)
        /\ \A s \in Live(slots) : slots'[s].key = slots[s].key
    BY <2>1, SetFrameFacts, FindSlotFacts, OverwriteArray
  <2> QED BY <2>1, <2>2, HomesAfterPop
<1>5. CASE GrowForLoad
  <2>1. ~ Idle /\ Top.fn = "set" /\ Hits(Top.key) = {} /\ Grow("place")
    BY <1>5 DEF GrowForLoad
  <2> QED BY <2>1, MissMeansAbsent, HomesAfterGrow
<1>6. CASE GrowForRoom
  <2>1. Placing /\ Grow("enter")
    BY <1>6 DEF GrowForRoom
  <2> QED BY <2>1, PlacingMeansAbsent, HomesAfterGrow DEF Placing
<1>7. CASE Place
  <2>1. /\ Placing /\ ~ Idle /\ Top.fn = "set" /\ stack' = Pop /\ Top \in SetFrame
    BY <1>7, TypeFacts, PopFacts, FrameKinds DEF Place, Placing
  <2>2. PICK s \in DOMAIN slots :
          /\ Free(s)
          /\ slots' = [slots EXCEPT ![s] = [key |-> Top.key, val |-> Top.val]]
    BY <1>7, <2>1, PlaceWrites
  <2>3. [key |-> Top.key, val |-> Top.val] \in Entry
    BY <2>1, SetFrameFacts DEF Entry
  <2>4. /\ s \notin Live(slots)
        /\ Live(slots') = Live(slots) \cup {s}
        /\ slots'[s].key = Top.key
        /\ \A r \in Live(slots) : slots'[r].key = slots[r].key
    BY <2>2, <2>3, PlaceArray DEF Live
  <2> QED BY <2>1, <2>4, PlacingMeansAbsent, HomesAfterPlace
<1>8. CASE Rehash
  BY <1>8, HomesAfterRehash
<1>9. CASE GrowReturns
  BY <1>9, HomesAfterPop DEF GrowReturns
<1>10. CASE UNCHANGED vars
  BY <1>10 DEF vars, OneHomePerKey, SlotKeysDiffer, MovingNotInSlots, Growing, Setting,
              MovingKeysDiffer, SettingKeysDiffer, SettingNotMoving, SettingNotInSlots
<1> QED BY <1>1, <1>2, <1>3, <1>4, <1>5, <1>6, <1>7, <1>8, <1>9, <1>10
        DEF Next, TableStep

\* Every step leaves every entry where a lookup finds it.
LEMMA FindableStep ==
  ASSUME IInv, TypeOK', [Next]_vars
  PROVE  EveryEntryFindable'
<1> USE DEF IInv
<1>1. ASSUME UNCHANGED <<slots, capacity>>
      PROVE  EveryEntryFindable'
  BY <1>1, FindableKept
<1>2. ASSUME NEW k \in Key, Delete(k)
      PROVE  EveryEntryFindable'
  <2>1. CASE Hits(k) = {}
    BY <1>1, <1>2, <2>1 DEF Delete
  <2>2. CASE Hits(k) # {}
    <3>1. /\ capacity' = capacity
          /\ Live(slots') \subseteq Live(slots)
          /\ \A s \in Live(slots') : slots'[s] = slots[s]
          /\ \A s \in DOMAIN slots : slots[s] # NULL => slots'[s] # NULL
      BY <1>2, <2>2, FindSlotFacts, BuryArray DEF Delete, Live
    <3> QED BY <3>1, FindableKept
  <2> QED BY <2>1, <2>2
<1>3. CASE Overwrite
  <2>1. /\ Hits(Top.key) # {} /\ capacity' = capacity
        /\ slots' = [slots EXCEPT ![FindSlot(Top.key)].val = Top.val]
        /\ Top \in SetFrame
    BY <1>3, TypeFacts, PopFacts, FrameKinds DEF Overwrite
  <2>2. /\ Live(slots') = Live(slots)
        /\ \A s \in Live(slots) : slots'[s].key = slots[s].key
        /\ \A s \in DOMAIN slots : slots[s] # NULL => slots'[s] # NULL
    BY <2>1, SetFrameFacts, FindSlotFacts, OverwriteArray
  <2> QED BY <2>1, <2>2, FindableKept
<1>4. ASSUME NEW pc \in {"enter", "place"}, Grow(pc)
      PROVE  EveryEntryFindable'
  <2>1. Live(slots') = {}
    BY <1>4, EmptyArray DEF Grow
  <2> QED BY <2>1 DEF EveryEntryFindable
<1>5. CASE Place
  <2>1. Top \in SetFrame /\ capacity' = capacity
    BY <1>5, TypeFacts, PopFacts, FrameKinds DEF Place, Placing
  <2>2. PICK s \in DOMAIN slots :
          /\ Free(s)
          /\ slots' = [slots EXCEPT ![s] = [key |-> Top.key, val |-> Top.val]]
          /\ \E i \in DOMAIN Levels(capacity) : \E j \in ProbesOf(i) :
               s = SlotAt(Top.key, i, j) /\ Reached(Top.key, i, j)
    BY <1>5, <2>1, PlaceWrites
  <2>3. [key |-> Top.key, val |-> Top.val] \in Entry
    BY <2>1, SetFrameFacts DEF Entry
  <2>4. /\ Live(slots') = Live(slots) \cup {s}
        /\ slots'[s].key = Top.key
        /\ \A r \in DOMAIN slots : r # s => slots'[r] = slots[r]
        /\ \A r \in DOMAIN slots : slots[r] # NULL => slots'[r] # NULL
        /\ s \notin Live(slots)
    BY <2>2, <2>3, PlaceArray
  <2>5. \A r \in Live(slots) : slots'[r].key = slots[r].key
    BY <2>4 DEF Live
  <2> QED BY <2>1, <2>2, <2>4, <2>5, FindableKept
<1>6. ASSUME NEW k \in Key, (\E v \in Value : Set(k, v)) \/ Get(k)
      PROVE  EveryEntryFindable'
  BY <1>1, <1>6 DEF Set, Get
<1>7. CASE Rehash \/ GrowReturns \/ UNCHANGED vars
  BY <1>1, <1>7 DEF Rehash, GrowReturns, vars
<1> QED BY <1>2, <1>3, <1>4, <1>5, <1>6, <1>7
        DEF Next, TableStep, GrowForLoad, GrowForRoom

\* Every step leaves ht->count the number of entries.
LEMMA CountStep ==
  ASSUME IInv, TypeOK', [Next]_vars
  PROVE  CountIsEntries'
<1> USE LiveFinite DEF IInv, CountIsEntries
<1>1. ASSUME UNCHANGED <<slots, count>>
      PROVE  CountIsEntries'
  BY <1>1
<1>2. ASSUME NEW k \in Key, Delete(k)
      PROVE  CountIsEntries'
  <2>1. CASE Hits(k) = {}
    BY <1>1, <1>2, <2>1 DEF Delete
  <2>2. CASE Hits(k) # {}
    <3>1. /\ FindSlot(k) \in Live(slots)
          /\ Live(slots') = Live(slots) \ {FindSlot(k)}
          /\ count' = count - 1
      BY <1>2, <2>2, FindSlotFacts, BuryArray DEF Delete
    <3> QED BY <3>1, FS_RemoveElement
  <2> QED BY <2>1, <2>2
<1>3. CASE Overwrite
  <2>1. /\ Hits(Top.key) # {} /\ count' = count
        /\ slots' = [slots EXCEPT ![FindSlot(Top.key)].val = Top.val]
        /\ Top \in SetFrame
    BY <1>3, TypeFacts, PopFacts, FrameKinds DEF Overwrite
  <2>2. Live(slots') = Live(slots)
    BY <2>1, SetFrameFacts, FindSlotFacts, OverwriteArray
  <2> QED BY <2>1, <2>2
<1>4. ASSUME NEW pc \in {"enter", "place"}, Grow(pc)
      PROVE  CountIsEntries'
  BY <1>4, EmptyArray, FS_EmptySet DEF Grow
<1>5. CASE Place
  <2>1. Top \in SetFrame /\ count' = count + 1
    BY <1>5, TypeFacts, PopFacts, FrameKinds DEF Place, Placing
  <2>2. PICK s \in DOMAIN slots :
          /\ Free(s)
          /\ slots' = [slots EXCEPT ![s] = [key |-> Top.key, val |-> Top.val]]
    BY <1>5, <2>1, PlaceWrites
  <2>3. [key |-> Top.key, val |-> Top.val] \in Entry
    BY <2>1, SetFrameFacts DEF Entry
  <2>4. Live(slots') = Live(slots) \cup {s} /\ s \notin Live(slots)
    BY <2>2, <2>3, PlaceArray
  <2> QED BY <2>1, <2>4, FS_AddElement
<1>6. ASSUME NEW k \in Key, (\E v \in Value : Set(k, v)) \/ Get(k)
      PROVE  CountIsEntries'
  BY <1>1, <1>6 DEF Set, Get
<1>7. CASE Rehash \/ GrowReturns \/ UNCHANGED vars
  BY <1>1, <1>7 DEF Rehash, GrowReturns, vars
<1> QED BY <1>2, <1>3, <1>4, <1>5, <1>6, <1>7
        DEF Next, TableStep, GrowForLoad, GrowForRoom

-----------------------------------------------------------------------------
(* The theorems. *)

LEMMA InitInv == Init => IInv
<1> SUFFICES ASSUME Init PROVE IInv
  OBVIOUS
<1>1. TypeOK
  BY CapacitiesAreSizes DEF Init, TypeOK, Cell
<1>2. Live(slots) = {} /\ Setting = {} /\ Growing = {}
  BY SentinelsDiffer DEF Init, Live, Entry, Setting, Growing
<1>3. CountIsEntries
  BY <1>2, FS_EmptySet DEF Init, CountIsEntries
<1>4. EveryEntryFindable /\ OneHomePerKey
  BY <1>2 DEF EveryEntryFindable, OneHomePerKey, SlotKeysDiffer, MovingNotInSlots,
     MovingKeysDiffer, SettingKeysDiffer, SettingNotMoving, SettingNotInSlots
<1> QED BY <1>1, <1>3, <1>4 DEF IInv

LEMMA StepInv == IInv /\ [Next]_vars => IInv'
<1> SUFFICES ASSUME IInv, [Next]_vars PROVE IInv'
  OBVIOUS
<1>1. TypeOK'
  BY TypeStep DEF IInv
<1> QED BY <1>1, HomesStep, FindableStep, CountStep DEF IInv

\* For every hash and every level geometry: the invariant of the table holds
\* through every sequence of sets, gets, deletes and (nested) growth.
THEOREM InvariantHolds == Spec => []IInv
  BY InitInv, StepInv, PTL DEF Spec

\* The table's fields keep their types, its indices stay in the array.
THEOREM TypeCorrect == Spec => []TypeOK
<1>1. IInv => TypeOK
  BY DEF IInv
<1> QED BY <1>1, InvariantHolds, PTL

\* No sequence of calls of ST_ht_set and ST_ht_delete loses an entry.
THEOREM EntriesFindable == Spec => []EveryEntryFindable
<1>1. IInv => EveryEntryFindable
  BY DEF IInv
<1> QED BY <1>1, InvariantHolds, PTL

\* No sequence of calls leaves two copies of a key, not even mid-rehash.
THEOREM KeysUnique == Spec => []OneHomePerKey
<1>1. IInv => OneHomePerKey
  BY DEF IInv
<1> QED BY <1>1, InvariantHolds, PTL

\* ht->count is exact at every moment, so the load test means what it says.
THEOREM CountExact == Spec => []CountIsEntries
<1>1. IInv => CountIsEntries
  BY DEF IInv
<1> QED BY <1>1, InvariantHolds, PTL

-----------------------------------------------------------------------------
(***************************************************************************)
(* The proofs that HashTable implements KVMap and that its load stays      *)
(* bounded, for every set of keys and values, every hash and every level   *)
(* geometry.                                                               *)
(*                                                                         *)
(* A key is bound by a slot, by an entry of a half-moved array or by a set *)
(* of a rehash.  By OneHomePerKey only one of them binds it, so a step     *)
(* implements a step of the map as soon as it has the right effect on the  *)
(* set of bindings, and the many steps of a growth only move them about.   *)
(***************************************************************************)

InSlots(k, v) == \E s \in Live(slots) : slots[s].key = k /\ slots[s].val = v
InMoving(k, v) == \E n \in Growing : \E p \in stack[n].todo :
                    p[2].key = k /\ p[2].val = v
InSetting(k, v) == \E n \in Setting : n > 1 /\ stack[n].key = k /\ stack[n].val = v

\* The values of a key, by where they are.
LEMMA ValuesAre ==
  ASSUME NEW k, NEW v
  PROVE  v \in ValuesOf(k) <=> InSlots(k, v) \/ InMoving(k, v) \/ InSetting(k, v)
<1>1. (\E p \in Moving : p[2].key = k /\ p[2].val = v) <=> InMoving(k, v)
  BY DEF Moving, InMoving
<1> QED BY <1>1 DEF ValuesOf, InSlots, InSetting

LEMMA ValuesAreNext ==
  ASSUME NEW k, NEW v
  PROVE  v \in ValuesOf(k)' <=> InSlots(k, v)' \/ InMoving(k, v)' \/ InSetting(k, v)'
<1>1. (\E p \in Moving' : p[2].key = k /\ p[2].val = v) <=> InMoving(k, v)'
  BY DEF Moving, InMoving
<1> QED BY <1>1 DEF ValuesOf, InSlots, InSetting

\* A key has at most one value: no entry shadows another.
LEMMA OneValue ==
  ASSUME TypeOK, OneHomePerKey, NEW k, NEW v \in ValuesOf(k), NEW w \in ValuesOf(k)
  PROVE  v = w
<1> USE DEF OneHomePerKey
<1>1. \A n \in Setting : n > 1 => Len(stack) # 1
  BY TypeFacts, LenProperties DEF Setting
<1>2. ASSUME NEW a, NEW b, InSlots(k, a), InMoving(k, b)
      PROVE  FALSE
  BY <1>2 DEF InSlots, InMoving, MovingNotInSlots
<1>3. ASSUME NEW a, NEW b, InSlots(k, a), InSetting(k, b)
      PROVE  FALSE
  BY <1>1, <1>3 DEF InSlots, InSetting, SettingNotInSlots
<1>4. ASSUME NEW a, NEW b, InMoving(k, a), InSetting(k, b)
      PROVE  FALSE
  BY <1>4 DEF InMoving, InSetting, SettingNotMoving
<1>5. ASSUME InSlots(k, v), InSlots(k, w)
      PROVE  v = w
  BY <1>5 DEF InSlots, SlotKeysDiffer
<1>6. ASSUME InMoving(k, v), InMoving(k, w)
      PROVE  v = w
  BY <1>6 DEF InMoving, MovingKeysDiffer
<1>7. ASSUME InSetting(k, v), InSetting(k, w)
      PROVE  v = w
  BY <1>7 DEF InSetting, SettingKeysDiffer
<1> QED BY <1>2, <1>3, <1>4, <1>5, <1>6, <1>7, ValuesAre

\* What the map says of a key with these values.
TheValue(V) == IF V = {} THEN NOT_FOUND ELSE CHOOSE v \in V : TRUE

LEMMA DictIs == Dict = [k \in Key |-> TheValue(ValuesOf(k))]
  BY DEF Dict, TheValue

LEMMA TheValueIs ==
  ASSUME NEW V, NEW v \in V, \A w \in V : w = v
  PROVE  TheValue(V) = v
<1>1. (CHOOSE w \in V : TRUE) \in V
  OBVIOUS
<1> QED BY <1>1 DEF TheValue

\* What the map binds a key to.
LEMMA DictBinds ==
  ASSUME TypeOK, OneHomePerKey, NEW k \in Key, NEW v \in ValuesOf(k)
  PROVE  Dict[k] = v
<1>1. TheValue(ValuesOf(k)) = v
  BY OneValue, TheValueIs
<1> QED BY <1>1, DictIs

LEMMA DictMisses ==
  ASSUME NEW k \in Key, ValuesOf(k) = {}
  PROVE  Dict[k] = NOT_FOUND
  BY DictIs DEF TheValue

\* The bindings are the same, so the map is.
LEMMA DictKept ==
  ASSUME \A k \in Key : \A v : v \in ValuesOf(k)' <=> v \in ValuesOf(k)
  PROVE  Dict' = Dict
<1>1. \A k \in Key : ValuesOf(k)' = ValuesOf(k)
  OBVIOUS
<1>2. Dict' = [k \in Key |-> TheValue(ValuesOf(k)')]
  BY DEF Dict, TheValue
<1> QED BY <1>1, <1>2, DictIs

\* One key is bound anew and the other bindings are the same.
LEMMA DictSet ==
  ASSUME NEW k \in Key, NEW v, \A w : w \in ValuesOf(k)' <=> w = v,
         \A j \in Key \ {k} : \A w : w \in ValuesOf(j)' <=> w \in ValuesOf(j)
  PROVE  Dict' = [Dict EXCEPT ![k] = v]
<1>1. TheValue(ValuesOf(k)') = v
  BY TheValueIs
<1>2. \A j \in Key \ {k} : ValuesOf(j)' = ValuesOf(j)
  OBVIOUS
<1>3. Dict' = [j \in Key |-> TheValue(ValuesOf(j)')]
  BY DEF Dict, TheValue
<1> QED BY <1>1, <1>2, <1>3, DictIs

-----------------------------------------------------------------------------
(* The frames of the stack, exactly. *)

\* The frames left when the function on top has returned.
LEMMA PopExact ==
  ASSUME TypeOK, ~ Idle, stack' = Pop
  PROVE  /\ Len(stack) \in Setting \cup Growing /\ stack[Len(stack)] = Top
         /\ Setting' = Setting \ {Len(stack)} /\ Growing' = Growing \ {Len(stack)}
         /\ \A n \in Setting' \cup Growing' : stack'[n] = stack[n]
<1>1. /\ Len(stack) \in Nat \ {0}
      /\ DOMAIN stack = 1..Len(stack)
      /\ DOMAIN stack' = 1..(Len(stack) - 1)
      /\ \A n \in 1..(Len(stack) - 1) : stack'[n] = stack[n]
  BY TypeFacts, PopFacts
<1>2. stack[Len(stack)] = Top /\ Top.fn \in {"set", "grow"}
  BY TypeFacts, PopFacts DEF Frame, SetFrame, GrowFrame, Top
<1>3. DOMAIN stack' = DOMAIN stack \ {Len(stack)}
  BY <1>1
<1> QED BY <1>1, <1>2, <1>3 DEF Setting, Growing

\* The frames when the function on top, resuming as f, has called g.
LEMMA CallExact ==
  ASSUME TypeOK, ~ Idle, NEW f \in Frame, NEW g \in Frame,
         f.fn = Top.fn, stack' = Append(Append(Pop, f), g)
  PROVE  /\ Len(stack) \in Setting \cup Growing /\ stack[Len(stack)] = Top
         /\ Len(stack) + 1 > 1 /\ Len(stack) + 1 \notin Setting \cup Growing
         /\ stack'[Len(stack)] = f /\ stack'[Len(stack) + 1] = g
         /\ Setting' = Setting \cup (IF g.fn = "set" THEN {Len(stack) + 1} ELSE {})
         /\ Growing' = Growing \cup (IF g.fn = "grow" THEN {Len(stack) + 1} ELSE {})
         /\ \A n \in (Setting \cup Growing) \ {Len(stack)} : stack'[n] = stack[n]
<1> DEFINE N == Len(stack)
<1>1. /\ N \in Nat \ {0}
      /\ DOMAIN stack = 1..N
      /\ stack[N] = Top /\ Top.fn \in {"set", "grow"}
  BY TypeFacts, PopFacts DEF Frame, SetFrame, GrowFrame, Top
<1>2. DOMAIN stack' = 1..(N + 1)
  BY TypeFacts, CallFacts
<1>3. \A n \in 1..(N - 1) : stack'[n] = stack[n]
  <2>1. stack \in Seq(Frame)
    BY TypeFacts
  <2>2. \A n \in 1..(Len(stack) - 1) : stack'[n] = stack[n]
    BY <2>1, PopFacts, CallFacts
  <2> QED BY <2>2
<1>4. stack'[N] = f /\ stack'[N + 1] = g
  BY CallFrames
<1> HIDE DEF N
<1>5. /\ DOMAIN stack' = DOMAIN stack \cup {N + 1}
      /\ N + 1 \notin DOMAIN stack /\ N + 1 > 1 /\ N \in DOMAIN stack
      /\ \A n \in DOMAIN stack \ {N} : n \in 1..(N - 1)
  BY <1>1, <1>2
<1>6. \A n \in DOMAIN stack : stack'[n].fn = stack[n].fn
  BY <1>1, <1>3, <1>4, <1>5
<1>7. /\ Setting' = Setting \cup (IF g.fn = "set" THEN {N + 1} ELSE {})
      /\ Growing' = Growing \cup (IF g.fn = "grow" THEN {N + 1} ELSE {})
  BY <1>4, <1>5, <1>6 DEF Setting, Growing
<1>8. \A n \in (Setting \cup Growing) \ {N} : stack'[n] = stack[n]
  BY <1>3, <1>5 DEF Setting, Growing
<1>9. N \in Setting \cup Growing /\ N + 1 \notin Setting \cup Growing
  BY <1>1, <1>5 DEF Setting, Growing
<1> QED BY <1>1, <1>4, <1>5, <1>7, <1>8, <1>9 DEF N

-----------------------------------------------------------------------------
(* What the steps do to the bindings. *)

\* Between two calls of the user only the array binds keys.
LEMMA IdleValues ==
  ASSUME stack = <<>>
  PROVE  Setting = {} /\ Growing = {}
  BY DEF Setting, Growing

\* The key a lookup searches is bound to what the lookup finds.
LEMMA LookupAgrees ==
  ASSUME TypeOK, OneHomePerKey, EveryEntryFindable, Idle, NEW k \in Key
  PROVE  Dict[k] = IF Hits(k) = {} THEN NOT_FOUND ELSE slots[FindSlot(k)].val
<1>1. Setting = {} /\ Growing = {}
  BY IdleValues DEF Idle
<1>2. CASE Hits(k) = {}
  <2>1. \A v : v \notin ValuesOf(k)
    BY <1>1, <1>2, MissMeansAbsent, ValuesAre DEF InSlots, InMoving, InSetting
  <2> QED BY <1>2, <2>1, DictMisses
<1>3. CASE Hits(k) # {}
  <2>1. InSlots(k, slots[FindSlot(k)].val)
    BY <1>3, FindSlotFacts DEF InSlots
  <2> QED BY <1>3, <2>1, ValuesAre, DictBinds
<1> QED BY <1>2, <1>3

\* ST_ht_delete unbinds its key and no other.
LEMMA DeleteRefines ==
  ASSUME IInv, NEW k \in Key, Delete(k)
  PROVE  Map!MapDelete(k)
<1> USE DEF IInv
<1>1. ret' = Dict[k]
  BY LookupAgrees DEF Delete
<1>2. Setting = {} /\ Growing = {} /\ Setting' = {} /\ Growing' = {}
  BY IdleValues DEF Delete, Idle, Setting, Growing
<1>3. CASE Hits(k) = {}
  <2>1. Dict' = Dict
    <3>1. Live(slots') = Live(slots) /\ slots' = slots
      BY <1>3 DEF Delete
    <3>2. \A j \in Key : \A v : v \in ValuesOf(j)' <=> v \in ValuesOf(j)
      BY <1>2, <3>1, ValuesAre DEF ValuesOf, Moving
    <3> QED BY <3>2, DictKept
  <2>2. Dict[k] = NOT_FOUND
    BY <1>3, LookupAgrees DEF Delete
  <2> QED BY <1>1, <2>1, <2>2, DictIs DEF Map!MapDelete
<1>4. CASE Hits(k) # {}
  <2>1. /\ FindSlot(k) \in Live(slots) /\ slots[FindSlot(k)].key = k
        /\ Live(slots') = Live(slots) \ {FindSlot(k)}
        /\ \A s \in Live(slots') : slots'[s] = slots[s]
    BY <1>4, FindSlotFacts, BuryArray DEF Delete, Live
  <2>2. ValuesOf(k)' = {}
    <3>1. \A s \in Live(slots') : slots'[s].key # k
      BY <2>1 DEF OneHomePerKey, SlotKeysDiffer
    <3> QED BY <1>2, <3>1 DEF ValuesOf, Moving
  <2>3. \A j \in Key \ {k} : ValuesOf(j)' = ValuesOf(j)
    BY <1>2, <2>1 DEF ValuesOf, Moving
  <2>4. Dict' = [j \in Key |-> TheValue(ValuesOf(j)')]
    BY DEF Dict, TheValue
  <2>5. TheValue({}) = NOT_FOUND
    BY DEF TheValue
  <2>6. Dict' = [Dict EXCEPT ![k] = NOT_FOUND]
    BY <2>2, <2>3, <2>4, <2>5, DictIs
  <2> QED BY <1>1, <2>6 DEF Map!MapDelete
<1> QED BY <1>3, <1>4

\* ST_ht_set finding its key is the user's own: a set called by a rehash has
\* a key that is nowhere else.
LEMMA OverwriteRefines ==
  ASSUME IInv, Overwrite
  PROVE  Map!MapSet(Top.key, Top.val) /\ Top.key \in Key /\ Top.val \in Value
<1> USE DEF IInv
<1> DEFINE N == Len(stack)
           f == FindSlot(Top.key)
<1>1. /\ ~ Idle /\ Top.fn = "set" /\ Hits(Top.key) # {} /\ stack' = Pop
      /\ slots' = [slots EXCEPT ![f].val = Top.val] /\ ret' = ret
  BY DEF Overwrite
<1>2. Top \in SetFrame /\ Top.key \in Key /\ Top.val \in Value
  BY <1>1, TypeFacts, PopFacts, FrameKinds, SetFrameFacts
<1>3. f \in Live(slots) /\ slots[f].key = Top.key
  BY <1>1, <1>2, FindSlotFacts
<1>4. /\ Live(slots') = Live(slots)
      /\ \A s \in Live(slots) : slots'[s].key = slots[s].key
      /\ slots'[f].val = Top.val
      /\ \A s \in Live(slots) : s # f => slots'[s] = slots[s]
  BY <1>1, <1>2, <1>3, OverwriteArray DEF Live
<1>5. N \in Setting /\ stack[N] = Top
  BY <1>1, PopExact DEF Growing
<1>6. N = 1
  BY <1>3, <1>5 DEF OneHomePerKey, SettingNotInSlots
<1>7. Setting = {1} /\ Growing = {} /\ Setting' = {} /\ Growing' = {}
  <2>1. DOMAIN stack = {1}
    BY <1>6, TypeFacts, LenProperties
  <2>2. Setting = {1} /\ Growing = {}
    BY <1>1, <1>5, <1>6, <2>1 DEF Setting, Growing
  <2> QED BY <1>1, <1>6, <2>2, PopExact
<1> HIDE DEF N, f
<1>8. PICK k \in Key, v \in Value : k = Top.key /\ v = Top.val
  BY <1>2
<1>9. \A s \in Live(slots) : slots[s].key = k <=> s = f
  BY <1>3, <1>8 DEF OneHomePerKey, SlotKeysDiffer
<1>10. \A w : w \in ValuesOf(k)' <=> w = v
  <2>1. \A w : InSlots(k, w)' <=> w = v
    BY <1>3, <1>4, <1>8, <1>9 DEF InSlots
  <2> QED BY <1>7, <2>1, ValuesAreNext DEF InMoving, InSetting
<1>11. \A j \in Key \ {k} : \A w : w \in ValuesOf(j)' <=> w \in ValuesOf(j)
  <2>1. \A j \in Key \ {k} : \A w : InSlots(j, w)' <=> InSlots(j, w)
    BY <1>3, <1>4, <1>8 DEF InSlots
  <2> QED BY <1>7, <2>1, ValuesAre, ValuesAreNext DEF InMoving, InSetting
<1>12. Dict' = [Dict EXCEPT ![k] = v]
  BY <1>10, <1>11, DictSet
<1> QED BY <1>1, <1>2, <1>8, <1>12 DEF Map!MapSet

\* ST_ht_grow's new array is empty and all that was in the old is to move.
LEMMA GrowKeepsMap ==
  ASSUME IInv, ~ Idle, Top.fn = "set", NEW pc \in {"enter", "place"}, Grow(pc)
  PROVE  Dict' = Dict
<1> USE DEF IInv
<1> DEFINE N == Len(stack)
           f == [Top EXCEPT !.pc = pc]
<1>1. Top \in SetFrame
  BY TypeFacts, PopFacts, FrameKinds
<1>2. f \in Frame /\ f.key = Top.key /\ f.val = Top.val /\ f.fn = "set"
  BY <1>1, SetFrameFacts DEF Frame
<1>3. /\ GrowCall \in Frame /\ GrowCall.fn = "grow"
      /\ GrowCall.todo = {<<s, slots[s]>> : s \in Live(slots)}
  BY TypeFacts DEF GrowCall, GrowFrame, Live, Frame
<1>4. stack' = Append(Append(Pop, f), GrowCall)
  BY DEF Grow
<1> HIDE DEF f
<1>5. /\ N \in Setting \cup Growing /\ stack[N] = Top
      /\ N + 1 \notin Setting \cup Growing
      /\ stack'[N] = f /\ stack'[N + 1] = GrowCall
      /\ Setting' = Setting
      /\ Growing' = Growing \cup {N + 1}
      /\ \A n \in (Setting \cup Growing) \ {N} : stack'[n] = stack[n]
  BY <1>2, <1>3, <1>4, CallExact
<1>6. N \notin Growing
  BY <1>5 DEF Growing
<1>7. Live(slots') = {}
  BY EmptyArray DEF Grow
<1> HIDE DEF N
<1>8. \A j, w : InSetting(j, w)' <=> InSetting(j, w)
  BY <1>2, <1>5 DEF InSetting
<1>9. \A j, w : InMoving(j, w)' <=> InMoving(j, w) \/ InSlots(j, w)
  <2>1. \A j, w : (\E p \in GrowCall.todo : p[2].key = j /\ p[2].val = w) <=> InSlots(j, w)
    <3> SUFFICES ASSUME NEW j, NEW w
                 PROVE  (\E p \in GrowCall.todo : p[2].key = j /\ p[2].val = w)
                        <=> InSlots(j, w)
      OBVIOUS
    <3>1. ASSUME NEW p \in GrowCall.todo, p[2].key = j, p[2].val = w
          PROVE  InSlots(j, w)
      <4>1. PICK s \in Live(slots) : p = <<s, slots[s]>>
        BY <1>3
      <4> QED BY <3>1, <4>1 DEF InSlots
    <3>2. ASSUME NEW s \in Live(slots), slots[s].key = j, slots[s].val = w
          PROVE  \E p \in GrowCall.todo : p[2].key = j /\ p[2].val = w
      <4>1. <<s, slots[s]>> \in GrowCall.todo
        BY <1>3
      <4>2. <<s, slots[s]>>[2].key = j /\ <<s, slots[s]>>[2].val = w
        BY <3>2
      <4> QED BY <4>1, <4>2
    <3> QED BY <3>1, <3>2 DEF InSlots
  <2>2. \A n \in Growing : stack'[n] = stack[n] /\ n # N + 1
    BY <1>5, <1>6
  <2>3. \A j, w : InMoving(j, w)' <=>
          InMoving(j, w) \/ \E p \in stack'[N + 1].todo : p[2].key = j /\ p[2].val = w
    BY <1>5, <2>2 DEF InMoving
  <2> QED BY <1>5, <2>1, <2>3
<1>10. \A j, w : ~ InSlots(j, w)'
  BY <1>7 DEF InSlots
<1> QED BY <1>8, <1>9, <1>10, ValuesAre, ValuesAreNext, DictKept

\* ST_ht_grow hands an entry to ST_ht_set, which then holds its binding.
LEMMA RehashKeepsMap ==
  ASSUME IInv, Rehash
  PROVE  Dict' = Dict
<1> USE DEF IInv
<1> DEFINE N == Len(stack)
<1>1. ~ Idle /\ Top \in GrowFrame /\ Top.fn = "grow" /\ slots' = slots
  BY TypeFacts, PopFacts, FrameKinds DEF Rehash
<1>2. PICK p \in Top.todo :
        stack' = Append(Append(Pop, [Top EXCEPT !.todo = @ \ {p}]),
                        SetCall(p[2].key, p[2].val, "enter"))
  BY DEF Rehash
<1> DEFINE f == [Top EXCEPT !.todo = @ \ {p}]
           g == SetCall(p[2].key, p[2].val, "enter")
<1>3. /\ f \in Frame /\ f.fn = "grow" /\ f.todo = Top.todo \ {p}
      /\ g \in Frame /\ g.fn = "set" /\ g.key = p[2].key /\ g.val = p[2].val
  BY <1>1, GrowFrameFacts DEF SetCall, SetFrame, Frame
<1>4. stack' = Append(Append(Pop, f), g)
  BY <1>2
<1> HIDE DEF f, g
<1>5. /\ N \in Setting \cup Growing /\ stack[N] = Top
      /\ N + 1 > 1 /\ N + 1 \notin Setting \cup Growing
      /\ stack'[N] = f /\ stack'[N + 1] = g
      /\ Setting' = Setting \cup {N + 1}
      /\ Growing' = Growing
      /\ \A n \in (Setting \cup Growing) \ {N} : stack'[n] = stack[n]
  BY <1>1, <1>3, <1>4, CallExact
<1>6. N \in Growing /\ N \notin Setting
  BY <1>1, <1>5 DEF Growing, Setting
<1> HIDE DEF N
<1> DEFINE Moved(j, w) == p[2].key = j /\ p[2].val = w
<1>7. \A j, w : InSetting(j, w)' <=> InSetting(j, w) \/ Moved(j, w)
  BY <1>3, <1>5, <1>6 DEF InSetting
<1>8. \A j, w : InMoving(j, w) <=> InMoving(j, w)' \/ Moved(j, w)
  <2>1. \A q : q \in stack[N].todo <=> q \in stack'[N].todo \/ q = p
    BY <1>2, <1>3, <1>5
  <2>2. \A n \in Growing \ {N} : stack'[n] = stack[n]
    BY <1>5
  <2> QED BY <1>5, <1>6, <2>1, <2>2 DEF InMoving
<1>9. \A j, w : InSlots(j, w)' <=> InSlots(j, w)
  BY <1>1 DEF InSlots
<1> HIDE DEF Moved
<1> QED BY <1>7, <1>8, <1>9, ValuesAre, ValuesAreNext, DictKept

\* The level loop places the key: the user's own set binds it, a set called
\* by a rehash gives its binding to the array.
LEMMA PlaceRefines ==
  ASSUME IInv, Place
  PROVE  \/ Dict' = Dict
         \/ \E k \in Key, v \in Value : Dict' = [Dict EXCEPT ![k] = v]
<1> USE DEF IInv
<1> DEFINE N == Len(stack)
<1>1. /\ Placing /\ ~ Idle /\ Top.fn = "set" /\ stack' = Pop /\ Top \in SetFrame
  BY TypeFacts, PopFacts, FrameKinds DEF Place, Placing
<1>2. PICK k \in Key, v \in Value : k = Top.key /\ v = Top.val
  BY <1>1, SetFrameFacts
<1>3. [key |-> k, val |-> v] \in Entry
  BY DEF Entry
<1>4. PICK s \in DOMAIN slots :
        Free(s) /\ slots' = [slots EXCEPT ![s] = [key |-> k, val |-> v]]
  BY <1>1, <1>2, PlaceWrites
<1>5. /\ s \notin Live(slots) /\ Live(slots') = Live(slots) \cup {s}
      /\ slots'[s].key = k /\ slots'[s].val = v
      /\ \A r \in Live(slots) : slots'[r] = slots[r]
  BY <1>3, <1>4, PlaceArray DEF Live
<1>6. \A r \in Live(slots) : slots[r].key # k
  BY <1>1, <1>2, PlacingMeansAbsent
<1>7. /\ N \in Setting /\ stack[N] = Top /\ N \notin Growing
      /\ Setting' = Setting \ {N} /\ Growing' = Growing
      /\ \A n \in Setting' \cup Growing' : stack'[n] = stack[n]
  BY <1>1, PopExact DEF Growing
<1>8. \A j, w : InSlots(j, w)' <=> InSlots(j, w) \/ (j = k /\ w = v)
  BY <1>5 DEF InSlots
<1>9. \A j, w : InMoving(j, w)' <=> InMoving(j, w)
  BY <1>7 DEF InMoving
<1>10. CASE N = 1
  <2>1. Setting = {1} /\ Growing = {}
    <3>1. DOMAIN stack = {1}
      BY <1>10, TypeFacts, LenProperties
    <3> QED BY <1>7, <1>10, <3>1 DEF Setting, Growing
  <2>2. \A j, w : ~ InSetting(j, w) /\ ~ InSetting(j, w)'
    BY <1>7, <1>10, <2>1 DEF InSetting
  <2>3. \A w : w \in ValuesOf(k)' <=> w = v
    <3>1. \A w : ~ InSlots(k, w) /\ ~ InMoving(k, w)
      BY <1>6, <2>1 DEF InSlots, InMoving
    <3> QED BY <1>8, <1>9, <2>2, <3>1, ValuesAreNext
  <2>4. \A j \in Key \ {k} : \A w : w \in ValuesOf(j)' <=> w \in ValuesOf(j)
    BY <1>8, <1>9, <2>2, ValuesAre, ValuesAreNext
  <2> QED BY <2>3, <2>4, DictSet
<1>11. CASE N # 1
  <2>1. N > 1
    BY <1>1, <1>11, TypeFacts, PopFacts
  <2> HIDE DEF N
  <2>2. \A j, w : InSetting(j, w) <=> InSetting(j, w)' \/ (j = k /\ w = v)
    BY <1>2, <1>7, <2>1 DEF InSetting
  <2>3. \A j \in Key : \A w : w \in ValuesOf(j)' <=> w \in ValuesOf(j)
    BY <1>8, <1>9, <2>2, ValuesAre, ValuesAreNext
  <2> QED BY <2>3, DictKept
<1> QED BY <1>10, <1>11

\* ST_ht_grow returns with nothing left to move.
LEMMA GrowReturnsKeepsMap ==
  ASSUME IInv, GrowReturns
  PROVE  Dict' = Dict
<1> USE DEF IInv
<1> DEFINE N == Len(stack)
<1>1. ~ Idle /\ Top.fn = "grow" /\ Top.todo = {} /\ stack' = Pop /\ slots' = slots
  BY DEF GrowReturns
<1>2. /\ stack[N] = Top /\ N \notin Setting
      /\ Setting' = Setting /\ Growing' = Growing \ {N}
      /\ \A n \in Setting' \cup Growing' : stack'[n] = stack[n]
  BY <1>1, PopExact DEF Setting
<1> HIDE DEF N
<1>3. \A j, w : InSlots(j, w)' <=> InSlots(j, w)
  BY <1>1 DEF InSlots
<1>4. \A j, w : InMoving(j, w)' <=> InMoving(j, w)
  BY <1>1, <1>2 DEF InMoving
<1>5. \A j, w : InSetting(j, w)' <=> InSetting(j, w)
  BY <1>2 DEF InSetting
<1> QED BY <1>3, <1>4, <1>5, ValuesAre, ValuesAreNext, DictKept

-----------------------------------------------------------------------------
(* The refinement. *)

LEMMA InitRefines == Init => Map!MapInit
<1> SUFFICES ASSUME Init PROVE Map!MapInit
  OBVIOUS
<1>1. Live(slots) = {} /\ Setting = {} /\ Growing = {}
  BY SentinelsDiffer DEF Init, Live, Entry, Setting, Growing
<1>2. \A k \in Key : ValuesOf(k) = {}
  BY <1>1 DEF ValuesOf, Moving
<1>3. TheValue({}) = NOT_FOUND
  BY DEF TheValue
<1>4. Dict = [k \in Key |-> NOT_FOUND]
  BY <1>2, <1>3, DictIs
<1> QED BY <1>4 DEF Map!MapInit, Init

\* Every step of the table is a step of the map or leaves it as it is.
LEMMA StepRefines ==
  ASSUME IInv, [Next]_vars
  PROVE  [Map!MapNext]_<<Dict, ret>>
<1> USE DEF IInv
<1>1. ASSUME NEW k \in Key, NEW v \in Value, Set(k, v)
      PROVE  Dict' = Dict /\ ret' = ret
  <2>1. /\ Setting = {} /\ Growing = {} /\ Setting' = {1} /\ Growing' = {}
        /\ slots' = slots
    BY <1>1, IdleValues DEF Set, SetCall, Setting, Growing, Idle
  <2>2. \A j, w : /\ InSlots(j, w)' <=> InSlots(j, w)
                  /\ InMoving(j, w)' <=> InMoving(j, w)
                  /\ InSetting(j, w)' <=> InSetting(j, w)
    BY <2>1 DEF InSlots, InMoving, InSetting
  <2> QED BY <1>1, <2>2, ValuesAre, ValuesAreNext, DictKept DEF Set
<1>2. ASSUME NEW k \in Key, Get(k)
      PROVE  Map!MapGet(k)
  <2>1. Dict' = Dict
    <3>1. slots' = slots /\ stack' = stack
      BY <1>2 DEF Get
    <3> QED BY <3>1 DEF Dict, ValuesOf, Moving, Setting, Growing, Live
  <2>2. ret' = Dict[k]
    BY <1>2, LookupAgrees DEF Get
  <2> QED BY <2>1, <2>2 DEF Map!MapGet
<1>3. ASSUME NEW k \in Key, Delete(k)
      PROVE  Map!MapDelete(k)
  BY <1>3, DeleteRefines
<1>4. CASE Overwrite
  <2>1. \E k \in Key, v \in Value : Map!MapSet(k, v)
    BY <1>4, OverwriteRefines
  <2> QED BY <2>1 DEF Map!MapNext
<1>5. CASE GrowForLoad \/ GrowForRoom
  <2>1. Dict' = Dict
    BY <1>5, GrowKeepsMap DEF GrowForLoad, GrowForRoom, Placing
  <2>2. ret' = ret
    BY <1>5 DEF GrowForLoad, GrowForRoom, Grow
  <2> QED BY <2>1, <2>2
<1>6. CASE Place
  <2>1. ret' = ret
    BY <1>6 DEF Place
  <2> QED BY <1>6, <2>1, PlaceRefines DEF Map!MapNext, Map!MapSet
<1>7. CASE Rehash
  BY <1>7, RehashKeepsMap DEF Rehash
<1>8. CASE GrowReturns
  BY <1>8, GrowReturnsKeepsMap DEF GrowReturns
<1>9. CASE UNCHANGED vars
  <2>1. slots' = slots /\ stack' = stack /\ ret' = ret
    BY <1>9 DEF vars
  <2> QED BY <2>1 DEF Dict, ValuesOf, Moving, Setting, Growing, Live
<1>10. (\E k \in Key : Get(k) \/ Delete(k)) => Map!MapNext
  BY <1>2, <1>3 DEF Map!MapNext
<1> QED BY <1>1, <1>4, <1>5, <1>6, <1>7, <1>8, <1>9, <1>10 DEF Next, TableStep

\* Whatever the hash and the geometry, a user of the table cannot tell it from
\* the map of st_ht.h: growth, tombstones and their re-use do not show.
THEOREM TableIsMap == Spec => IsMap
  BY InitRefines, StepRefines, InvariantHolds, PTL DEF Spec, IsMap, Map!MapSpec

-----------------------------------------------------------------------------
(***************************************************************************)
(* The table is at most 95% full whenever no call is active.               *)
(*                                                                         *)
(* ST_ht_grow starts the count over and lets ST_ht_set count the entries   *)
(* again, one by one and perhaps growing on the way, and a set that has    *)
(* grown for load places its key without another look at the load.  What   *)
(* bounds the count throughout is the number of keys with a home: growth   *)
(* moves keys from home to home and never adds one, so the room found for  *)
(* all of them when the array doubled is there to the end of the call.     *)
(***************************************************************************)

KeyInSlots(k)   == \E s \in Live(slots) : slots[s].key = k
KeyInMoving(k)  == \E n \in Growing : \E p \in stack[n].todo : p[2].key = k
KeyInSetting(k) == \E n \in Setting : stack[n].key = k

SlotKeys == {k \in Key : KeyInSlots(k)}
\* The keys the table holds or is being given.
Homes == {k \in Key : KeyInSlots(k) \/ KeyInMoving(k) \/ KeyInSetting(k)}

\* The room for all of them has been found: a growth is under way, or over.
RoomFound == ~ Idle /\ (Len(stack) = 1 => Top.pc = "place")

RoomInv ==
  /\ IsFiniteSet(Homes)
  /\ 100 * count <= 95 * capacity
  /\ ~ Idle => 1 \in Setting
  /\ RoomFound => 100 * Cardinality(Homes) <= 95 * capacity

-----------------------------------------------------------------------------
(* Counting keys instead of slots. *)

LEMMA SlotKeysCount ==
  ASSUME IInv
  PROVE  IsFiniteSet(SlotKeys) /\ Cardinality(SlotKeys) = count
<1> DEFINE f == [s \in Live(slots) |-> slots[s].key]
<1>1. IsFiniteSet(Live(slots)) /\ Cardinality(Live(slots)) = count
  BY LiveFinite DEF IInv, CountIsEntries
<1>2. \A s \in Live(slots) : slots[s].key \in Key
  BY DEF Live, Entry
<1>3. f \in [Live(slots) -> SlotKeys]
  BY <1>2 DEF SlotKeys, KeyInSlots
<1>4. \A k \in SlotKeys : \E s \in Live(slots) : f[s] = k
  BY DEF SlotKeys, KeyInSlots
<1>5. \A s, t \in Live(slots) : f[s] = f[t] => s = t
  BY DEF IInv, OneHomePerKey, SlotKeysDiffer
<1>6. ExistsBijection(Live(slots), SlotKeys)
  BY <1>3, <1>4, <1>5 DEF ExistsBijection, Bijection, Injection, Surjection, IsInjective
<1> QED BY <1>1, <1>6, FS_Bijection

\* The count is at most the number of keys with a home.
LEMMA CountAtMostHomes ==
  ASSUME IInv, IsFiniteSet(Homes)
  PROVE  count <= Cardinality(Homes) /\ Cardinality(Homes) \in Nat
<1>1. SlotKeys \subseteq Homes
  BY DEF SlotKeys, Homes
<1> QED BY <1>1, SlotKeysCount, FS_Subset, FS_CardinalityType

\* With one call active the keys with a home are those in the array and its own.
LEMMA FirstCallHomes ==
  ASSUME IInv, ~ Idle, Len(stack) = 1, 1 \in Setting
  PROVE  /\ Homes = SlotKeys \cup {Top.key}
         /\ IsFiniteSet(Homes)
         /\ Cardinality(Homes) <= count + 1
<1>1. DOMAIN stack = {1} /\ stack[1] = Top /\ Top \in Frame
  BY TypeFacts, PopFacts DEF IInv, Top
<1>2. Setting = {1} /\ Growing = {}
  BY <1>1 DEF Setting, Growing
<1>3. Top.key \in Key
  BY <1>1, <1>2, FrameKinds, SetFrameFacts DEF Setting
<1>4. Homes = SlotKeys \cup {Top.key}
  BY <1>1, <1>2, <1>3 DEF Homes, SlotKeys, KeyInMoving, KeyInSetting
<1>5. count \in Nat
  BY DEF IInv, TypeOK
<1> QED BY <1>4, <1>5, SlotKeysCount, FS_AddElement

\* The number of keys decides whether the room is enough.
LEMMA HomesKept ==
  ASSUME \A k \in Key : (KeyInSlots(k)' \/ KeyInMoving(k)' \/ KeyInSetting(k)')
                        <=> (KeyInSlots(k) \/ KeyInMoving(k) \/ KeyInSetting(k))
  PROVE  Homes' = Homes
  BY DEF Homes

-----------------------------------------------------------------------------
(* Growth and placing move keys from home to home. *)

LEMMA GrowKeepsHomes ==
  ASSUME IInv, ~ Idle, Top.fn = "set", NEW pc \in {"enter", "place"}, Grow(pc)
  PROVE  /\ Homes' = Homes
         /\ Len(stack') = Len(stack) + 1
         /\ 1 \in Setting => 1 \in Setting'
<1> USE DEF IInv
<1> DEFINE N == Len(stack)
           f == [Top EXCEPT !.pc = pc]
<1>1. Top \in SetFrame
  BY TypeFacts, PopFacts, FrameKinds
<1>2. f \in Frame /\ f.key = Top.key /\ f.fn = "set"
  BY <1>1, SetFrameFacts DEF Frame
<1>3. /\ GrowCall \in Frame /\ GrowCall.fn = "grow"
      /\ GrowCall.todo = {<<s, slots[s]>> : s \in Live(slots)}
  BY TypeFacts DEF GrowCall, GrowFrame, Live, Frame
<1>4. stack' = Append(Append(Pop, f), GrowCall)
  BY DEF Grow
<1> HIDE DEF f
<1>5. /\ N \in Setting \cup Growing /\ stack[N] = Top
      /\ N + 1 \notin Setting \cup Growing
      /\ stack'[N] = f /\ stack'[N + 1] = GrowCall
      /\ Setting' = Setting
      /\ Growing' = Growing \cup {N + 1}
      /\ \A n \in (Setting \cup Growing) \ {N} : stack'[n] = stack[n]
  BY <1>2, <1>3, <1>4, CallExact
<1>6. N \notin Growing
  BY <1>5 DEF Growing
<1>7. Live(slots') = {}
  BY EmptyArray DEF Grow
<1>8. Len(stack') = N + 1
  BY <1>2, <1>3, <1>4, CallFrames
<1> HIDE DEF N
<1>9. \A k : KeyInSetting(k)' <=> KeyInSetting(k)
  BY <1>2, <1>5 DEF KeyInSetting
<1>10. \A k : KeyInMoving(k)' <=> KeyInMoving(k) \/ KeyInSlots(k)
  <2>1. \A k : (\E p \in GrowCall.todo : p[2].key = k) <=> KeyInSlots(k)
    <3> SUFFICES ASSUME NEW k
                 PROVE  (\E p \in GrowCall.todo : p[2].key = k) <=> KeyInSlots(k)
      OBVIOUS
    <3>1. ASSUME NEW p \in GrowCall.todo, p[2].key = k
          PROVE  KeyInSlots(k)
      <4>1. PICK s \in Live(slots) : p = <<s, slots[s]>>
        BY <1>3
      <4> QED BY <3>1, <4>1 DEF KeyInSlots
    <3>2. ASSUME NEW s \in Live(slots), slots[s].key = k
          PROVE  \E p \in GrowCall.todo : p[2].key = k
      <4>1. <<s, slots[s]>> \in GrowCall.todo
        BY <1>3
      <4>2. <<s, slots[s]>>[2].key = k
        BY <3>2
      <4> QED BY <4>1, <4>2
    <3> QED BY <3>1, <3>2 DEF KeyInSlots
  <2>2. \A n \in Growing : stack'[n] = stack[n] /\ n # N + 1
    BY <1>5, <1>6
  <2>3. \A k : KeyInMoving(k)' <=>
          KeyInMoving(k) \/ \E p \in stack'[N + 1].todo : p[2].key = k
    BY <1>5, <2>2 DEF KeyInMoving
  <2> QED BY <1>5, <2>1, <2>3
<1>11. \A k : ~ KeyInSlots(k)'
  BY <1>7 DEF KeyInSlots
<1>12. Homes' = Homes
  BY <1>9, <1>10, <1>11, HomesKept
<1> QED BY <1>5, <1>8, <1>12 DEF N

LEMMA RehashKeepsHomes ==
  ASSUME IInv, Rehash
  PROVE  /\ Homes' = Homes
         /\ Len(stack') = Len(stack) + 1
         /\ 1 \in Setting => 1 \in Setting'
<1> USE DEF IInv
<1> DEFINE N == Len(stack)
<1>1. ~ Idle /\ Top \in GrowFrame /\ Top.fn = "grow" /\ slots' = slots
  BY TypeFacts, PopFacts, FrameKinds DEF Rehash
<1>2. PICK p \in Top.todo :
        stack' = Append(Append(Pop, [Top EXCEPT !.todo = @ \ {p}]),
                        SetCall(p[2].key, p[2].val, "enter"))
  BY DEF Rehash
<1> DEFINE f == [Top EXCEPT !.todo = @ \ {p}]
           g == SetCall(p[2].key, p[2].val, "enter")
<1>3. /\ f \in Frame /\ f.fn = "grow" /\ f.todo = Top.todo \ {p}
      /\ g \in Frame /\ g.fn = "set" /\ g.key = p[2].key
  BY <1>1, GrowFrameFacts DEF SetCall, SetFrame, Frame
<1>4. stack' = Append(Append(Pop, f), g)
  BY <1>2
<1> HIDE DEF f, g
<1>5. /\ N \in Setting \cup Growing /\ stack[N] = Top
      /\ N + 1 \notin Setting \cup Growing
      /\ stack'[N] = f /\ stack'[N + 1] = g
      /\ Setting' = Setting \cup {N + 1}
      /\ Growing' = Growing
      /\ \A n \in (Setting \cup Growing) \ {N} : stack'[n] = stack[n]
  BY <1>1, <1>3, <1>4, CallExact
<1>6. N \in Growing /\ N \notin Setting
  BY <1>1, <1>5 DEF Growing, Setting
<1>7. Len(stack') = N + 1
  BY <1>1, <1>3, <1>4, CallFrames
<1> HIDE DEF N
<1>8. \A k : KeyInSetting(k)' <=> KeyInSetting(k) \/ p[2].key = k
  BY <1>3, <1>5, <1>6 DEF KeyInSetting
<1>9. \A k : KeyInMoving(k) <=> KeyInMoving(k)' \/ p[2].key = k
  <2>1. \A q : q \in stack[N].todo <=> q \in stack'[N].todo \/ q = p
    BY <1>2, <1>3, <1>5
  <2>2. \A n \in Growing \ {N} : stack'[n] = stack[n]
    BY <1>5
  <2> QED BY <1>5, <1>6, <2>1, <2>2 DEF KeyInMoving
<1>10. \A k : KeyInSlots(k)' <=> KeyInSlots(k)
  BY <1>1 DEF KeyInSlots
<1>11. Homes' = Homes
  BY <1>8, <1>9, <1>10, HomesKept
<1> QED BY <1>5, <1>7, <1>11 DEF N

\* A call returns, having put its key where lookups find it, or a growth
\* returns with nothing left to move.
LEMMA ReturnKeepsHomes ==
  ASSUME IInv, ~ Idle, stack' = Pop,
         \/ /\ Top.fn = "set"
            /\ \A k : KeyInSlots(k)' <=> KeyInSlots(k) \/ k = Top.key
         \/ Top.fn = "grow" /\ Top.todo = {} /\ slots' = slots
  PROVE  /\ Homes' = Homes
         /\ Len(stack') = Len(stack) - 1
         /\ 1 \in Setting /\ Len(stack) # 1 => 1 \in Setting'
<1> USE DEF IInv
<1> DEFINE N == Len(stack)
<1>1. /\ N \in Setting \cup Growing /\ stack[N] = Top
      /\ Setting' = Setting \ {N} /\ Growing' = Growing \ {N}
      /\ \A n \in Setting' \cup Growing' : stack'[n] = stack[n]
  BY PopExact
<1>2. Len(stack') = N - 1
  BY PopFrames
<1> HIDE DEF N
<1>3. CASE Top.fn = "set" /\ \A k : KeyInSlots(k)' <=> KeyInSlots(k) \/ k = Top.key
  <2>1. N \in Setting /\ N \notin Growing
    BY <1>1, <1>3 DEF Setting, Growing
  <2>2. \A k : KeyInMoving(k)' <=> KeyInMoving(k)
    BY <1>1, <2>1 DEF KeyInMoving
  <2>3. \A k : KeyInSetting(k) <=> KeyInSetting(k)' \/ k = Top.key
    BY <1>1, <2>1 DEF KeyInSetting
  <2> QED BY <1>1, <1>2, <1>3, <2>2, <2>3, HomesKept DEF N
<1>4. CASE Top.fn = "grow" /\ Top.todo = {} /\ slots' = slots
  <2>1. N \in Growing /\ N \notin Setting
    BY <1>1, <1>4 DEF Setting, Growing
  <2>2. \A k : KeyInMoving(k)' <=> KeyInMoving(k)
    BY <1>1, <1>4, <2>1 DEF KeyInMoving
  <2>3. \A k : KeyInSetting(k) <=> KeyInSetting(k)'
    BY <1>1, <2>1 DEF KeyInSetting
  <2>4. \A k : KeyInSlots(k) <=> KeyInSlots(k)'
    BY <1>4 DEF KeyInSlots
  <2> QED BY <1>1, <1>2, <2>2, <2>3, <2>4, HomesKept DEF N
<1> QED BY <1>3, <1>4

LEMMA OverwriteKeepsHomes ==
  ASSUME IInv, Overwrite
  PROVE  \A k : KeyInSlots(k)' <=> KeyInSlots(k) \/ k = Top.key
<1> USE DEF IInv
<1>1. /\ Hits(Top.key) # {} /\ Top \in SetFrame
      /\ slots' = [slots EXCEPT ![FindSlot(Top.key)].val = Top.val]
  BY TypeFacts, PopFacts, FrameKinds DEF Overwrite
<1>2. Top.key \in Key /\ Top.val \in Value
  BY <1>1, SetFrameFacts
<1>3. FindSlot(Top.key) \in Live(slots) /\ slots[FindSlot(Top.key)].key = Top.key
  BY <1>1, <1>2, FindSlotFacts
<1>4. Live(slots') = Live(slots) /\ \A r \in Live(slots) : slots'[r].key = slots[r].key
  BY <1>1, <1>2, <1>3, OverwriteArray
<1> QED BY <1>3, <1>4 DEF KeyInSlots

LEMMA PlaceKeepsHomes ==
  ASSUME IInv, Place
  PROVE  \A k : KeyInSlots(k)' <=> KeyInSlots(k) \/ k = Top.key
<1> USE DEF IInv
<1>1. Top \in SetFrame
  BY TypeFacts, PopFacts, FrameKinds DEF Place, Placing
<1>2. [key |-> Top.key, val |-> Top.val] \in Entry
  BY <1>1, SetFrameFacts DEF Entry
<1>3. PICK s \in DOMAIN slots :
        Free(s) /\ slots' = [slots EXCEPT ![s] = [key |-> Top.key, val |-> Top.val]]
  BY <1>1, PlaceWrites
<1>4. /\ s \notin Live(slots) /\ Live(slots') = Live(slots) \cup {s}
      /\ slots'[s].key = Top.key
      /\ \A r \in Live(slots) : slots'[r] = slots[r]
  BY <1>2, <1>3, PlaceArray DEF Live
<1> QED BY <1>4 DEF KeyInSlots

-----------------------------------------------------------------------------
(* The bound. *)

\* The array doubles: the room of the old one was enough for all but one key.
LEMMA GrowKeepsRoom ==
  ASSUME IInv, IInv', RoomInv, ~ Idle, Top.fn = "set",
         NEW pc \in {"enter", "place"}, Grow(pc)
  PROVE  RoomInv'
<1>1. /\ capacity' = 2 * capacity /\ count' = 0
      /\ capacity \in Nat \ {0} /\ count \in Nat
  BY TypeFacts DEF Grow, IInv, TypeOK
<1>2. /\ Homes' = Homes /\ Len(stack') = Len(stack) + 1
      /\ 1 \in Setting => 1 \in Setting'
  BY GrowKeepsHomes
<1>3. 1 \in Setting /\ IsFiniteSet(Homes) /\ Cardinality(Homes) \in Nat
  BY FS_CardinalityType DEF RoomInv
<1>4. 100 * Cardinality(Homes) <= 95 * capacity'
  <2>1. CASE Len(stack) = 1
    <3>1. Cardinality(Homes) <= count + 1 /\ 100 * count <= 95 * capacity
      BY <1>3, <2>1, FirstCallHomes DEF RoomInv
    <3> QED BY <1>1, <1>3, <3>1
  <2>2. CASE Len(stack) # 1
    <3>1. 100 * Cardinality(Homes) <= 95 * capacity
      BY <2>2 DEF RoomInv, RoomFound
    <3> QED BY <1>1, <1>3, <3>1
  <2> QED BY <2>1, <2>2
<1>5. 100 * count' <= 95 * capacity'
  BY <1>1
<1> QED BY <1>2, <1>3, <1>4, <1>5 DEF RoomInv

\* The function on top returns: if room was found it is still enough.
LEMMA ReturnKeepsRoom ==
  ASSUME IInv, IInv', RoomInv, ~ Idle, capacity' = capacity, Homes' = Homes,
         Len(stack') = Len(stack) - 1,
         1 \in Setting /\ Len(stack) # 1 => 1 \in Setting',
         RoomFound \/ 100 * count' <= 95 * capacity'
  PROVE  RoomInv'
<1>1. /\ Len(stack) \in Nat \ {0} /\ capacity \in Nat \ {0}
      /\ count' \in Nat /\ Len(stack') \in Nat
  BY TypeFacts, PopFacts DEF IInv, TypeOK
<1>2. /\ IsFiniteSet(Homes)
      /\ 1 \in Setting
      /\ RoomFound => 100 * Cardinality(Homes) <= 95 * capacity
  BY DEF RoomInv
<1>3. count' <= Cardinality(Homes) /\ Cardinality(Homes) \in Nat
  <2>1. (IInv /\ IsFiniteSet(Homes) => count <= Cardinality(Homes) /\ Cardinality(Homes) \in Nat)'
    BY CountAtMostHomes, PTL
  <2> QED BY <1>2, <2>1
<1>4. 100 * count' <= 95 * capacity'
  <2>1. CASE RoomFound
    <3>1. 100 * Cardinality(Homes) <= 95 * capacity
      BY <1>2, <2>1
    <3>2. \A m, n, c \in Nat : m <= n /\ 100 * n <= 95 * c => 100 * m <= 95 * c
      OBVIOUS
    <3> QED BY <1>1, <1>3, <3>1, <3>2
  <2> QED BY <2>1
<1>5. (~ Idle)' => Len(stack) # 1 /\ Len(stack) > 1
  <2>1. (~ Idle)' => Len(stack') # 0
    BY TypeFacts, EmptySeq DEF IInv, TypeOK, Idle
  <2> QED BY <1>1, <2>1
<1>6. (~ Idle)' => RoomFound
  BY <1>5 DEF RoomFound
<1>7. (~ Idle)' => 1 \in Setting'
  BY <1>2, <1>5
<1> QED BY <1>2, <1>4, <1>6, <1>7 DEF RoomInv, RoomFound

LEMMA InitRoom == Init => RoomInv
<1> SUFFICES ASSUME Init PROVE RoomInv
  OBVIOUS
<1>1. Live(slots) = {} /\ Setting = {} /\ Growing = {}
  BY SentinelsDiffer DEF Init, Live, Entry, Setting, Growing
<1>2. Homes = {}
  BY <1>1 DEF Homes, KeyInSlots, KeyInMoving, KeyInSetting
<1>3. count = 0 /\ capacity \in Nat /\ Idle
  BY CapacitiesAreSizes DEF Init, Idle
<1> QED BY <1>2, <1>3, FS_EmptySet DEF RoomInv, RoomFound

LEMMA RoomStep ==
  ASSUME IInv, IInv', RoomInv, [Next]_vars
  PROVE  RoomInv'
<1> USE DEF IInv
<1>1. ASSUME NEW k \in Key, NEW v \in Value, Set(k, v)
      PROVE  RoomInv'
  <2>1. /\ stack = <<>> /\ stack' = <<SetCall(k, v, "enter")>>
        /\ slots' = slots /\ count' = count /\ capacity' = capacity
    BY <1>1 DEF Set, Idle
  <2>2. Setting = {} /\ Growing = {} /\ Setting' = {1} /\ Growing' = {}
    BY <2>1, IdleValues DEF SetCall, Setting, Growing
  <2>3. Homes' = Homes \cup {k}
    <3>1. stack'[1].key = k
      BY <2>1 DEF SetCall
    <3>2. Homes = SlotKeys
      BY <2>2 DEF Homes, SlotKeys, KeyInMoving, KeyInSetting
    <3>3. \A j : KeyInSlots(j)' <=> KeyInSlots(j)
      BY <2>1 DEF KeyInSlots
    <3>4. \A j : (KeyInSetting(j)' <=> j = k) /\ ~ KeyInMoving(j)'
      BY <2>2, <3>1 DEF KeyInSetting, KeyInMoving
    <3> QED BY <3>2, <3>3, <3>4 DEF Homes, SlotKeys
  <2>4. IsFiniteSet(Homes')
    BY <2>3, FS_AddElement DEF RoomInv
  <2>5. ~ RoomFound'
    BY <2>1 DEF RoomFound, Top, SetCall
  <2> QED BY <2>1, <2>2, <2>4, <2>5 DEF RoomInv
<1>2. ASSUME UNCHANGED <<slots, capacity, count, stack>>
      PROVE  RoomInv'
  <2>1. Homes' = Homes /\ RoomFound' = RoomFound /\ Idle' = Idle /\ Setting' = Setting
    BY <1>2 DEF Homes, KeyInSlots, KeyInMoving, KeyInSetting, Growing, Setting, RoomFound,
                Idle, Top
  <2> QED BY <1>2, <2>1 DEF RoomInv
<1>3. ASSUME NEW k \in Key, Delete(k)
      PROVE  RoomInv'
  <2>1. CASE Hits(k) = {}
    BY <1>2, <1>3, <2>1 DEF Delete
  <2>2. CASE Hits(k) # {}
    <3>1. /\ FindSlot(k) \in Live(slots)
          /\ slots' = [slots EXCEPT ![FindSlot(k)] = TOMBSTONE]
          /\ count' = count - 1 /\ capacity' = capacity /\ stack' = stack /\ stack = <<>>
      BY <1>3, <2>2, FindSlotFacts DEF Delete, Idle
    <3>2. Live(slots') \subseteq Live(slots) /\ \A s \in Live(slots') : slots'[s] = slots[s]
      BY <3>1, BuryArray DEF Live
    <3>3. Growing' = {} /\ Setting' = {} /\ ~ RoomFound' /\ Idle'
      BY <3>1, IdleValues DEF Growing, Setting, RoomFound, Idle
    <3>4. Homes' \subseteq Homes
      BY <3>2, <3>3 DEF Homes, KeyInSlots, KeyInMoving, KeyInSetting
    <3>5. IsFiniteSet(Homes')
      BY <3>4, FS_Subset DEF RoomInv
    <3>6. 100 * count' <= 95 * capacity'
      BY <3>1, TypeFacts DEF RoomInv, TypeOK
    <3> QED BY <3>3, <3>5, <3>6 DEF RoomInv
  <2> QED BY <2>1, <2>2
<1>4. CASE Overwrite
  <2>1. ~ Idle /\ Top.fn = "set" /\ stack' = Pop /\ count' = count /\ capacity' = capacity
    BY <1>4 DEF Overwrite
  <2>2. /\ Homes' = Homes /\ Len(stack') = Len(stack) - 1
        /\ 1 \in Setting /\ Len(stack) # 1 => 1 \in Setting'
    BY <1>4, <2>1, OverwriteKeepsHomes, ReturnKeepsHomes
  <2> QED BY <2>1, <2>2, ReturnKeepsRoom DEF RoomInv
<1>5. CASE GrowForLoad \/ GrowForRoom
  BY <1>5, GrowKeepsRoom DEF GrowForLoad, GrowForRoom, Placing
<1>6. CASE Place
  <2>1. /\ ~ Idle /\ Top.fn = "set" /\ stack' = Pop /\ count' = count + 1
        /\ capacity' = capacity /\ (Top.pc = "place" \/ ~ OverLoad)
    BY <1>6 DEF Place, Placing
  <2>2. /\ Homes' = Homes /\ Len(stack') = Len(stack) - 1
        /\ 1 \in Setting /\ Len(stack) # 1 => 1 \in Setting'
    BY <1>6, <2>1, PlaceKeepsHomes, ReturnKeepsHomes
  <2>3. RoomFound \/ 100 * count' <= 95 * capacity'
    BY <2>1, TypeFacts DEF RoomFound, OverLoad, TypeOK
  <2> QED BY <2>1, <2>2, <2>3, ReturnKeepsRoom
<1>7. CASE Rehash
  <2>1. /\ Homes' = Homes /\ Len(stack') = Len(stack) + 1
        /\ 1 \in Setting => 1 \in Setting'
    BY <1>7, RehashKeepsHomes
  <2>2. ~ Idle /\ count' = count /\ capacity' = capacity
    BY <1>7 DEF Rehash
  <2>3. RoomFound
    <3>1. Top.fn = "grow"
      BY <1>7 DEF Rehash
    <3>2. Len(stack) = 1 => 1 \notin Setting
      BY <3>1 DEF Setting, Top
    <3> QED BY <2>2, <3>2 DEF RoomInv, RoomFound
  <2> QED BY <2>1, <2>2, <2>3 DEF RoomInv
<1>8. CASE GrowReturns
  <2>1. /\ ~ Idle /\ Top.fn = "grow" /\ Top.todo = {} /\ stack' = Pop
        /\ slots' = slots /\ count' = count /\ capacity' = capacity
    BY <1>8 DEF GrowReturns
  <2>2. /\ Homes' = Homes /\ Len(stack') = Len(stack) - 1
        /\ 1 \in Setting /\ Len(stack) # 1 => 1 \in Setting'
    BY <2>1, ReturnKeepsHomes
  <2> QED BY <2>1, <2>2, ReturnKeepsRoom DEF RoomInv
<1>9. CASE UNCHANGED vars
  BY <1>2, <1>9 DEF vars
<1>10. ASSUME NEW k \in Key, Get(k)
       PROVE  RoomInv'
  BY <1>2, <1>10 DEF Get
<1> QED BY <1>1, <1>3, <1>4, <1>5, <1>6, <1>7, <1>8, <1>9, <1>10 DEF Next, TableStep

\* ST_ht_set never returns with the table more than 95% full, however often
\* it grew and whatever it met while it set the old entries again.
THEOREM LoadStaysBounded == Spec => []LoadBounded
<1>1. Init => IInv /\ RoomInv
  BY InitInv, InitRoom
<1>2. (IInv /\ RoomInv) /\ [Next]_vars => (IInv /\ RoomInv)'
  BY StepInv, RoomStep
<1>3. RoomInv => LoadBounded
  BY DEF RoomInv, LoadBounded
<1> QED BY <1>1, <1>2, <1>3, PTL DEF Spec
=============================================================================
