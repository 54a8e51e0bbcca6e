-------------------------- MODULE SanitizerProofs ---------------------------
(***************************************************************************)
(* For every page size, table, choice of sizes and answers of the system:  *)
(* no address lies in the ranges of two records of the sanitizer's heap,   *)
(* and what the runtime says of a program is true of it.                   *)
(*                                                                         *)
(* The range of a record is the data and a page on both sides, which the   *)
(* mapping it stands for always holds; and mappings are kept apart by the  *)
(* pages: a page that a record has taken never becomes free again.  The    *)
(* second theorem follows the program's calls instead of the records: also *)
(* those the table had no room for have a mapping of their own.            *)
(***************************************************************************)
EXTENDS Sanitizer, SequenceTheorems, TLAPS

MapEnd == (LastPage + 1) * Page

\* The record stands for a mapping that lies in memory and of which no page is
\* free, in the page table pg.
Placed(r, pg) ==
  /\ \E p \in Pages : r.base = p * Page
  /\ r.total = RoundUp(r.size) + 2 * Page
  /\ r.ptr = Pointer(r.base, r.size)
  /\ r.base + r.total <= MapEnd
  /\ \A p \in Mapped(r.base, r.total) : pg[p] # "free"

Apart(r, s) == r.base + r.total <= s.base \/ s.base + s.total <= r.base

Sound(rs, pg) ==
  /\ \A i \in 1 .. Len(rs) : Placed(rs[i], pg)
  /\ \A i, j \in 1 .. Len(rs) : i # j => Apart(rs[i], rs[j])

Rec == [ptr : Int, size : Sizes, total : Nat, base : Int, live : BOOLEAN]
PageTable == [Pages -> {"free", "open", "shut"}]

\* A record that mmap gave no mapping for may lie anywhere: nothing is said of
\* the heap once the system has refused.
IInv ==
  /\ records \in Seq(Rec)
  /\ page \in PageTable
  /\ failed \in BOOLEAN
  /\ ~failed => Sound(records, page)

LEMMA Rounding ==
  ASSUME NEW s \in Nat
  PROVE  RoundUp(s) \in Nat /\ s <= RoundUp(s) /\ RoundUp(s) < s + Page
<1> DEFINE x == s + Page - 1
<1>1. x \in Nat /\ Page \in Nat \ {0}
  BY PageAssumption
<1>2. ASSUME NEW a \in Nat, NEW d \in Nat, d > 0
      PROVE  (a \div d) \in Nat /\ (a \div d) * d <= a /\ a < (a \div d) * d + d
  BY <1>2, Z3
<1>3. (x \div Page) * Page <= x /\ x < (x \div Page) * Page + Page /\ (x \div Page) \in Nat
  BY <1>1, <1>2
<1> QED
  BY <1>1, <1>3, PageAssumption DEF RoundUp

\* The mapping of a record holds its range, page for page.
LEMMA RangeInside ==
  ASSUME NEW r, r.base \in Int, r.size \in Nat,
         r.total = RoundUp(r.size) + 2 * Page, r.ptr = Pointer(r.base, r.size)
  PROVE  r.base <= r.ptr - Page /\ r.ptr + r.size + Page = r.base + r.total
<1> DEFINE up == RoundUp(r.size)
<1>1. up \in Nat /\ r.size <= up
  BY Rounding
<1> HIDE DEF up
<1>2. r.ptr = r.base + Page + up - r.size /\ r.total = up + 2 * Page
  BY DEF Pointer, up
<1> QED
  BY <1>1, <1>2, PageAssumption

\* A mapping made of free pages is apart from every one that holds none.
LEMMA FreshApart ==
  ASSUME NEW b \in Int, NEW n \in Int, NEW c \in Int, NEW m \in Int,
         n > 0, m > 0,
         NEW p \in Pages, b = p * Page,
         NEW q \in Pages, c = q * Page,
         \A x \in Mapped(b, n) : page[x] = "free",
         \A x \in Mapped(c, m) : page[x] # "free"
  PROVE  b + n <= c \/ c + m <= b
<1> SUFFICES ASSUME c < b + n, b < c + m
             PROVE  FALSE
  OBVIOUS
<1>1. CASE b <= c
  <2>1. q \in Mapped(b, n) /\ q \in Mapped(c, m)
    BY <1>1 DEF Mapped
  <2> QED
    BY <2>1
<1>2. CASE c <= b
  <2>1. p \in Mapped(b, n) /\ p \in Mapped(c, m)
    BY <1>2 DEF Mapped
  <2> QED
    BY <2>1
<1> QED
  BY <1>1, <1>2

\* Pages that have been mapped stay that way, in a mapping and in a release.
LEMMA StaysMapped ==
  ASSUME page \in PageTable, NEW b, NEW n, NEW closed \in BOOLEAN,
         page' = Guarded(b, n, closed)
  PROVE  /\ page' \in PageTable
         /\ \A x \in Mapped(b, n) : page'[x] # "free"
         /\ \A x \in Pages : page[x] # "free" => page'[x] # "free"
  BY DEF PageTable, Guarded, Mapped

LEMMA StaysPlaced ==
  ASSUME NEW r, Placed(r, page), \A x \in Pages : page[x] # "free" => page'[x] # "free"
  PROVE  Placed(r, page')
  BY DEF Placed, Mapped

LEMMA StaysPlacedAll ==
  ASSUME Sound(records, page), \A x \in Pages : page[x] # "free" => page'[x] # "free"
  PROVE  Sound(records, page')
  BY StaysPlaced DEF Sound

-----------------------------------------------------------------------------
(* The invariant. *)

LEMMA InitIInv == Init => IInv
<1> SUFFICES ASSUME Init
             PROVE  IInv
  OBVIOUS
<1>1. records = <<>> /\ Len(records) = 0 /\ records \in Seq(Rec)
  BY EmptySeq DEF Init
<1>2. Sound(records, page)
  BY <1>1 DEF Sound
<1>3. failed = FALSE /\ page \in PageTable
  BY DEF Init, PageTable
<1> QED
  BY <1>1, <1>2, <1>3 DEF IInv

\* A record of a mapping of free pages joins the table.
LEMMA JoinsSound ==
  ASSUME records \in Seq(Rec), Sound(records, page), page \in PageTable,
         NEW new \in Rec, Placed(new, page'),
         \A x \in Mapped(new.base, new.total) : page[x] = "free",
         \A x \in Pages : page[x] # "free" => page'[x] # "free"
  PROVE  Sound(Append(records, new), page')
<1> DEFINE all == Append(records, new)
<1> DEFINE n == Len(records)
<1>1. /\ n \in Nat /\ Len(all) = n + 1
      /\ all[n + 1] = new
      /\ \A i \in 1 .. n : all[i] = records[i] /\ records[i] \in Rec
  OBVIOUS
<1>2. \A i \in 1 .. n + 1 : i \in 1 .. n \/ i = n + 1
  BY <1>1
<1>3. Sound(records, page')
  BY StaysPlacedAll
<1>4. ASSUME NEW r \in Rec, NEW pg, Placed(r, pg)
      PROVE  r.base \in Int /\ r.total \in Int /\ r.total > 0
  <2>1. r.base \in Int /\ r.total \in Nat /\ r.size \in Nat
    BY SizesAssumption DEF Rec
  <2>2. r.total = RoundUp(r.size) + 2 * Page
    BY <1>4 DEF Placed
  <2>3. RoundUp(r.size) \in Nat
    BY <2>1, Rounding
  <2> QED
    BY <2>1, <2>2, <2>3, PageAssumption
<1>5. ASSUME NEW i \in 1 .. n
      PROVE  Apart(new, records[i]) /\ Apart(records[i], new)
  <2> DEFINE r == records[i]
  <2>1. r \in Rec /\ Placed(r, page)
    BY <1>1 DEF Sound
  <2>2. PICK q \in Pages : r.base = q * Page
    BY <2>1 DEF Placed
  <2>3. PICK p \in Pages : new.base = p * Page
    BY DEF Placed
  <2>4. \A x \in Mapped(r.base, r.total) : page[x] # "free"
    BY <2>1 DEF Placed
  <2>5. /\ r.base \in Int /\ r.total \in Int /\ r.total > 0
        /\ new.base \in Int /\ new.total \in Int /\ new.total > 0
    BY <2>1, <1>4
  <2> HIDE DEF r
  <2>6. new.base + new.total <= r.base \/ r.base + r.total <= new.base
    BY <2>2, <2>3, <2>4, <2>5, FreshApart
  <2> QED
    BY <2>6 DEF Apart, r
<1>6. \A i \in 1 .. Len(all) : Placed(all[i], page')
  BY <1>1, <1>2, <1>3 DEF Sound
<1>7. \A i, j \in 1 .. Len(all) : i # j => Apart(all[i], all[j])
  <2> HIDE DEF all, n
  <2>1. \A i, j \in 1 .. n : i # j => Apart(records[i], records[j])
    BY <1>3 DEF Sound, n
  <2> QED
    BY <1>1, <1>2, <1>5, <2>1
<1> QED
  BY <1>6, <1>7 DEF Sound

\* An allocation: the table grows by a record of a fresh mapping, or stays.
LEMMA AllocIInv ==
  ASSUME IInv, NEW size \in Sizes, Alloc(size)
  PROVE  IInv'
<1> DEFINE n == RoundUp(size) + 2 * Page
<1> DEFINE New(b) == [ptr |-> Pointer(b, size), size |-> size, total |-> n, base |-> b,
                      live |-> TRUE]
<1>1. size \in Nat /\ Page \in Nat \ {0}
  BY SizesAssumption, PageAssumption
<1>2. RoundUp(size) \in Nat
  BY <1>1, Rounding
<1>3. n \in Nat
  BY <1>1, <1>2
<1>4. records \in Seq(Rec) /\ page \in PageTable /\ failed \in BOOLEAN
  BY DEF IInv
<1>5. ASSUME NEW b \in Int
      PROVE  /\ New(b) \in Rec /\ New(b).base = b /\ New(b).total = n
             /\ New(b).size = size /\ New(b).ptr = Pointer(b, size)
  <2>1. Pointer(b, size) \in Int
    BY <1>1, <1>2 DEF Pointer
  <2> QED
    BY <1>3, <2>1 DEF Rec
<1>6. ASSUME NEW b \in Int, Keep(b, size)
      PROVE  records' = records \/ records' = Append(records, New(b))
  BY <1>6 DEF Keep
<1>7. ASSUME NEW b \in Int, Keep(b, size)
      PROVE  records' \in Seq(Rec)
  <2> HIDE DEF New
  <2> QED
    BY <1>4, <1>5, <1>6, <1>7
<1>8. ASSUME NEW p \in Pages, NEW closed \in BOOLEAN,
             Fits(p * Page, n), page' = Guarded(p * Page, n, closed),
             Keep(p * Page, size), failed' = (failed \/ ~closed)
      PROVE  IInv'
  <2>0. p * Page \in Int
    BY <1>1 DEF Pages
  <2>1. records' \in Seq(Rec)
    BY <1>7, <1>8, <2>0
  <2>2. /\ page' \in PageTable
        /\ \A x \in Mapped(p * Page, n) : page'[x] # "free"
        /\ \A x \in Pages : page[x] # "free" => page'[x] # "free"
    BY <1>4, <1>8, StaysMapped
  <2>3. ASSUME ~failed'
        PROVE  Sound(records', page')
    <3>0. Sound(records, page)
      BY <2>3, <1>8, <1>4 DEF IInv
    <3>1. CASE records' = records
      BY <3>0, <3>1, <2>2, StaysPlacedAll
    <3>2. CASE records' = Append(records, New(p * Page))
      <4>1. /\ New(p * Page).base + New(p * Page).total <= MapEnd
            /\ \A x \in Mapped(New(p * Page).base, New(p * Page).total) : page[x] = "free"
        BY <1>5, <1>8, <2>0 DEF Fits, MapEnd
      <4>2. Placed(New(p * Page), page')
        BY <1>5, <2>0, <2>2, <4>1 DEF Placed
      <4>3. New(p * Page) \in Rec
        BY <1>5, <2>0
      <4> HIDE DEF New
      <4>4. Sound(Append(records, New(p * Page)), page')
        BY <1>4, <3>0, <2>2, <4>1, <4>2, <4>3, JoinsSound
      <4> QED
        BY <3>2, <4>4
    <3> QED
      BY <1>6, <1>8, <2>0, <3>1, <3>2
  <2>4. failed' \in BOOLEAN
    BY <1>8
  <2> QED
    BY <2>1, <2>2, <2>3, <2>4 DEF IInv
<1>9. ASSUME NEW e \in Errnos, Keep(-e, size), failed' = TRUE, UNCHANGED page
      PROVE  IInv'
  <2>1. -e \in Int
    BY ErrnosAssumption, PageAssumption
  <2>2. records' \in Seq(Rec)
    BY <1>7, <1>9, <2>1
  <2> QED
    BY <2>2, <1>4, <1>9 DEF IInv
<1>10. CASE UNCHANGED <<records, page, calls, failed>>
  BY <1>10 DEF IInv
<1> QED
  BY <1>8, <1>9, <1>10 DEF Alloc

\* What the invariant says of a record does not depend on its state.
LEMMA SoundWithoutLive ==
  ASSUME records \in Seq(Rec), NEW i,
         records' = [records EXCEPT ![i].live = FALSE]
  PROVE  records' \in Seq(Rec) /\ (Sound(records, page') => Sound(records', page'))
<1>1. Len(records) \in Nat /\ \A k \in 1 .. Len(records) : records[k] \in Rec
  OBVIOUS
<1>0. DOMAIN records = 1 .. Len(records)
  OBVIOUS
<1>2. /\ DOMAIN records' = 1 .. Len(records)
      /\ \A k \in 1 .. Len(records) :
           records'[k] = IF k = i THEN [records[k] EXCEPT !.live = FALSE] ELSE records[k]
  BY <1>0
<1>3. ASSUME NEW k \in 1 .. Len(records)
      PROVE  /\ records'[k] \in Rec
             /\ records'[k].ptr = records[k].ptr /\ records'[k].size = records[k].size
             /\ records'[k].total = records[k].total /\ records'[k].base = records[k].base
  BY <1>1, <1>2 DEF Rec
<1>4. records' \in Seq(Rec) /\ Len(records') = Len(records)
  <2>1. \A k \in 1 .. Len(records) : records'[k] \in Rec
    BY <1>3
  <2>2. records' = [k \in 1 .. Len(records) |-> records'[k]]
    BY <1>0, <1>2
  <2>3. records' \in [1 .. Len(records) -> Rec]
    BY <2>1, <2>2
  <2>4. records' \in Seq(Rec)
    BY <1>1, <2>3
  <2> QED
    BY <1>1, <1>2, <2>4
<1>5. ASSUME Sound(records, page')
      PROVE  Sound(records', page')
  <2>1. \A k \in 1 .. Len(records) : Placed(records'[k], page')
    BY <1>3, <1>5 DEF Sound, Placed
  <2>2. \A k, j \in 1 .. Len(records) : k # j => Apart(records'[k], records'[j])
    BY <1>3, <1>5 DEF Sound, Apart
  <2> QED
    BY <1>4, <2>1, <2>2 DEF Sound
<1> QED
  BY <1>4, <1>5

\* A release changes neither where records lie nor frees a page.
LEMMA FreeIInv ==
  ASSUME IInv, NEW q, Free(q)
  PROVE  IInv'
<1>1. CASE UNCHANGED <<records, page, calls, failed>>
  BY <1>1 DEF IInv
<1>2. ASSUME NEW i,
             records' = [records EXCEPT ![i].live = FALSE],
             \/ Released(records[i]) /\ UNCHANGED failed
             \/ ~failed /\ failed' = TRUE /\ UNCHANGED page
      PROVE  IInv'
  <2>1. records \in Seq(Rec) /\ page \in PageTable /\ failed \in BOOLEAN
    BY DEF IInv
  <2>2. /\ page' \in PageTable
        /\ \A x \in Pages : page[x] # "free" => page'[x] # "free"
    BY <1>2, <2>1 DEF Released, PageTable
  <2>3. failed' \in BOOLEAN
    BY <1>2, <2>1
  <2>4. records' \in Seq(Rec)
    BY <1>2, <2>1, SoundWithoutLive
  <2>5. ASSUME ~failed'
        PROVE  Sound(records', page')
    <3>1. Sound(records, page)
      BY <1>2, <2>1, <2>5 DEF IInv
    <3>2. Sound(records, page')
      BY <3>1, <2>2, StaysPlacedAll
    <3> QED
      BY <1>2, <2>1, <3>2, SoundWithoutLive
  <2> QED
    BY <2>2, <2>3, <2>4, <2>5 DEF IInv
<1> QED
  BY <1>1, <1>2 DEF Free

LEMMA NextIInv == IInv /\ [Next]_vars => IInv'
<1> SUFFICES ASSUME IInv, [Next]_vars
             PROVE  IInv'
  OBVIOUS
<1>1. CASE UNCHANGED <<records, page, failed>>
  BY <1>1 DEF IInv
<1>2. ASSUME NEW size \in Sizes, Alloc(size)
      PROVE  IInv'
  BY <1>2, AllocIInv
<1>3. ASSUME NEW q \in Pointers \cup Wild, Free(q)
      PROVE  IInv'
  BY <1>3, FreeIInv
<1>4. CASE AsanInit
  BY <1>4, <1>1 DEF AsanInit
<1>5. CASE \E a \in Addresses : Access(a)
  BY <1>5, <1>1 DEF Access
<1>6. CASE Return
  BY <1>6, <1>1 DEF Return
<1>7. CASE UNCHANGED vars
  BY <1>7, <1>1 DEF vars
<1> QED
  BY <1>2, <1>3, <1>4, <1>5, <1>6, <1>7 DEF Next

\* Disjoint mappings hold disjoint ranges.
LEMMA IInvImplies == IInv => RangesApart
<1> SUFFICES ASSUME IInv, ~failed, NEW i \in 1 .. Len(records), NEW j \in 1 .. Len(records), i # j
             PROVE  \/ records[i].ptr + records[i].size + Page <= records[j].ptr - Page
                    \/ records[j].ptr + records[j].size + Page <= records[i].ptr - Page
  BY DEF RangesApart
<1>1. records \in Seq(Rec) /\ Sound(records, page)
  BY DEF IInv
<1>2. /\ Placed(records[i], page) /\ Placed(records[j], page) /\ Apart(records[i], records[j])
      /\ records[i] \in Rec /\ records[j] \in Rec
  BY <1>1 DEF Sound
<1>3. ASSUME NEW r \in Rec, Placed(r, page)
      PROVE  /\ r.base <= r.ptr - Page /\ r.ptr + r.size + Page = r.base + r.total
             /\ r.base \in Int /\ r.total \in Int /\ r.ptr \in Int /\ r.size \in Nat
  <2>1. r.base \in Int /\ r.size \in Nat /\ r.total \in Nat /\ r.ptr \in Int
    BY SizesAssumption DEF Rec
  <2>2. r.total = RoundUp(r.size) + 2 * Page /\ r.ptr = Pointer(r.base, r.size)
    BY <1>3 DEF Placed
  <2> QED
    BY <2>1, <2>2, RangeInside
<1> DEFINE r == records[i]
<1> DEFINE s == records[j]
<1>4. /\ r.base <= r.ptr - Page /\ r.ptr + r.size + Page = r.base + r.total
      /\ r.base \in Int /\ r.total \in Int /\ r.ptr \in Int /\ r.size \in Nat
  BY <1>2, <1>3
<1>5. /\ s.base <= s.ptr - Page /\ s.ptr + s.size + Page = s.base + s.total
      /\ s.base \in Int /\ s.total \in Int /\ s.ptr \in Int /\ s.size \in Nat
  BY <1>2, <1>3
<1>6. r.base + r.total <= s.base \/ s.base + s.total <= r.base
  BY <1>2 DEF Apart
<1> QED
  BY <1>4, <1>5, <1>6, PageAssumption

\* For every page size, table size and behaviour of the system that refuses
\* nothing, an address belongs to at most one record: __asan_report never blames
\* another block than the one touched.
THEOREM RangesStayApart == Spec => []RangesApart
<1>1. Init => IInv
  BY InitIInv
<1>2. IInv /\ [Next]_vars => IInv'
  BY NextIInv
<1>3. IInv => RangesApart
  BY IInvImplies
<1> QED
  BY <1>1, <1>2, <1>3, PTL DEF Spec

-----------------------------------------------------------------------------
(***************************************************************************)
(* What the runtime says of a program is true of it.  Of each call of the  *)
(* allocator the invariant says which pages are its mapping and what they  *)
(* are open for; of the table, that it is the program's own view of the    *)
(* calls that found room in it.                                            *)
(***************************************************************************)

Call == [ptr : Int, size : Sizes, live : BOOLEAN, rec : Nat]

\* The mapping a call got, from the pointer it returned.
BaseOf(c) == c.ptr + c.size - RoundUp(c.size) - Page
TotalOf(c) == RoundUp(c.size) + 2 * Page
MapOf(c) == Mapped(BaseOf(c), TotalOf(c))
GuardsOf(c) == {PageOf(BaseOf(c)), PageOf(BaseOf(c) + TotalOf(c)) - 1}
CallsApart(c, d) == BaseOf(c) + TotalOf(c) <= BaseOf(d) \/ BaseOf(d) + TotalOf(d) <= BaseOf(c)

\* The mapping of a live call is open but for its two guards, that of a released
\* one is closed.
Stands(c, pg) ==
  /\ \E p \in Pages : BaseOf(c) = p * Page
  /\ BaseOf(c) + TotalOf(c) <= MapEnd
  /\ \A x \in MapOf(c) : pg[x] = IF c.live /\ x \notin GuardsOf(c) THEN "open" ELSE "shut"

Heap(cs, pg) ==
  /\ \A k \in 1 .. Len(cs) : Stands(cs[k], pg)
  /\ \A k, l \in 1 .. Len(cs) : k # l => CallsApart(cs[k], cs[l])

\* Each record is that of a call, and says the same of it.
Entered(c, rs) ==
  IF c.rec = 0 THEN c.live
  ELSE /\ c.rec \in 1 .. Len(rs)
       /\ rs[c.rec].ptr = c.ptr /\ rs[c.rec].size = c.size /\ rs[c.rec].live = c.live

Ledger(cs, rs) ==
  /\ \A k \in 1 .. Len(cs) : Entered(cs[k], rs)
  /\ \A i \in 1 .. Len(rs) : \E k \in 1 .. Len(cs) : cs[k].rec = i

VInv ==
  /\ IInv
  /\ calls \in Seq(Call)
  /\ Ledger(calls, records)
  /\ ~failed => Heap(calls, page)

LEMMA Monotone ==
  ASSUME NEW x \in Int, NEW y \in Int, x <= y
  PROVE  x * Page <= y * Page
<1>1. ASSUME NEW d \in Nat
      PROVE  x * d <= y * d
  BY <1>1, Z3
<1> QED
  BY <1>1, PageAssumption

LEMMA Quotient ==
  ASSUME NEW a \in Nat
  PROVE  PageOf(a) \in Nat /\ PageOf(a) * Page <= a /\ a < (PageOf(a) + 1) * Page
<1>1. ASSUME NEW d \in Nat, d > 0
      PROVE  (a \div d) \in Nat /\ (a \div d) * d <= a /\ a < (a \div d) * d + d
  BY <1>1, Z3
<1> DEFINE q == a \div Page
<1>2. q \in Nat /\ q * Page <= a /\ a < q * Page + Page
  BY <1>1, PageAssumption
<1> HIDE DEF q
<1>3. q * Page + Page = (q + 1) * Page
  BY <1>2, PageAssumption
<1> QED
  BY <1>2, <1>3 DEF PageOf, q

\* The pages of a range of bytes that begins and ends with a page.
LEMMA PageWithin ==
  ASSUME NEW a \in Nat, NEW j \in Int, NEW k \in Int, j * Page <= a, a < k * Page
  PROVE  PageOf(a) \in Nat /\ j <= PageOf(a) /\ PageOf(a) < k
<1> DEFINE q == PageOf(a)
<1>1. q \in Nat /\ q * Page <= a /\ a < (q + 1) * Page
  BY Quotient
<1> HIDE DEF q
<1>2. Page \in Nat /\ q + 1 \in Int /\ q * Page \in Int /\ (q + 1) * Page \in Int
      /\ j * Page \in Int /\ k * Page \in Int
  BY <1>1, PageAssumption
<1>3. j <= q
  <2>1. SUFFICES ASSUME q + 1 <= j
                 PROVE  FALSE
    BY <1>1
  <2>2. (q + 1) * Page <= j * Page
    BY <1>2, <2>1, Monotone
  <2> QED
    BY <1>1, <1>2, <2>2
<1>4. q < k
  <2>1. SUFFICES ASSUME k <= q
                 PROVE  FALSE
    BY <1>1
  <2>2. k * Page <= q * Page
    BY <1>1, <2>1, Monotone
  <2> QED
    BY <1>1, <1>2, <2>2
<1> QED
  BY <1>1, <1>3, <1>4 DEF q

LEMMA PageStart ==
  ASSUME NEW p \in Nat
  PROVE  PageOf(p * Page) = p
<1>1. p * Page \in Nat /\ p * Page <= p * Page /\ p * Page < (p + 1) * Page
  BY PageAssumption
<1>2. p <= PageOf(p * Page) /\ PageOf(p * Page) < p + 1 /\ PageOf(p * Page) \in Nat
  BY <1>1, PageWithin
<1> QED
  BY <1>2

\* Whole pages, one for each started page of the size.
LEMMA RoundsToPages ==
  ASSUME NEW s \in Nat
  PROVE  \E m \in Nat : RoundUp(s) = m * Page
<1>1. s + Page - 1 \in Nat
  BY PageAssumption
<1>2. PageOf(s + Page - 1) \in Nat
  BY <1>1, Quotient
<1> QED
  BY <1>2 DEF PageOf, RoundUp

\* A mapping of whole pages and the pages in it.
LEMMA MappedPages ==
  ASSUME NEW p \in Pages, NEW m \in Nat, p * Page + (m + 2) * Page <= MapEnd
  PROVE  /\ p \in Nat /\ p + m + 1 <= LastPage
         /\ Mapped(p * Page, (m + 2) * Page) = p .. p + m + 1
         /\ PageOf(p * Page) = p /\ PageOf(p * Page + (m + 2) * Page) - 1 = p + m + 1
<1>1. p \in Nat /\ FirstPage <= p /\ p <= LastPage /\ FirstPage \in Nat /\ LastPage \in Nat
  BY PageAssumption DEF Pages
<1> DEFINE e == p + m + 2
<1>2. e \in Nat /\ p * Page + (m + 2) * Page = e * Page
  BY <1>1, PageAssumption
<1>3. e * Page \in Int /\ MapEnd \in Int /\ e * Page <= MapEnd
  BY <1>1, <1>2, PageAssumption DEF MapEnd
<1>4. ASSUME NEW x \in Int, NEW y \in Int
      PROVE  x * Page < y * Page <=> x < y
  <2>1. x * Page \in Int /\ y * Page \in Int /\ (x + 1) * Page = x * Page + Page
        /\ (x + 1) * Page \in Int /\ Page > 0
    BY PageAssumption
  <2>2. CASE x < y
    <3>1. (x + 1) * Page <= y * Page
      BY <2>2, Monotone
    <3> QED
      BY <2>1, <2>2, <3>1, PageAssumption
  <2>3. CASE y <= x
    <3>1. y * Page <= x * Page
      BY <2>3, Monotone
    <3> QED
      BY <2>1, <2>3, <3>1
  <2> QED
    BY <2>2, <2>3
<1>5. e <= LastPage + 1
  <2>1. ~((LastPage + 1) * Page < e * Page)
    BY <1>1, <1>3 DEF MapEnd
  <2> QED
    BY <1>1, <1>2, <1>4, <2>1
<1>6. Mapped(p * Page, (m + 2) * Page) = p .. p + m + 1
  <2>1. ASSUME NEW x \in Int
        PROVE  (p * Page <= x * Page <=> p <= x) /\ (x * Page < e * Page <=> x < e)
    <3>1. (x * Page < p * Page <=> x < p) /\ (x * Page < e * Page <=> x < e)
      BY <1>1, <1>2, <1>4
    <3>2. x * Page \in Int /\ p * Page \in Int
      BY <1>1, PageAssumption
    <3> QED
      BY <1>1, <3>1, <3>2
  <2>2. \A x \in Pages : x \in Int /\ FirstPage <= x /\ x <= LastPage
    BY <1>1 DEF Pages
  <2>3. Mapped(p * Page, (m + 2) * Page) = {x \in Pages : p <= x /\ x < e}
    BY <1>2, <2>1, <2>2 DEF Mapped
  <2>4. {x \in Pages : p <= x /\ x < e} = p .. p + m + 1
    <3> HIDE DEF e
    <3>1. e = p + m + 2
      BY DEF e
    <3> QED
      BY <1>1, <1>5, <3>1 DEF Pages
  <2> QED
    BY <2>3, <2>4
<1>7. PageOf(p * Page) = p /\ PageOf(e * Page) = e
  BY <1>1, <1>2, PageStart
<1> QED
  BY <1>1, <1>2, <1>5, <1>6, <1>7

\* What a call that stands looks like, page for page.
LEMMA Layout ==
  ASSUME NEW c \in Call, NEW pg, Stands(c, pg)
  PROVE  \E p \in Pages, m \in Nat :
           /\ p \in Nat /\ p + m + 1 <= LastPage
           /\ BaseOf(c) = p * Page /\ RoundUp(c.size) = m * Page
           /\ TotalOf(c) = (m + 2) * Page
           /\ MapOf(c) = p .. p + m + 1 /\ GuardsOf(c) = {p, p + m + 1}
<1>1. c.size \in Nat /\ c.ptr \in Int
  BY SizesAssumption DEF Call
<1>2. PICK m \in Nat : RoundUp(c.size) = m * Page
  BY <1>1, RoundsToPages
<1>3. PICK p \in Pages : BaseOf(c) = p * Page
  BY DEF Stands
<1>4. TotalOf(c) = (m + 2) * Page
  BY <1>2, PageAssumption DEF TotalOf
<1>5. p * Page + (m + 2) * Page <= MapEnd
  BY <1>3, <1>4 DEF Stands
<1>6. /\ p \in Nat /\ p + m + 1 <= LastPage
      /\ Mapped(p * Page, (m + 2) * Page) = p .. p + m + 1
      /\ PageOf(p * Page) = p /\ PageOf(p * Page + (m + 2) * Page) - 1 = p + m + 1
  BY <1>5, MappedPages
<1>7. MapOf(c) = p .. p + m + 1 /\ GuardsOf(c) = {p, p + m + 1}
  BY <1>3, <1>4, <1>6 DEF MapOf, GuardsOf
<1> QED
  BY <1>2, <1>3, <1>4, <1>6, <1>7

\* Pointer and size against the mapping.
LEMMA CallInside ==
  ASSUME NEW c \in Call
  PROVE  /\ c.ptr \in Int /\ c.size \in Nat /\ BaseOf(c) \in Int /\ TotalOf(c) \in Nat
         /\ BaseOf(c) <= c.ptr - Page /\ c.ptr + c.size + Page = BaseOf(c) + TotalOf(c)
         /\ TotalOf(c) > 0
<1>1. c.size \in Nat /\ c.ptr \in Int
  BY SizesAssumption DEF Call
<1>2. RoundUp(c.size) \in Nat /\ c.size <= RoundUp(c.size)
  BY <1>1, Rounding
<1> QED
  BY <1>1, <1>2, PageAssumption DEF BaseOf, TotalOf

\* The data of a call lies in the pages between its guards, and what is a page
\* behind it in the second guard.
LEMMA DataAndGuard ==
  ASSUME NEW c \in Call, NEW pg, Stands(c, pg), NEW a \in Int
  PROVE  /\ c.ptr <= a /\ a < c.ptr + c.size =>
              PageOf(a) \in MapOf(c) /\ PageOf(a) \notin GuardsOf(c)
         /\ c.ptr + c.size <= a /\ a < c.ptr + c.size + Page =>
              PageOf(a) \in MapOf(c) /\ PageOf(a) \in GuardsOf(c)
<1>1. PICK p \in Pages, m \in Nat :
           /\ p \in Nat /\ p + m + 1 <= LastPage
           /\ BaseOf(c) = p * Page /\ RoundUp(c.size) = m * Page
           /\ TotalOf(c) = (m + 2) * Page
           /\ MapOf(c) = p .. p + m + 1 /\ GuardsOf(c) = {p, p + m + 1}
  BY Layout
<1>2. /\ c.ptr \in Int /\ c.size \in Nat /\ BaseOf(c) \in Int
      /\ BaseOf(c) <= c.ptr - Page /\ c.ptr + c.size + Page = BaseOf(c) + TotalOf(c)
  BY CallInside
<1> DEFINE lo == (p + 1) * Page
           hi == (p + m + 1) * Page
           top == (p + m + 2) * Page
<1>3. /\ lo \in Nat /\ hi \in Nat /\ top \in Nat
      /\ lo = BaseOf(c) + Page /\ hi = BaseOf(c) + Page + m * Page
      /\ top = BaseOf(c) + TotalOf(c) /\ top = hi + Page
  BY <1>1, PageAssumption
<1> HIDE DEF lo, hi, top
<1>4. ASSUME c.ptr <= a, a < c.ptr + c.size
      PROVE  PageOf(a) \in MapOf(c) /\ PageOf(a) \notin GuardsOf(c)
  <2>1. a \in Nat /\ lo <= a /\ a < hi
    BY <1>2, <1>3, <1>4, PageAssumption
  <2>2. PageOf(a) \in Nat /\ p + 1 <= PageOf(a) /\ PageOf(a) < p + m + 1
    BY <1>1, <2>1, PageWithin DEF lo, hi
  <2> QED
    BY <1>1, <2>2
<1>5. ASSUME c.ptr + c.size <= a, a < c.ptr + c.size + Page
      PROVE  PageOf(a) \in MapOf(c) /\ PageOf(a) \in GuardsOf(c)
  <2>1. a \in Nat /\ hi <= a /\ a < top
    BY <1>2, <1>3, <1>5, PageAssumption
  <2>2. PageOf(a) \in Nat /\ p + m + 1 <= PageOf(a) /\ PageOf(a) < p + m + 2
    BY <1>1, <2>1, PageWithin DEF hi, top
  <2> QED
    BY <1>1, <2>2
<1> QED
  BY <1>4, <1>5

-----------------------------------------------------------------------------
(* What a search of the table finds. *)

LEMMA Faces ==
  ASSUME VInv, ~failed
  PROVE  /\ \A k \in 1 .. Len(calls) :
              calls[k] \in Call /\ Stands(calls[k], page) /\ Entered(calls[k], records)
         /\ \A k, l \in 1 .. Len(calls) : k # l => CallsApart(calls[k], calls[l])
         /\ \A i \in 1 .. Len(records) : \E k \in 1 .. Len(calls) : calls[k].rec = i
<1>1. calls \in Seq(Call) /\ Ledger(calls, records) /\ Heap(calls, page)
  BY DEF VInv
<1>2. \A k \in 1 .. Len(calls) : calls[k] \in Call
  BY <1>1
<1> QED
  BY <1>1, <1>2 DEF Heap, Ledger

\* Two calls with an address in the range of both are one.
LEMMA OneCall ==
  ASSUME VInv, ~failed, NEW a \in Int,
         NEW k \in 1 .. Len(calls), NEW l \in 1 .. Len(calls),
         calls[k].ptr - Page <= a, a < calls[k].ptr + calls[k].size + Page,
         calls[l].ptr - Page <= a, a < calls[l].ptr + calls[l].size + Page
  PROVE  k = l
<1> DEFINE c == calls[k]
           d == calls[l]
<1>1. c \in Call /\ d \in Call /\ (k # l => CallsApart(c, d))
  BY Faces
<1>2. /\ c.ptr \in Int /\ c.size \in Nat /\ BaseOf(c) \in Int /\ TotalOf(c) \in Nat
      /\ BaseOf(c) <= c.ptr - Page /\ c.ptr + c.size + Page = BaseOf(c) + TotalOf(c)
  BY <1>1, CallInside
<1>3. /\ d.ptr \in Int /\ d.size \in Nat /\ BaseOf(d) \in Int /\ TotalOf(d) \in Nat
      /\ BaseOf(d) <= d.ptr - Page /\ d.ptr + d.size + Page = BaseOf(d) + TotalOf(d)
  BY <1>1, CallInside
<1>4. /\ c.ptr - Page <= a /\ a < c.ptr + c.size + Page
      /\ d.ptr - Page <= a /\ a < d.ptr + d.size + Page
  OBVIOUS
<1> HIDE DEF c, d
<1>5. BaseOf(c) <= a /\ a < BaseOf(c) + TotalOf(c)
  BY <1>2, <1>4, PageAssumption
<1>6. BaseOf(d) <= a /\ a < BaseOf(d) + TotalOf(d)
  BY <1>3, <1>4, PageAssumption
<1>7. ~CallsApart(c, d)
  <2> DEFINE b == BaseOf(c)
             t == BaseOf(c) + TotalOf(c)
             e == BaseOf(d)
             u == BaseOf(d) + TotalOf(d)
  <2>1. b \in Int /\ t \in Int /\ e \in Int /\ u \in Int
    <3>1. \A i \in Int, j \in Nat : i \in Int /\ i + j \in Int
      OBVIOUS
    <3> QED
      BY <3>1, <1>2, <1>3
  <2>2. b <= a /\ a < t /\ e <= a /\ a < u
    BY <1>5, <1>6
  <2>3. CallsApart(c, d) <=> t <= e \/ u <= b
    BY DEF CallsApart
  <2> HIDE DEF b, t, e, u
  <2> QED
    BY <2>1, <2>2, <2>3
<1> QED
  BY <1>1, <1>7

LEMMA FirstOfOne ==
  ASSUME NEW i, NEW S, S = {i}, i <= i
  PROVE  First(S) = i
  BY DEF First

\* An address in the range of a call is put down to that call, or to none when
\* the table had no room for it.
LEMMA Blamed ==
  ASSUME VInv, ~failed, NEW a \in Int, NEW k \in 1 .. Len(calls),
         calls[k].ptr - Page <= a, a < calls[k].ptr + calls[k].size + Page
  PROVE  FindRecord(a) = calls[k].rec
<1> DEFINE hits == {i \in 1 .. Len(records) : InRange(records[i], a)}
<1>1. ASSUME NEW i \in hits
      PROVE  i = calls[k].rec /\ i # 0
  <2>1. PICK l \in 1 .. Len(calls) : calls[l].rec = i
    BY <1>1, Faces
  <2>2. i # 0
    BY <1>1
  <2>3. records[i].ptr = calls[l].ptr /\ records[i].size = calls[l].size
    BY <2>1, <2>2, Faces DEF Entered
  <2>4. calls[l].ptr - Page <= a /\ a < calls[l].ptr + calls[l].size + Page
    BY <1>1, <2>3 DEF InRange
  <2>5. k = l
    BY <2>4, OneCall
  <2> QED
    BY <2>1, <2>2, <2>5
<1>2. CASE calls[k].rec = 0
  <2>1. hits = {}
    BY <1>1, <1>2
  <2> QED
    BY <1>2, <2>1 DEF FindRecord
<1>3. CASE calls[k].rec # 0
  <2> DEFINE i == calls[k].rec
  <2>1. i \in 1 .. Len(records) /\ records[i].ptr = calls[k].ptr /\ records[i].size = calls[k].size
    BY <1>3, Faces DEF Entered
  <2>2. i \in hits
    BY <2>1 DEF InRange
  <2>3. hits = {i} /\ i <= i /\ hits # {}
    BY <1>1, <2>1, <2>2
  <2>4. First(hits) = i
    BY <2>3, FirstOfOne
  <2> QED
    BY <2>3, <2>4 DEF FindRecord
<1> QED
  BY <1>2, <1>3

\* A pointer that a call returned is the pointer of its record and of no other.
LEMMA FoundByPtr ==
  ASSUME VInv, ~failed, NEW k \in 1 .. Len(calls), calls[k].rec # 0
  PROVE  FindRecordByPtr(calls[k].ptr) = calls[k].rec
<1> DEFINE q == calls[k].ptr
           j == calls[k].rec
           hits == {i \in 1 .. Len(records) : records[i].ptr = q}
<1>0. q \in Int /\ q - Page <= q /\ q < q + calls[k].size + Page
  BY Faces, CallInside, PageAssumption
<1>1. ASSUME NEW i \in hits
      PROVE  i = j
  <2>1. PICK l \in 1 .. Len(calls) : calls[l].rec = i
    BY <1>1, Faces
  <2>2. i # 0
    BY <1>1
  <2>3. calls[l].ptr = q
    BY <1>1, <2>1, <2>2, Faces DEF Entered
  <2>4. calls[l].ptr - Page <= q /\ q < calls[l].ptr + calls[l].size + Page
    <3>1. calls[l].size \in Nat
      BY Faces, CallInside
    <3> QED
      BY <2>3, <3>1, <1>0, PageAssumption
  <2>5. k = l
    BY <1>0, <2>4, OneCall
  <2> QED
    BY <2>1, <2>5
<1>2. j \in 1 .. Len(records) /\ records[j].ptr = q
  BY Faces DEF Entered
<1>3. hits = {j} /\ j <= j /\ hits # {}
  BY <1>1, <1>2
<1>4. First(hits) = j
  BY <1>3, FirstOfOne
<1> QED
  BY <1>3, <1>4 DEF FindRecordByPtr

\* A pointer that has a record was returned by a call.
LEMMA FindsCall ==
  ASSUME VInv, ~failed, NEW q, FindRecordByPtr(q) # 0
  PROVE  \E k \in 1 .. Len(calls) : calls[k].ptr = q /\ calls[k].rec = FindRecordByPtr(q)
<1> DEFINE hits == {i \in 1 .. Len(records) : records[i].ptr = q}
<1>1. PICK i \in hits : TRUE
  BY DEF FindRecordByPtr
<1>2. PICK k \in 1 .. Len(calls) : calls[k].rec = i
  BY <1>1, Faces
<1>3. calls[k].ptr = q /\ calls[k].rec # 0
  BY <1>1, <1>2, Faces DEF Entered
<1> QED
  BY <1>3, FoundByPtr

-----------------------------------------------------------------------------
(* Table and calls through an allocation and a release. *)

LEMMA AllocLedger ==
  ASSUME VInv, NEW size \in Sizes, NEW b \in Int, Keep(b, size)
  PROVE  calls' \in Seq(Call) /\ Ledger(calls', records')
<1> DEFINE ptr == Pointer(b, size)
           m == Len(records)
           n == Len(calls)
           r == [ptr |-> ptr, size |-> size, total |-> RoundUp(size) + 2 * Page, base |-> b,
                 live |-> TRUE]
           c == [ptr |-> ptr, size |-> size, live |-> TRUE, rec |-> IF Room THEN m + 1 ELSE 0]
<1>1. records \in Seq(Rec) /\ calls \in Seq(Call) /\ m \in Nat /\ n \in Nat /\ Ledger(calls, records)
  BY DEF VInv, IInv
<1>2. /\ records' = IF Room THEN Append(records, r) ELSE records
      /\ calls' = Append(calls, c)
  BY DEF Keep
<1>3. c \in Call
  <2>1. size \in Nat /\ RoundUp(size) \in Nat
    BY SizesAssumption, Rounding
  <2>2. ptr \in Int
    BY <2>1, PageAssumption DEF Pointer
  <2> QED
    BY <1>1, <2>2 DEF Call
<1>4. c.ptr = ptr /\ c.size = size /\ c.live /\ c.rec = (IF Room THEN m + 1 ELSE 0)
  OBVIOUS
<1>5. r.ptr = ptr /\ r.size = size /\ r.live
  OBVIOUS
<1> HIDE DEF c, r
<1>6. /\ calls' \in Seq(Call) /\ Len(calls') = n + 1 /\ calls'[n + 1] = c
      /\ \A k \in 1 .. n : calls'[k] = calls[k]
  BY <1>1, <1>2, <1>3
<1>7. /\ \A i \in 1 .. m : records'[i] = records[i]
      /\ Room => Len(records') = m + 1 /\ records'[m + 1] = r
      /\ ~Room => Len(records') = m
  BY <1>1, <1>2
<1> HIDE DEF ptr, m, n
<1>8. \A k \in 1 .. n : Entered(calls[k], records')
  <2>1. \A k \in 1 .. n : Entered(calls[k], records)
    BY <1>1 DEF Ledger, n
  <2>2. 1 .. m \subseteq 1 .. Len(records')
    BY <1>1, <1>7
  <2> QED
    BY <2>1, <2>2, <1>7 DEF Entered, m
<1>9. Entered(c, records')
  <2>1. CASE Room
    <3>1. m + 1 \in 1 .. Len(records') /\ m + 1 # 0
      BY <1>1, <1>7, <2>1
    <3> QED
      BY <1>4, <1>5, <1>7, <2>1, <3>1 DEF Entered
  <2>2. CASE ~Room
    BY <1>4, <2>2 DEF Entered
  <2> QED
    BY <2>1, <2>2
<1>10. \A k \in 1 .. n + 1 : k \in 1 .. n \/ k = n + 1
  BY <1>1
<1>11. \A k \in 1 .. Len(calls') : Entered(calls'[k], records')
  BY <1>6, <1>8, <1>9, <1>10
<1>12. ASSUME NEW i \in 1 .. Len(records')
       PROVE  \E k \in 1 .. Len(calls') : calls'[k].rec = i
  <2>1. CASE i \in 1 .. m
    <3>1. PICK k \in 1 .. n : calls[k].rec = i
      BY <1>1, <2>1 DEF Ledger, m, n
    <3>2. k \in 1 .. Len(calls') /\ calls'[k] = calls[k]
      BY <1>1, <1>6
    <3> QED
      BY <3>1, <3>2
  <2>2. CASE Room /\ i = m + 1
    <3>1. n + 1 \in 1 .. Len(calls')
      BY <1>1, <1>6
    <3> QED
      BY <1>4, <1>6, <2>2, <3>1
  <2> QED
    BY <1>1, <1>7, <2>1, <2>2
<1> QED
  BY <1>6, <1>11, <1>12 DEF Ledger

\* What the release of record i does to the table and to the calls.
Cleared(i) ==
  /\ records' = [records EXCEPT ![i].live = FALSE]
  /\ calls' = [k \in 1 .. Len(calls) |->
                 IF calls[k].rec = i THEN [calls[k] EXCEPT !.live = FALSE] ELSE calls[k]]

LEMMA ClearedCalls ==
  ASSUME VInv, NEW i, Cleared(i)
  PROVE  /\ calls' \in Seq(Call) /\ Len(calls') = Len(calls)
         /\ \A k \in 1 .. Len(calls) :
              /\ calls'[k].ptr = calls[k].ptr /\ calls'[k].size = calls[k].size
              /\ calls'[k].rec = calls[k].rec
              /\ calls[k].rec = i => ~calls'[k].live
              /\ calls[k].rec # i => calls'[k] = calls[k]
<1>1. calls \in Seq(Call) /\ Len(calls) \in Nat
  BY DEF VInv
<1>2. ASSUME NEW k \in 1 .. Len(calls)
      PROVE  /\ calls'[k] \in Call
             /\ calls'[k].ptr = calls[k].ptr /\ calls'[k].size = calls[k].size
             /\ calls'[k].rec = calls[k].rec
             /\ calls[k].rec = i => ~calls'[k].live
             /\ calls[k].rec # i => calls'[k] = calls[k]
  <2>1. calls[k] \in Call
    BY <1>1
  <2>2. calls'[k] = IF calls[k].rec = i THEN [calls[k] EXCEPT !.live = FALSE] ELSE calls[k]
    BY DEF Cleared
  <2> QED
    BY <2>1, <2>2 DEF Call
<1>3. calls' \in [1 .. Len(calls) -> Call]
  BY <1>2 DEF Cleared
<1>4. calls' \in Seq(Call) /\ Len(calls') = Len(calls)
  BY <1>1, <1>3
<1> QED
  BY <1>2, <1>4

LEMMA FreeLedger ==
  ASSUME VInv, NEW i, i # 0, Cleared(i)
  PROVE  Ledger(calls', records')
<1>1. records \in Seq(Rec) /\ Ledger(calls, records)
  BY DEF VInv, IInv
<1>2. /\ Len(records') = Len(records)
      /\ \A j \in 1 .. Len(records) :
           /\ records'[j].ptr = records[j].ptr /\ records'[j].size = records[j].size
           /\ j = i => ~records'[j].live
           /\ j # i => records'[j] = records[j]
  <2>1. DOMAIN records = 1 .. Len(records) /\ Len(records) \in Nat
        /\ \A j \in 1 .. Len(records) : records[j] \in Rec
    BY <1>1
  <2>2. /\ DOMAIN records' = DOMAIN records
        /\ \A j \in DOMAIN records :
             records'[j] = IF j = i THEN [records[j] EXCEPT !.live = FALSE] ELSE records[j]
    BY DEF Cleared
  <2>3. records' \in Seq(Rec)
    BY <1>1, SoundWithoutLive DEF Cleared
  <2>4. Len(records') = Len(records)
    BY <2>1, <2>2, <2>3
  <2>5. ASSUME NEW j \in 1 .. Len(records)
        PROVE  /\ records'[j].ptr = records[j].ptr /\ records'[j].size = records[j].size
               /\ j = i => ~records'[j].live
               /\ j # i => records'[j] = records[j]
    <3>1. records[j] \in Rec
          /\ records'[j] = IF j = i THEN [records[j] EXCEPT !.live = FALSE] ELSE records[j]
      BY <2>1, <2>2
    <3> QED
      BY <3>1 DEF Rec
  <2> QED
    BY <2>4, <2>5
<1>3. /\ Len(calls') = Len(calls)
      /\ \A k \in 1 .. Len(calls) :
           /\ calls'[k].ptr = calls[k].ptr /\ calls'[k].size = calls[k].size
           /\ calls'[k].rec = calls[k].rec
           /\ calls[k].rec = i => ~calls'[k].live
           /\ calls[k].rec # i => calls'[k] = calls[k]
  BY ClearedCalls
<1>4. ASSUME NEW k \in 1 .. Len(calls)
      PROVE  Entered(calls'[k], records')
  <2>1. Entered(calls[k], records)
    BY <1>1 DEF Ledger
  <2>2. CASE calls[k].rec = i
    <3>1. /\ i \in 1 .. Len(records) /\ records[i].ptr = calls[k].ptr
          /\ records[i].size = calls[k].size
      BY <2>1, <2>2 DEF Entered
    <3>2. records'[i].live = FALSE /\ calls'[k].live = FALSE
      <4>1. records'[i].live \in BOOLEAN /\ calls'[k].live \in BOOLEAN
        <5>1. calls' \in Seq(Call) /\ records' \in Seq(Rec)
          BY <1>1, ClearedCalls, SoundWithoutLive DEF Cleared
        <5>2. calls'[k] \in Call /\ records'[i] \in Rec
          BY <5>1, <1>2, <1>3, <3>1
        <5> QED
          BY <5>2 DEF Call, Rec
      <4> QED
        BY <4>1, <1>2, <1>3, <2>2, <3>1
    <3> QED
      BY <1>2, <1>3, <2>2, <3>1, <3>2 DEF Entered
  <2>3. CASE calls[k].rec # i
    BY <1>2, <1>3, <2>1, <2>3 DEF Entered
  <2> QED
    BY <2>2, <2>3
<1>5. \A j \in 1 .. Len(records) : \E k \in 1 .. Len(calls) : calls'[k].rec = j
  BY <1>1, <1>3 DEF Ledger
<1> QED
  BY <1>2, <1>3, <1>4, <1>5 DEF Ledger

-----------------------------------------------------------------------------
(* Pages and calls through an allocation and a release. *)

\* Pages that no mapping of a call holds may change as they like.
LEMMA StillStands ==
  ASSUME NEW c, NEW pg, NEW pg2, Stands(c, pg), \A x \in MapOf(c) : pg2[x] = pg[x]
  PROVE  Stands(c, pg2)
  BY DEF Stands

LEMMA AllocHeap ==
  ASSUME VInv, ~failed, NEW size \in Sizes, NEW p \in Pages,
         Fits(p * Page, RoundUp(size) + 2 * Page),
         page' = Guarded(p * Page, RoundUp(size) + 2 * Page, TRUE),
         Keep(p * Page, size)
  PROVE  Heap(calls', page')
<1> DEFINE b == p * Page
           t == RoundUp(size) + 2 * Page
           n == Len(calls)
           c == [ptr |-> Pointer(b, size), size |-> size, live |-> TRUE,
                 rec |-> IF Room THEN Len(records) + 1 ELSE 0]
<1>1. /\ size \in Nat /\ RoundUp(size) \in Nat /\ b \in Int /\ t \in Int /\ t > 0
  BY SizesAssumption, Rounding, PageAssumption DEF Pages
<1>2. calls \in Seq(Call) /\ n \in Nat /\ calls' = Append(calls, c)
  BY DEF VInv, Keep
<1>3. c.ptr = Pointer(b, size) /\ c.size = size /\ c.live = TRUE
  OBVIOUS
<1> HIDE DEF c
<1>4. BaseOf(c) = b /\ TotalOf(c) = t
  BY <1>1, <1>3, PageAssumption DEF BaseOf, TotalOf, Pointer
<1>5. /\ Len(calls') = n + 1 /\ calls'[n + 1] = c
      /\ \A k \in 1 .. n : calls'[k] = calls[k]
  BY <1>2
<1>6. \A k \in 1 .. n + 1 : k \in 1 .. n \/ k = n + 1
  BY <1>2
<1>7. b + t <= MapEnd /\ \A x \in Mapped(b, t) : page[x] = "free"
  BY DEF Fits, MapEnd
<1>8. \A x \in Pages : page'[x] = IF x \notin Mapped(b, t) THEN page[x]
                                  ELSE IF x \in {PageOf(b), PageOf(b + t) - 1} THEN "shut" ELSE "open"
  BY DEF Guarded
<1>9. \A x : x \in Mapped(b, t) => x \in Pages
  BY DEF Mapped
<1> HIDE DEF b, t, n
<1>10. Stands(c, page')
  <2>1. MapOf(c) = Mapped(b, t) /\ GuardsOf(c) = {PageOf(b), PageOf(b + t) - 1}
    BY <1>4 DEF MapOf, GuardsOf
  <2>2. \A x \in MapOf(c) :
          page'[x] = IF c.live /\ x \notin GuardsOf(c) THEN "open" ELSE "shut"
    BY <1>3, <1>8, <1>9, <2>1
  <2> QED
    BY <1>4, <1>7, <2>2 DEF Stands, b
<1>11. ASSUME NEW k \in 1 .. n
       PROVE  /\ \A x \in MapOf(calls[k]) : page[x] # "free"
              /\ Stands(calls[k], page')
  <2>1. Stands(calls[k], page)
    BY Faces DEF n
  <2>2. \A x \in MapOf(calls[k]) : page[x] # "free"
    BY <2>1 DEF Stands
  <2>3. \A x \in MapOf(calls[k]) : x \in Pages /\ x \notin Mapped(b, t)
    BY <1>7, <2>2 DEF MapOf, Mapped
  <2>4. \A x \in MapOf(calls[k]) : page'[x] = page[x]
    BY <1>8, <2>3
  <2> QED
    BY <2>1, <2>2, <2>4, StillStands
<1>12. ASSUME NEW k \in 1 .. n
       PROVE  CallsApart(c, calls[k]) /\ CallsApart(calls[k], c)
  <2> DEFINE d == calls[k]
  <2>1. d \in Call /\ Stands(d, page)
    BY Faces DEF n
  <2>2. BaseOf(d) \in Int /\ TotalOf(d) \in Int /\ TotalOf(d) > 0
    BY <2>1, CallInside
  <2>3. PICK q \in Pages : BaseOf(d) = q * Page
    BY <2>1 DEF Stands
  <2>4. \A x \in Mapped(BaseOf(d), TotalOf(d)) : page[x] # "free"
    BY <1>11 DEF MapOf
  <2>5. b = p * Page
    BY DEF b
  <2> HIDE DEF d
  <2>6. b + t <= BaseOf(d) \/ BaseOf(d) + TotalOf(d) <= b
    BY <1>1, <1>7, <2>2, <2>3, <2>4, <2>5, FreshApart
  <2> QED
    BY <1>4, <2>6 DEF CallsApart, d
<1>13. \A k, l \in 1 .. n : k # l => CallsApart(calls[k], calls[l])
  BY Faces DEF n
<1>14. \A k \in 1 .. Len(calls') : Stands(calls'[k], page')
  BY <1>5, <1>6, <1>10, <1>11
<1>15. \A k, l \in 1 .. Len(calls') : k # l => CallsApart(calls'[k], calls'[l])
  BY <1>5, <1>6, <1>12, <1>13
<1> QED
  BY <1>14, <1>15 DEF Heap

\* The mapping a record names is that of its call.
LEMMA RecordMapping ==
  ASSUME VInv, ~failed, NEW k \in 1 .. Len(calls), calls[k].rec # 0
  PROVE  /\ calls[k].rec \in 1 .. Len(records)
         /\ Mapped(records[calls[k].rec].base, records[calls[k].rec].total) = MapOf(calls[k])
<1> DEFINE c == calls[k]
           r == records[c.rec]
<1>1. c.rec \in 1 .. Len(records) /\ r.ptr = c.ptr /\ r.size = c.size
  BY Faces DEF Entered
<1>2. r \in Rec /\ Placed(r, page)
  BY <1>1 DEF VInv, IInv, Sound
<1>3. r.base \in Int /\ r.size \in Nat /\ r.ptr \in Int
  BY <1>2, SizesAssumption DEF Rec
<1>4. RoundUp(r.size) \in Nat
  BY <1>3, Rounding
<1>5. r.total = RoundUp(r.size) + 2 * Page /\ r.ptr = r.base + Page + RoundUp(r.size) - r.size
  BY <1>2 DEF Placed, Pointer
<1>6. r.base = BaseOf(c)
  <2>1. BaseOf(c) = r.ptr + r.size - RoundUp(r.size) - Page
    BY <1>1 DEF BaseOf
  <2> HIDE DEF r, c
  <2> QED
    BY <2>1, <1>3, <1>4, <1>5, PageAssumption
<1>7. r.total = TotalOf(c)
  BY <1>1, <1>5 DEF TotalOf
<1> QED
  BY <1>1, <1>6, <1>7 DEF MapOf

LEMMA NoCommonPage ==
  ASSUME NEW c \in Call, NEW d \in Call, CallsApart(c, d)
  PROVE  \A x \in MapOf(c) : x \notin MapOf(d)
<1> SUFFICES ASSUME NEW x \in MapOf(c), x \in MapOf(d)
             PROVE  FALSE
  OBVIOUS
<1>1. /\ BaseOf(c) \in Int /\ TotalOf(c) \in Nat /\ BaseOf(d) \in Int /\ TotalOf(d) \in Nat
  BY CallInside
<1>2. /\ BaseOf(c) <= x * Page /\ x * Page < BaseOf(c) + TotalOf(c)
      /\ BaseOf(d) <= x * Page /\ x * Page < BaseOf(d) + TotalOf(d)
      /\ x * Page \in Int
  BY PageAssumption DEF MapOf, Mapped, Pages
<1> QED
  BY <1>1, <1>2 DEF CallsApart

LEMMA FreeHeap ==
  ASSUME VInv, ~failed, NEW q, FindRecordByPtr(q) # 0,
         Cleared(FindRecordByPtr(q)), Released(records[FindRecordByPtr(q)])
  PROVE  Heap(calls', page')
<1> DEFINE i == FindRecordByPtr(q)
           n == Len(calls)
<1>1. PICK k0 \in 1 .. n : calls[k0].ptr = q /\ calls[k0].rec = i
  BY FindsCall
<1> DEFINE S == MapOf(calls[k0])
<1>2. S = Mapped(records[i].base, records[i].total)
  BY <1>1, RecordMapping
<1>3. \A x \in Pages : page'[x] = IF x \in S THEN "shut" ELSE page[x]
  BY <1>2 DEF Released
<1>4. Len(calls') = n /\ \A k \in 1 .. n :
         /\ calls'[k].ptr = calls[k].ptr /\ calls'[k].size = calls[k].size
         /\ calls[k].rec = i => ~calls'[k].live
         /\ calls[k].rec # i => calls'[k] = calls[k]
  BY ClearedCalls
<1>5. ASSUME NEW k \in 1 .. n
      PROVE  /\ BaseOf(calls'[k]) = BaseOf(calls[k]) /\ TotalOf(calls'[k]) = TotalOf(calls[k])
             /\ MapOf(calls'[k]) = MapOf(calls[k])
  BY <1>4 DEF BaseOf, TotalOf, MapOf
<1>6. \A k \in 1 .. n : calls[k] \in Call /\ Stands(calls[k], page)
  BY Faces
<1>7. \A k, l \in 1 .. n : k # l => CallsApart(calls[k], calls[l])
  BY Faces
<1>8. ASSUME NEW k \in 1 .. n, k # k0
      PROVE  calls[k].rec # i
  <2>1. SUFFICES ASSUME calls[k].rec = i
                 PROVE  FALSE
    OBVIOUS
  <2>2. calls[k].ptr = calls[k0].ptr
    BY <1>1, <2>1, Faces DEF Entered
  <2> DEFINE c == calls[k]
             d == calls[k0]
  <2>3. /\ c \in Call /\ d \in Call /\ c.ptr = d.ptr
    BY <1>6, <2>2
  <2>4. /\ c.ptr \in Int /\ c.size \in Nat /\ d.size \in Nat
    BY <2>3, CallInside
  <2>5. /\ c.ptr - Page <= c.ptr /\ c.ptr < c.ptr + c.size + Page
        /\ d.ptr - Page <= c.ptr /\ c.ptr < d.ptr + d.size + Page
    BY <2>3, <2>4, PageAssumption
  <2>6. k = k0
    BY <2>4, <2>5, OneCall
  <2> QED
    BY <2>6, <1>8
<1> HIDE DEF S, i, n
<1>9. ASSUME NEW k \in 1 .. n
      PROVE  Stands(calls'[k], page')
  <2>1. Stands(calls[k], page) /\ \A x \in MapOf(calls[k]) : x \in Pages
    BY <1>6 DEF MapOf, Mapped
  <2>2. CASE k = k0
    <3>1. ~calls'[k].live
      BY <1>1, <1>4, <2>2
    <3>2. \A x \in MapOf(calls'[k]) : page'[x] = "shut"
      BY <1>3, <1>5, <2>1, <2>2 DEF S
    <3> QED
      BY <1>5, <2>1, <3>1, <3>2 DEF Stands
  <2>3. CASE k # k0
    <3>1. calls'[k] = calls[k]
      BY <1>4, <1>8, <2>3
    <3>2. \A x \in MapOf(calls[k]) : x \notin S
      BY <1>6, <1>7, <2>3, NoCommonPage DEF S
    <3>3. \A x \in MapOf(calls[k]) : page'[x] = page[x]
      BY <1>3, <2>1, <3>2
    <3> QED
      BY <2>1, <3>1, <3>3, StillStands
  <2> QED
    BY <2>2, <2>3
<1>10. \A k, l \in 1 .. n : k # l => CallsApart(calls'[k], calls'[l])
  BY <1>5, <1>7 DEF CallsApart
<1> QED
  BY <1>4, <1>9, <1>10 DEF Heap

-----------------------------------------------------------------------------
(* The invariant, and what follows from it for the step that judges. *)

LEMMA InitVInv == Init => VInv
<1> SUFFICES ASSUME Init
             PROVE  VInv
  OBVIOUS
<1>1. calls = <<>> /\ records = <<>>
  BY DEF Init
<1>2. Len(calls) = 0 /\ Len(records) = 0 /\ calls \in Seq(Call)
  BY <1>1, EmptySeq
<1>3. Ledger(calls, records) /\ Heap(calls, page)
  BY <1>2 DEF Ledger, Heap
<1> QED
  BY <1>2, <1>3, InitIInv DEF VInv

LEMMA AllocVInv ==
  ASSUME VInv, NEW size \in Sizes, Alloc(size)
  PROVE  VInv'
<1>1. IInv'
  BY AllocIInv DEF VInv
<1>2. failed \in BOOLEAN /\ Page \in Nat
  BY PageAssumption DEF VInv, IInv
<1> DEFINE n == RoundUp(size) + 2 * Page
<1>3. ASSUME NEW p \in Pages, NEW closed \in BOOLEAN,
             Fits(p * Page, n), page' = Guarded(p * Page, n, closed),
             Keep(p * Page, size), failed' = (failed \/ ~closed)
      PROVE  VInv'
  <2>1. p * Page \in Int
    BY <1>2, PageAssumption DEF Pages
  <2>2. calls' \in Seq(Call) /\ Ledger(calls', records')
    BY <1>3, <2>1, AllocLedger
  <2>3. ASSUME ~failed'
        PROVE  Heap(calls', page')
    <3>1. ~failed /\ closed = TRUE
      BY <1>2, <1>3, <2>3
    <3> QED
      BY <1>3, <3>1, AllocHeap
  <2> QED
    BY <1>1, <2>2, <2>3 DEF VInv
<1>4. ASSUME NEW e \in Errnos, Keep(-e, size), failed' = TRUE
      PROVE  VInv'
  <2>1. -e \in Int
    BY ErrnosAssumption, PageAssumption
  <2>2. calls' \in Seq(Call) /\ Ledger(calls', records')
    BY <1>4, <2>1, AllocLedger
  <2> QED
    BY <1>1, <1>4, <2>2 DEF VInv
<1>5. CASE UNCHANGED <<records, page, calls, failed>>
  BY <1>1, <1>5 DEF VInv, Ledger, Heap
<1> QED
  BY <1>3, <1>4, <1>5 DEF Alloc

\* The three ways a release may end.
LEMMA FreeCases ==
  ASSUME NEW q, Free(q)
  PROVE  LET i == FindRecordByPtr(q) IN
           \/ /\ i = 0
              /\ verdict' = Stops("invalid free", 0)
              /\ UNCHANGED <<records, page, calls, failed>>
           \/ /\ i # 0 /\ ~records[i].live
              /\ verdict' = Stops("double free", i)
              /\ UNCHANGED <<records, page, calls, failed>>
           \/ /\ i # 0 /\ Cleared(i) /\ verdict' = Runs
              /\ \/ Released(records[i]) /\ UNCHANGED failed
                 \/ failed'
  BY DEF Free, Cleared, Running

LEMMA FreeVInv ==
  ASSUME VInv, NEW q, Free(q)
  PROVE  VInv'
<1> DEFINE i == FindRecordByPtr(q)
<1>1. IInv'
  BY FreeIInv DEF VInv
<1>2. CASE UNCHANGED <<records, page, calls, failed>>
  BY <1>1, <1>2 DEF VInv, Ledger, Heap
<1>3. CASE i # 0 /\ Cleared(i) /\ ((Released(records[i]) /\ UNCHANGED failed) \/ failed')
  <2>1. calls' \in Seq(Call) /\ Ledger(calls', records')
    BY <1>3, ClearedCalls, FreeLedger
  <2>2. ASSUME ~failed'
        PROVE  Heap(calls', page')
    BY <1>3, <2>2, FreeHeap
  <2> QED
    BY <1>1, <2>1, <2>2 DEF VInv
<1> QED
  BY <1>2, <1>3, FreeCases

LEMMA AccessJudged ==
  ASSUME VInv, ~failed, NEW a \in Addresses, Access(a)
  PROVE  AccessesJudged'
<1>1. /\ did'.op = "access" /\ did'.arg = a /\ calls' = calls
      /\ verdict' = IF Open(a) THEN Runs ELSE Report(a)
  BY DEF Access, Running
<1>2. a \in Nat
  BY DEF Addresses
<1>3. ASSUME NEW k \in 1 .. Len(calls)
      PROVE  /\ Covers(k, a) /\ calls[k].live => verdict' = Runs
             /\ (Covers(k, a) /\ ~calls[k].live) \/ Behind(k, a) =>
                  verdict' = IF calls[k].rec = 0 THEN Stops("untracked", 0)
                             ELSE Stops(IF calls[k].live THEN "overflow" ELSE "use after free",
                                        calls[k].rec)
  <2> DEFINE c == calls[k]
  <2>1. c \in Call /\ Stands(c, page) /\ Entered(c, records)
    BY Faces
  <2>2. /\ c.ptr \in Int /\ c.size \in Nat /\ BaseOf(c) \in Int /\ BaseOf(c) <= c.ptr - Page
    BY <2>1, CallInside
  <2>3. /\ Covers(k, a) => PageOf(a) \in MapOf(c) /\ PageOf(a) \notin GuardsOf(c)
        /\ Behind(k, a) => PageOf(a) \in MapOf(c) /\ PageOf(a) \in GuardsOf(c)
    BY <1>2, <2>1, DataAndGuard DEF Covers, Behind
  <2>4. PageOf(a) \in MapOf(c) =>
          /\ PageOf(a) \in Pages
          /\ page[PageOf(a)] = IF c.live /\ PageOf(a) \notin GuardsOf(c) THEN "open" ELSE "shut"
    BY <2>1 DEF Stands, MapOf, Mapped
  <2>5. ASSUME Covers(k, a), c.live
        PROVE  verdict' = Runs
    BY <1>1, <2>3, <2>4, <2>5 DEF Open
  <2>6. ASSUME (Covers(k, a) /\ ~c.live) \/ Behind(k, a)
        PROVE  verdict' = IF c.rec = 0 THEN Stops("untracked", 0)
                          ELSE Stops(IF c.live THEN "overflow" ELSE "use after free", c.rec)
    <3>1. verdict' = Report(a)
      BY <1>1, <2>3, <2>4, <2>6 DEF Open
    <3>2. /\ c.ptr - Page <= a /\ a < c.ptr + c.size + Page /\ c.ptr <= a
      BY <1>2, <2>2, <2>6, PageAssumption DEF Covers, Behind
    <3>3. FindRecord(a) = c.rec
      BY <1>2, <3>2, Blamed
    <3>4. ~(a < NearNull)
      <4>1. PICK p \in Pages : BaseOf(c) = p * Page
        BY <2>1 DEF Stands
      <4>2. FirstPage * Page <= p * Page
        BY Monotone, PageAssumption DEF Pages
      <4>3. FirstPage * Page \in Int /\ p * Page \in Int
        BY PageAssumption DEF Pages
      <4> QED
        BY <1>2, <2>2, <3>2, <4>1, <4>2, <4>3, PageAssumption DEF NearNull
    <3>5. c.rec # 0 => records[c.rec].live = c.live
      BY <2>1 DEF Entered
    <3> QED
      BY <3>1, <3>3, <3>4, <3>5 DEF Report
  <2> QED
    BY <2>5, <2>6
<1> QED
  BY <1>1, <1>3 DEF AccessesJudged, Covers, Behind

LEMMA FreeJudged ==
  ASSUME VInv, NEW q, Free(q), ~failed'
  PROVE  FreesJudged'
<1> DEFINE i == FindRecordByPtr(q)
           of == {k \in 1 .. Len(calls) : calls[k].ptr = q /\ calls[k].rec # 0}
<1>1. did'.op = "free" /\ did'.arg = q
  BY DEF Free
<1>2. ~failed
  BY FreeCases DEF Free
<1>3. ASSUME NEW k \in of
      PROVE  calls[k].rec = i /\ i # 0
  BY <1>2, FoundByPtr
<1>4. i # 0 => of # {}
  <2>1. SUFFICES ASSUME i # 0
                 PROVE  of # {}
    OBVIOUS
  <2>2. PICK k \in 1 .. Len(calls) : calls[k].ptr = q /\ calls[k].rec = i
    BY <1>2, <2>1, FindsCall
  <2> QED
    BY <2>1, <2>2
<1>5. CASE i = 0 /\ calls' = calls /\ verdict' = Stops("invalid free", 0)
  <2>1. of = {}
    BY <1>3, <1>5
  <2> QED
    BY <1>1, <1>5, <2>1 DEF FreesJudged
<1>6. CASE i # 0 /\ ~records[i].live /\ calls' = calls /\ verdict' = Stops("double free", i)
  <2>1. \A k \in of : ~calls[k].live /\ verdict' = Stops("double free", calls[k].rec)
    BY <1>2, <1>3, <1>6, Faces DEF Entered
  <2> QED
    BY <1>1, <1>4, <1>6, <2>1 DEF FreesJudged
<1>7. CASE i # 0 /\ Cleared(i) /\ verdict' = Runs
  <2> DEFINE of2 == {k \in 1 .. Len(calls') : calls'[k].ptr = q /\ calls'[k].rec # 0}
  <2>1. of2 = of
    BY <1>7, ClearedCalls
  <2>2. \A k \in of : ~calls'[k].live
    BY <1>3, <1>7, ClearedCalls
  <2> QED
    BY <1>1, <1>4, <1>7, <2>1, <2>2 DEF FreesJudged
<1> QED
  BY <1>5, <1>6, <1>7, FreeCases

LEMMA ReturnExact ==
  ASSUME VInv, Return
  PROVE  LeaksExact'
<1>1. verdict'.leaks = Leaks /\ calls' = calls
  BY DEF Return
<1>2. Ledger(calls, records)
  BY DEF VInv
<1> DEFINE mine == {calls[k].rec : k \in {j \in 1 .. Len(calls) : calls[j].live}} \ {0}
<1>3. ASSUME NEW i \in Leaks
      PROVE  i \in mine
  <2>1. i \in 1 .. Len(records) /\ records[i].live /\ i # 0
    BY DEF Leaks
  <2>2. PICK k \in 1 .. Len(calls) : calls[k].rec = i
    BY <1>2, <2>1 DEF Ledger
  <2>3. calls[k].live
    BY <1>2, <2>1, <2>2 DEF Ledger, Entered
  <2> QED
    BY <2>1, <2>2, <2>3
<1>4. ASSUME NEW i \in mine
      PROVE  i \in Leaks
  <2>1. PICK k \in 1 .. Len(calls) : calls[k].rec = i /\ calls[k].live /\ i # 0
    OBVIOUS
  <2>2. i \in 1 .. Len(records) /\ records[i].live
    BY <1>2, <2>1 DEF Ledger, Entered
  <2> QED
    BY <2>2 DEF Leaks
<1>5. Leaks = mine
  BY <1>3, <1>4
<1> QED
  BY <1>1, <1>5 DEF LeaksExact

-----------------------------------------------------------------------------
\* The verdict of the step that was last, and the state it left.
Judged == VInv /\ VerdictsRight

LEMMA NextJudged == Judged /\ [Next]_vars => Judged'
<1> SUFFICES ASSUME VInv, VerdictsRight, [Next]_vars
             PROVE  VInv' /\ VerdictsRight'
  BY DEF Judged
<1>0. (\A end, who : Stops(end, who).end = end) /\ Runs.end = "runs"
  BY DEF Stops, Runs
<1>1. CASE UNCHANGED <<records, page, calls, failed>> /\ did' = did /\ verdict' = verdict
  <2>1. VInv'
    BY <1>1 DEF VInv, IInv, Ledger, Heap
  <2>2. VerdictsRight'
    BY <1>1 DEF VerdictsRight, AccessesJudged, FreesJudged, LeaksExact, Covers, Behind
  <2> QED
    BY <2>1, <2>2
<1>2. CASE \E size \in Sizes : Alloc(size)
  <2>1. PICK size \in Sizes : Alloc(size)
    BY <1>2
  <2>2. did'.op = "alloc" /\ verdict' = Runs
    <3>1. verdict' = Runs
      BY <2>1 DEF Alloc, Running
    <3>2. \A b : Keep(b, size) => did'.op = "alloc"
      BY DEF Keep
    <3>3. did' = [op |-> "alloc", arg |-> -1] => did'.op = "alloc"
      OBVIOUS
    <3> QED
      BY <2>1, <3>1, <3>2, <3>3 DEF Alloc
  <2>3. VerdictsRight'
    BY <1>0, <2>2 DEF VerdictsRight, AccessesJudged, FreesJudged, LeaksExact
  <2> QED
    BY <2>1, <2>3, AllocVInv
<1>3. CASE \E q \in Pointers \cup Wild : Free(q)
  <2>1. PICK q \in Pointers \cup Wild : Free(q)
    BY <1>3
  <2>2. did'.op = "free"
    BY <2>1 DEF Free
  <2>3. verdict'.end # "returned"
    <3> DEFINE i == FindRecordByPtr(q)
    <3>1. verdict' \in {Stops("invalid free", 0), Stops("double free", i), Runs}
      BY <2>1, FreeCases
    <3> HIDE DEF i
    <3> QED
      BY <1>0, <3>1
  <2>4. ~failed' => FreesJudged'
    BY <2>1, FreeJudged
  <2>5. VerdictsRight'
    BY <2>2, <2>3, <2>4 DEF VerdictsRight, AccessesJudged, LeaksExact
  <2> QED
    BY <2>1, <2>5, FreeVInv
<1>4. CASE \E a \in Addresses : Access(a)
  <2>1. PICK a \in Addresses : Access(a)
    BY <1>4
  <2>2. /\ did'.op = "access" /\ UNCHANGED <<records, page, calls, failed>>
        /\ verdict' = Runs \/ verdict' = Report(a)
    BY <2>1 DEF Access, Running
  <2>3. verdict'.end # "returned"
    <3>1. Report(a).end # "returned"
      <4>1. \E end \in {"overflow", "use after free", "null", "untracked"} :
              \E who : Report(a) = Stops(end, who)
        BY Zenon DEF Report
      <4>2. PICK end \in {"overflow", "use after free", "null", "untracked"} : Report(a).end = end
        BY <1>0, <4>1
      <4> QED
        BY <4>2
    <3> QED
      BY <1>0, <2>2, <3>1
  <2>4. ~failed' => AccessesJudged'
    BY <2>1, <2>2, AccessJudged
  <2>5. VerdictsRight'
    BY <2>2, <2>3, <2>4 DEF VerdictsRight, FreesJudged, LeaksExact
  <2>6. VInv'
    BY <2>2 DEF VInv, IInv, Ledger, Heap
  <2> QED
    BY <2>5, <2>6
<1>5. CASE Return
  <2>1. did'.op = "return" /\ UNCHANGED <<records, page, calls, failed>>
    BY <1>5 DEF Return
  <2>2. VerdictsRight'
    BY <1>5, <2>1, ReturnExact DEF VerdictsRight, AccessesJudged, FreesJudged
  <2>3. VInv'
    BY <2>1 DEF VInv, IInv, Ledger, Heap
  <2> QED
    BY <2>2, <2>3
<1>6. CASE AsanInit
  BY <1>1, <1>6 DEF AsanInit
<1>7. CASE UNCHANGED vars
  BY <1>1, <1>7 DEF vars
<1> QED
  BY <1>2, <1>3, <1>4, <1>5, <1>6, <1>7 DEF Next

\* For every page size, table, choice of sizes and placement of mappings, unless
\* the system has refused one: the program is stopped at the first access to a
\* released block or to the page behind a block, and never inside a live one;
\* the report names the block concerned; a release is refused exactly when it
\* should be; and the list of leaks at the end is that of the blocks not
\* released (__asan_report, __asan_free, __asan_report_leaks).
THEOREM VerdictsAreRight == Spec => []VerdictsRight
<1>1. Init => Judged
  <2>1. Init => VerdictsRight
    BY DEF Init, VerdictsRight, AccessesJudged, FreesJudged, LeaksExact, Runs
  <2> QED
    BY <2>1, InitVInv DEF Judged
<1>2. Judged /\ [Next]_vars => Judged'
  BY NextJudged
<1>3. Judged => VerdictsRight
  BY DEF Judged
<1> QED
  BY <1>1, <1>2, <1>3, PTL DEF Spec
=============================================================================
