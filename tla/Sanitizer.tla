------------------------------ MODULE Sanitizer -----------------------------
(***************************************************************************)
(* The heap of an instrumented program: the assembly runtime that          *)
(* st_address_sanitizer.c writes behind every program, its allocator with  *)
(* guard pages, its table of records, and the report a fault ends in.      *)
(* ST_asan_runtime_asm_src and ST_asan_runtime_asm_src_fasm hold the same  *)
(* code for the two assemblers.                                            *)
(***************************************************************************)
EXTENDS Integers, Sequences

CONSTANTS
  Page,        \* bytes of a page; 4096
  FirstPage,   \* number of the first page the system maps: 16, after the 65536
               \* bytes a report takes for a null pointer
  LastPage,    \* number of the last page it maps
  MaxRecords,  \* entries of __asan_records; 65536
  Sizes,       \* the sizes the program asks for
  Errnos,      \* what mmap may fail with: 1 is EPERM, 12 is ENOMEM
  MaxCalls     \* allocations of one program

VARIABLES
  records,  \* __asan_records, as far as __asan_record_count
  page,     \* page[p]: what the system has made of page p
  ready,    \* __asan_initialized: the signal handler is installed
  calls,    \* history: the allocations as the program sees them
  did,      \* history: the last thing the program did
  verdict,  \* how the program has ended, or "runs"
  failed    \* history: the system has refused something

vars == <<records, page, ready, calls, did, verdict, failed>>

ASSUME PageAssumption == Page \in Nat \ {0} /\ FirstPage \in Nat \ {0} /\ LastPage \in Nat
ASSUME SizesAssumption == Sizes \subseteq Nat
\* An error number is less than a page: the pointer made of it is near null.
ASSUME ErrnosAssumption == Errnos \subseteq 1 .. Page - 1
ASSUME BoundsAssumption == MaxRecords \in Nat /\ MaxCalls \in Nat

Pages == FirstPage .. LastPage
NearNull == FirstPage * Page
PageOf(a) == a \div Page

\* The size in whole pages: add 4095 and clear the low bits.
RoundUp(size) == ((size + Page - 1) \div Page) * Page

Runs == [end |-> "runs", who |-> 0, leaks |-> {}]
Stops(end, who) == [end |-> end, who |-> who, leaks |-> {}]

Init ==
  /\ records = <<>>
  /\ page = [p \in Pages |-> "free"]
  /\ ready = FALSE
  /\ calls = <<>>
  /\ did = [op |-> "nothing", arg |-> 0]
  /\ verdict = Runs
  /\ failed = FALSE

Running == verdict = Runs

-----------------------------------------------------------------------------
(***************************************************************************)
(* The table.                                                              *)
(***************************************************************************)

\* As a slip: the size is left out of the range.
InRangeNoSize(r, a) == r.ptr - Page <= a /\ a < r.ptr + Page

\* Address a belongs to a record: from a page before its pointer to a page after
\* its end.
InRange(r, a) == r.ptr - Page <= a /\ a < r.ptr + r.size + Page

First(S) == CHOOSE i \in S : \A j \in S : i <= j

\* __asan_find_record and __asan_find_record_by_ptr: the first match, or 0.
FindRecord(a) ==
  LET hits == {i \in 1 .. Len(records) : InRange(records[i], a)} IN
    IF hits = {} THEN 0 ELSE First(hits)
FindRecordByPtr(q) ==
  LET hits == {i \in 1 .. Len(records) : records[i].ptr = q} IN
    IF hits = {} THEN 0 ELSE First(hits)

-----------------------------------------------------------------------------
(***************************************************************************)
(* Allocation and release.                                                 *)
(***************************************************************************)

\* main begins with a call of __asan_init.
AsanInit ==
  /\ Running /\ ~ready
  /\ ready' = TRUE
  /\ UNCHANGED <<records, page, calls, did, verdict, failed>>

\* The pages of a mapping of n bytes at base.
Mapped(base, n) == {p \in Pages : base <= p * Page /\ p * Page < base + n}
Fits(base, n) == base + n <= (LastPage + 1) * Page /\ \A p \in Mapped(base, n) : page[p] = "free"

\* A mapping of n bytes, the first and the last page closed; when the system
\* refuses to close them, they stay open.
Guarded(base, n, closed) ==
  [p \in Pages |->
     IF p \notin Mapped(base, n) THEN page[p]
     ELSE IF closed /\ p \in {PageOf(base), PageOf(base + n) - 1} THEN "shut" ELSE "open"]

\* The pointer leaves no room between the end of the data and the guard.
Pointer(base, size) == base + Page + RoundUp(size) - size

\* The record, when the table has room, and the pointer the program gets.
Room == Len(records) < MaxRecords
Keep(base, size) ==
  LET ptr == Pointer(base, size) IN
    /\ records' = IF Room
                  THEN Append(records, [ptr |-> ptr, size |-> size,
                                        total |-> RoundUp(size) + 2 * Page, base |-> base,
                                        live |-> TRUE])
                  ELSE records
    /\ calls' = Append(calls, [ptr |-> ptr, size |-> size, live |-> TRUE,
                               rec |-> IF Room THEN Len(records) + 1 ELSE 0])
    /\ did' = [op |-> "alloc", arg |-> ptr]

\* __asan_alloc.  Only an mmap that returns -1 counts as failed: after any other
\* error the number is taken for the base of a mapping, and what follows on it
\* fails unseen.  The system refuses once in a behaviour (or says so with EPERM).
Alloc(size) ==
  /\ Running /\ ready /\ Len(calls) < MaxCalls
  /\ LET n == RoundUp(size) + 2 * Page IN
       \/ \E p \in Pages, closed \in BOOLEAN :
            /\ closed \/ ~failed
            /\ Fits(p * Page, n)
            /\ page' = Guarded(p * Page, n, closed)
            /\ Keep(p * Page, size)
            /\ failed' = (failed \/ ~closed)
       \/ \E e \in Errnos \ {1} :
            /\ ~failed /\ failed' = TRUE
            /\ Keep(-e, size)
            /\ UNCHANGED page
       \/ /\ 1 \in Errnos
          /\ did' = [op |-> "alloc", arg |-> -1]
          /\ UNCHANGED <<records, page, calls, failed>>
  /\ UNCHANGED <<ready, verdict>>

\* As a slip: the mapping given back to the system.
ReleasedUnmapped(r) ==
  page' = [p \in Pages |-> IF p \in Mapped(r.base, r.total) THEN "free" ELSE page[p]]

\* The whole mapping is closed for good, unless the system refuses.
Released(r) ==
  page' = [p \in Pages |-> IF p \in Mapped(r.base, r.total) THEN "shut" ELSE page[p]]

\* __asan_free: an unknown pointer and a second release end the program.
Free(q) ==
  /\ Running /\ ready
  /\ did' = [op |-> "free", arg |-> q]
  /\ LET i == FindRecordByPtr(q) IN
       \/ /\ i = 0
          /\ verdict' = Stops("invalid free", 0)
          /\ UNCHANGED <<records, page, calls, failed>>
       \/ /\ i # 0 /\ ~records[i].live
          /\ verdict' = Stops("double free", i)
          /\ UNCHANGED <<records, page, calls, failed>>
       \/ /\ i # 0 /\ records[i].live
          /\ records' = [records EXCEPT ![i].live = FALSE]
          /\ calls' = [k \in 1 .. Len(calls) |->
                         IF calls[k].rec = i THEN [calls[k] EXCEPT !.live = FALSE] ELSE calls[k]]
          /\ \/ Released(records[i]) /\ UNCHANGED failed
             \/ ~failed /\ failed' = TRUE /\ UNCHANGED page
          /\ UNCHANGED verdict
  /\ UNCHANGED ready

-----------------------------------------------------------------------------
(***************************************************************************)
(* Accesses, and the end.                                                  *)
(***************************************************************************)

Open(a) == PageOf(a) \in Pages /\ page[PageOf(a)] = "open"

\* __asan_report.
Report(a) ==
  LET i == FindRecord(a) IN
    IF i # 0 THEN Stops(IF records[i].live THEN "overflow" ELSE "use after free", i)
    ELSE Stops(IF a < NearNull THEN "null" ELSE "untracked", 0)

\* A load or store at a.  The processor lets it through or raises the signal,
\* whose handler reports and exits.
Access(a) ==
  /\ Running /\ ready
  /\ did' = [op |-> "access", arg |-> a]
  /\ verdict' = IF Open(a) THEN verdict ELSE Report(a)
  /\ UNCHANGED <<records, page, ready, calls, failed>>

\* __asan_report_leaks, deferred to the end of main.
Leaks == {i \in 1 .. Len(records) : records[i].live}
Return ==
  /\ Running /\ ready
  /\ did' = [op |-> "return", arg |-> 0]
  /\ verdict' = [end |-> "returned", who |-> 0, leaks |-> Leaks]
  /\ UNCHANGED <<records, page, ready, calls, failed>>

\* The program frees what it was given, or a pointer into it, or none at all; it
\* touches any address.
Pointers == {calls[k].ptr : k \in 1 .. Len(calls)}
Wild == {0} \cup {q + 1 : q \in Pointers}
Addresses == 0 .. (LastPage + 1) * Page - 1

Next ==
  \/ AsanInit
  \/ \E size \in Sizes : Alloc(size)
  \/ \E q \in Pointers \cup Wild : Free(q)
  \/ \E a \in Addresses : Access(a)
  \/ Return

Spec == Init /\ [][Next]_vars

-----------------------------------------------------------------------------
(***************************************************************************)
(* Properties.                                                             *)
(***************************************************************************)

\* No address lies in the ranges of two records, so that the first match of
\* __asan_find_record is the only one, although the ranges are a page wider than
\* the data on both sides and released blocks keep their records for ever.
RangesApart ==
  ~failed =>
    \A i, j \in 1 .. Len(records) :
      i # j => \/ records[i].ptr + records[i].size + Page <= records[j].ptr - Page
               \/ records[j].ptr + records[j].size + Page <= records[i].ptr - Page

\* What a call of the program covers, and what lies right behind it.
Covers(k, a) == calls[k].ptr <= a /\ a < calls[k].ptr + calls[k].size
Behind(k, a) == calls[k].ptr + calls[k].size <= a /\ a < calls[k].ptr + calls[k].size + Page

\* An access inside a live block goes through.  One inside a released block, or
\* up to a page behind any block, ends the program and is put down to that block
\* (as long as the table had room for it).
AccessesJudged ==
  did.op = "access" =>
    \A k \in 1 .. Len(calls) :
      /\ Covers(k, did.arg) /\ calls[k].live => verdict = Runs
      /\ (Covers(k, did.arg) /\ ~calls[k].live) \/ Behind(k, did.arg) =>
           verdict = IF calls[k].rec = 0 THEN Stops("untracked", 0)
                     ELSE Stops(IF calls[k].live THEN "overflow" ELSE "use after free",
                                calls[k].rec)

\* Releasing is refused exactly for a pointer that was not returned, one already
\* released, and one returned after the table was full, of which the report says
\* that it was never returned.
FreesJudged ==
  did.op = "free" =>
    LET of == {k \in 1 .. Len(calls) : calls[k].ptr = did.arg /\ calls[k].rec # 0} IN
      \/ of = {} /\ verdict = Stops("invalid free", 0)
      \/ of # {} /\ \A k \in of : ~calls[k].live /\ verdict \in {Runs, Stops("double free", calls[k].rec)}

\* The report at the end lists the blocks that were not released, each once.
LeaksExact ==
  verdict.end = "returned" =>
    verdict.leaks = {calls[k].rec : k \in {i \in 1 .. Len(calls) : calls[i].live}} \ {0}

\* What the runtime says of a program is true of it, unless the system has
\* refused a mapping or a protection, which the runtime does not notice.
VerdictsRight == (~failed => AccessesJudged /\ FreesJudged) /\ LeaksExact
=============================================================================
