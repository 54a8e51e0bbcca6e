------------------------------ MODULE SSAProofs -------------------------------
(***************************************************************************)
(* What a function built by SSAFunction has in its slots when it runs, for *)
(* every profile: the graph keeps to the protocol of the construction, so  *)
(* that SSAConstruction applies to each of its steps, and an execution     *)
(* keeps in the slot of every value that stands for a variable what the    *)
(* source program has in the variable.                                     *)
(***************************************************************************)
EXTENDS SSAFunction, SSAConstruction

-----------------------------------------------------------------------------
(* The graph. *)

Terms == [kind : {"none", "br", "condbr", "ret", "unreachable"}, to : Seq(Nat)]

BlockType == [preds : Seq(Nat), sealed : BOOLEAN, term : Terms, lowered : BOOLEAN,
              enter : Seq(Nat), pend : Seq(Nat)]

\* Only terminated blocks are predecessors, and of all their targets.
GraphInv(g, c) ==
  /\ g \in Seq(BlockType) /\ 1 \in DOMAIN g /\ g[1].sealed /\ g[1].preds = <<>>
  /\ \A b \in DOMAIN g : /\ \A p \in Preds(g, b) : p \in DOMAIN g /\ ~IsOpen(g, p)
                         /\ \A t \in Targets(g, b) : t \in DOMAIN g /\ b \in Preds(g, t)
                         /\ ~g[b].lowered => IsOpen(g, b)
  /\ c # NoBlock => c \in DOMAIN g /\ IsOpen(g, c) /\ g[c].lowered

LEMMA BlockFields ==
  ASSUME NEW g \in Seq(BlockType), NEW b \in DOMAIN g
  PROVE  /\ g[b] \in BlockType /\ g[b].preds \in Seq(Nat) /\ g[b].sealed \in BOOLEAN
         /\ g[b].term \in Terms /\ g[b].lowered \in BOOLEAN
         /\ DOMAIN g[b].preds = 1..Len(g[b].preds) /\ Len(g[b].preds) \in Nat
<1>1. g[b] \in BlockType
  OBVIOUS
<1>2. g[b].preds \in Seq(Nat) /\ g[b].sealed \in BOOLEAN /\ g[b].term \in Terms /\ g[b].lowered \in BOOLEAN
  BY <1>1 DEF BlockType
<1> QED
  BY <1>1, <1>2

LEMMA GraphOf ==
  ASSUME NEW g, NEW c, GraphInv(g, c)
  PROVE  Graph(g) /\ \A b \in DOMAIN g : DOMAIN g[b].preds = 1..Len(g[b].preds)
<1>1. g \in Seq(BlockType) /\ 1 \in DOMAIN g /\ g[1].preds = <<>>
  BY DEF GraphInv
<1>2. Len(g) \in Nat /\ DOMAIN g = 1..Len(g)
  BY <1>1
<1>3. ASSUME NEW b \in DOMAIN g
      PROVE  /\ g[b].preds \in Seq(DOMAIN g) /\ g[b].sealed \in BOOLEAN
             /\ DOMAIN g[b].preds = 1..Len(g[b].preds)
  <2>1. /\ g[b].preds \in Seq(Nat) /\ g[b].sealed \in BOOLEAN
        /\ DOMAIN g[b].preds = 1..Len(g[b].preds) /\ Len(g[b].preds) \in Nat
    BY <1>1, BlockFields
  <2>2. \A i \in 1..Len(g[b].preds) : g[b].preds[i] \in DOMAIN g
    BY <2>1 DEF GraphInv, Preds
  <2> QED
    BY <2>1, <2>2
<1> QED
  BY <1>1, <1>2, <1>3 DEF Graph

\* h is g with block c closed by a terminator that branches to ts.
ClosedTo(g, c, ts, h) ==
  /\ h \in Seq(BlockType) /\ Len(h) = Len(g) /\ ~IsOpen(h, c) /\ Targets(h, c) = ts
  /\ \A b \in DOMAIN g : /\ h[b].sealed = g[b].sealed /\ h[b].lowered = g[b].lowered
                         /\ b # c => h[b].term = g[b].term
                         /\ b \in ts => Preds(h, b) = Preds(g, b) \cup {c}
                         /\ b \notin ts => h[b].preds = g[b].preds

Entries(p) == {p[i] : i \in DOMAIN p}

LEMMA EntriesAppend ==
  ASSUME NEW p \in Seq(Nat), NEW c \in Nat
  PROVE  Entries(Append(p, c)) = Entries(p) \cup {c}
<1> DEFINE q == Append(p, c)
           n == Len(p)
<1>1. /\ n \in Nat /\ DOMAIN p = 1..n /\ DOMAIN q = 1..(n + 1) /\ q[n + 1] = c
      /\ \A i \in 1..n : q[i] = p[i]
  OBVIOUS
<1> HIDE DEF q, n
<1>2. 1..(n + 1) = (1..n) \cup {n + 1}
  BY <1>1
<1>3. Entries(q) = Entries(p) \cup {c}
  BY <1>1, <1>2 DEF Entries
<1> QED
  BY <1>3 DEF q

LEMMA PredsAre ==
  ASSUME NEW g, NEW b
  PROVE  Preds(g, b) = Entries(g[b].preds)
BY DEF Preds, Entries

BlockOf(u, preds, sealed, term, lowered) ==
  /\ u \in BlockType /\ u.preds = preds /\ u.sealed = sealed /\ u.term = term
  /\ u.lowered = lowered

LEMMA BlockWith ==
  ASSUME NEW u \in BlockType, NEW p \in Seq(Nat), NEW t \in Terms
  PROVE  /\ BlockOf([u EXCEPT !.preds = p], p, u.sealed, u.term, u.lowered)
         /\ BlockOf([u EXCEPT !.term = t], u.preds, u.sealed, t, u.lowered)
         /\ BlockOf([u EXCEPT !.sealed = TRUE], u.preds, TRUE, u.term, u.lowered)
         /\ BlockOf([u EXCEPT !.lowered = TRUE], u.preds, u.sealed, u.term, TRUE)
BY DEF BlockType, BlockOf

IsTerm(t, to) == t \in Terms /\ t.kind # "none" /\ t.to = to

LEMMA TermIs ==
  ASSUME NEW kind \in {"br", "condbr", "ret"}, NEW to \in Seq(Nat)
  PROVE  IsTerm([kind |-> kind, to |-> to], to)
BY DEF Terms, IsTerm

\* Closing c, step by step: its terminator, then an entry in each target.
TermSet(g, c, t, h) ==
  /\ h \in Seq(BlockType) /\ Len(h) = Len(g) /\ DOMAIN h = DOMAIN g /\ h[c].term = t
  /\ \A b \in DOMAIN g : /\ h[b].sealed = g[b].sealed /\ h[b].lowered = g[b].lowered
                         /\ h[b].preds = g[b].preds
                         /\ b # c => h[b].term = g[b].term

LEMMA SetTerm ==
  ASSUME NEW g \in Seq(BlockType), NEW c \in DOMAIN g, NEW t \in Terms
  PROVE  TermSet(g, c, t, [g EXCEPT ![c].term = t])
<1> DEFINE u == [g[c] EXCEPT !.term = t]
           h == [g EXCEPT ![c] = u]
<1>1. g[c] \in BlockType /\ <<>> \in Seq(Nat)
  OBVIOUS
<1>2. BlockOf(u, g[c].preds, g[c].sealed, t, g[c].lowered)
  BY <1>1, BlockWith
<1> HIDE DEF u
<1>3. /\ u \in BlockType /\ u.term = t /\ u.sealed = g[c].sealed /\ u.preds = g[c].preds
      /\ u.lowered = g[c].lowered
  BY <1>2 DEF BlockOf
<1>4. /\ h \in Seq(BlockType) /\ Len(h) = Len(g) /\ DOMAIN h = DOMAIN g /\ h[c] = u
      /\ \A b \in DOMAIN g : b # c => h[b] = g[b]
  BY <1>3
<1> HIDE DEF h
<1>5. TermSet(g, c, t, h)
  BY <1>3, <1>4 DEF TermSet
<1> QED
  BY <1>5 DEF h, u

PredAdded(g, d, c, h) ==
  /\ h \in Seq(BlockType) /\ Len(h) = Len(g) /\ DOMAIN h = DOMAIN g
  /\ Preds(h, d) = Preds(g, d) \cup {c}
  /\ \A b \in DOMAIN g : /\ h[b].sealed = g[b].sealed /\ h[b].lowered = g[b].lowered
                         /\ h[b].term = g[b].term
                         /\ b # d => h[b].preds = g[b].preds

LEMMA AddPred ==
  ASSUME NEW g \in Seq(BlockType), NEW d \in DOMAIN g, NEW c \in Nat
  PROVE  PredAdded(g, d, c, [g EXCEPT ![d].preds = Append(@, c)])
<1> DEFINE p == Append(g[d].preds, c)
           u == [g[d] EXCEPT !.preds = p]
           h == [g EXCEPT ![d] = u]
<1>1. g[d] \in BlockType /\ g[d].preds \in Seq(Nat)
  BY BlockFields
<1>2. Entries(p) = Entries(g[d].preds) \cup {c}
  BY <1>1, EntriesAppend
<1>3. p \in Seq(Nat)
  BY <1>1
<1> HIDE DEF p
<1>4. BlockOf(u, p, g[d].sealed, g[d].term, g[d].lowered)
  <2>1. g[d].term \in Terms
    BY BlockFields
  <2> QED
    BY <1>1, <1>3, <2>1, BlockWith
<1> HIDE DEF u
<1>5. /\ u \in BlockType /\ u.preds = p /\ u.sealed = g[d].sealed /\ u.term = g[d].term
      /\ u.lowered = g[d].lowered
  BY <1>4 DEF BlockOf
<1>6. /\ h \in Seq(BlockType) /\ Len(h) = Len(g) /\ DOMAIN h = DOMAIN g /\ h[d] = u
      /\ \A b \in DOMAIN g : b # d => h[b] = g[b]
  BY <1>5
<1> HIDE DEF h
<1>7. Preds(h, d) = Preds(g, d) \cup {c}
  BY <1>2, <1>5, <1>6, PredsAre
<1>8. PredAdded(g, d, c, h)
  BY <1>5, <1>6, <1>7 DEF PredAdded
<1> QED
  BY <1>8 DEF h, u, p

LEMMA BrCloses ==
  ASSUME NEW g \in Seq(BlockType), NEW c \in DOMAIN g, NEW t \in DOMAIN g
  PROVE  ClosedTo(g, c, {t}, Br(g, c, t))
<1> DEFINE term == [kind |-> "br", to |-> <<t>>]
           h == [g EXCEPT ![c].term = term]
           k == [h EXCEPT ![t].preds = Append(@, c)]
<1>1. IsTerm(term, <<t>>)
  <2>1. <<t>> \in Seq(Nat)
    OBVIOUS
  <2> QED
    BY <2>1, TermIs
<1>2. Br(g, c, t) = k
  BY DEF Br, term
<1> HIDE DEF term
<1>3. TermSet(g, c, term, h)
  BY <1>1, SetTerm DEF IsTerm
<1> HIDE DEF h
<1>4. PredAdded(h, t, c, k)
  <2>1. c \in Nat /\ h \in Seq(BlockType) /\ t \in DOMAIN h
    BY <1>3 DEF TermSet
  <2> QED
    BY <2>1, AddPred
<1> HIDE DEF k
<1>5. Targets(k, c) = {t} /\ ~IsOpen(k, c)
  <2>1. k[c].term = term
    BY <1>3, <1>4 DEF TermSet, PredAdded
  <2>2. {<<t>>[i] : i \in DOMAIN <<t>>} = {t}
    OBVIOUS
  <2> QED
    BY <2>1, <2>2, <1>1 DEF Targets, IsOpen, IsTerm
<1>6. Preds(h, t) = Preds(g, t)
  BY <1>3 DEF Preds, TermSet
<1> QED
  BY <1>2, <1>3, <1>4, <1>5, <1>6 DEF ClosedTo, TermSet, PredAdded

LEMMA CondBrCloses ==
  ASSUME NEW g \in Seq(BlockType), NEW c \in DOMAIN g, NEW t \in DOMAIN g, NEW f \in DOMAIN g,
         t # f
  PROVE  ClosedTo(g, c, {t, f}, CondBr(g, c, t, f))
<1> DEFINE term == [kind |-> "condbr", to |-> <<t, f>>]
           h == [g EXCEPT ![c].term = term]
           k == [h EXCEPT ![t].preds = Append(@, c)]
           m == [k EXCEPT ![f].preds = Append(@, c)]
<1>1. IsTerm(term, <<t, f>>)
  <2>1. <<t, f>> \in Seq(Nat)
    OBVIOUS
  <2> QED
    BY <2>1, TermIs
<1>2. CondBr(g, c, t, f) = m
  BY DEF CondBr, term
<1> HIDE DEF term
<1>3. TermSet(g, c, term, h)
  BY <1>1, SetTerm DEF IsTerm
<1> HIDE DEF h
<1>4. PredAdded(h, t, c, k)
  <2>1. c \in Nat /\ h \in Seq(BlockType) /\ t \in DOMAIN h
    BY <1>3 DEF TermSet
  <2> QED
    BY <2>1, AddPred
<1> HIDE DEF k
<1>5. PredAdded(k, f, c, m)
  <2>1. c \in Nat /\ k \in Seq(BlockType) /\ f \in DOMAIN k
    BY <1>3, <1>4 DEF TermSet, PredAdded
  <2> QED
    BY <2>1, AddPred
<1> HIDE DEF m
<1>6. Targets(m, c) = {t, f} /\ ~IsOpen(m, c)
  <2>1. m[c].term = term
    BY <1>3, <1>4, <1>5 DEF TermSet, PredAdded
  <2>2. {<<t, f>>[i] : i \in DOMAIN <<t, f>>} = {t, f}
    <3>1. DOMAIN <<t, f>> = {1, 2}
      OBVIOUS
    <3> QED
      BY <3>1
  <2> QED
    BY <2>1, <2>2, <1>1 DEF Targets, IsOpen, IsTerm
<1>7. Preds(m, t) = Preds(g, t) \cup {c} /\ Preds(m, f) = Preds(g, f) \cup {c}
  <2>1. Preds(h, t) = Preds(g, t) /\ Preds(k, f) = Preds(g, f) /\ Preds(m, t) = Preds(k, t)
    BY <1>3, <1>4, <1>5 DEF Preds, TermSet, PredAdded
  <2> QED
    BY <2>1, <1>4, <1>5 DEF PredAdded
<1> QED
  BY <1>2, <1>3, <1>4, <1>5, <1>6, <1>7 DEF ClosedTo, TermSet, PredAdded

LEMMA RetCloses ==
  ASSUME NEW g \in Seq(BlockType), NEW c \in DOMAIN g
  PROVE  ClosedTo(g, c, {}, Ret(g, c))
<1> DEFINE term == [kind |-> "ret", to |-> <<>>]
           h == [g EXCEPT ![c].term = term]
<1>1. IsTerm(term, <<>>)
  <2>1. <<>> \in Seq(Nat)
    OBVIOUS
  <2> QED
    BY <2>1, TermIs
<1>2. Ret(g, c) = h
  BY DEF Ret, term
<1> HIDE DEF term
<1>3. TermSet(g, c, term, h)
  BY <1>1, SetTerm DEF IsTerm
<1> HIDE DEF h
<1>4. Targets(h, c) = {} /\ ~IsOpen(h, c)
  BY <1>1, <1>3 DEF Targets, IsOpen, IsTerm, TermSet
<1> QED
  BY <1>2, <1>3, <1>4 DEF ClosedTo, TermSet

\* Closing the block that is filled, towards blocks that are not sealed.
LEMMA Terminated ==
  ASSUME NEW g, NEW c, GraphInv(g, c), c # NoBlock, NEW ts, ts \subseteq DOMAIN g,
         \A t \in ts : ~g[t].sealed, NEW h, ClosedTo(g, c, ts, h)
  PROVE  /\ GraphInv(h, NoBlock) /\ Len(h) = Len(g)
         /\ \A b \in DOMAIN g : /\ h[b].sealed = g[b].sealed
                                /\ g[b].sealed => h[b].preds = g[b].preds
                                /\ Preds(g, b) \subseteq Preds(h, b)
<1>1. /\ g \in Seq(BlockType) /\ h \in Seq(BlockType) /\ DOMAIN h = DOMAIN g /\ Len(h) = Len(g)
      /\ c \in DOMAIN g /\ ~IsOpen(h, c) /\ Targets(h, c) = ts /\ IsOpen(g, c)
      /\ g[c].lowered
  BY DEF GraphInv, ClosedTo
<1>2. ASSUME NEW b \in DOMAIN g
      PROVE  /\ h[b].sealed = g[b].sealed /\ h[b].lowered = g[b].lowered
             /\ g[b].sealed => h[b].preds = g[b].preds
             /\ Preds(h, b) = Preds(g, b) \cup (IF b \in ts THEN {c} ELSE {})
             /\ b # c => h[b].term = g[b].term
  BY DEF ClosedTo, Preds
<1>3. \A b \in DOMAIN g : b # c => Targets(h, b) = Targets(g, b) /\ (IsOpen(h, b) <=> IsOpen(g, b))
  BY <1>2 DEF Targets, IsOpen
<1>4. ASSUME NEW b \in DOMAIN g
      PROVE  /\ \A p \in Preds(h, b) : p \in DOMAIN g /\ ~IsOpen(h, p)
             /\ \A t \in Targets(h, b) : t \in DOMAIN g /\ b \in Preds(h, t)
             /\ ~h[b].lowered => IsOpen(h, b)
  <2>1. ASSUME NEW p \in Preds(h, b) PROVE p \in DOMAIN g /\ ~IsOpen(h, p)
    <3>1. CASE p = c
      BY <3>1, <1>1
    <3>2. CASE p # c
      <4>1. p \in Preds(g, b)
        BY <3>2, <1>2
      <4>2. p \in DOMAIN g /\ ~IsOpen(g, p)
        BY <4>1 DEF GraphInv
      <4> QED
        BY <4>2, <3>2, <1>3
    <3> QED
      BY <3>1, <3>2
  <2>2. ASSUME NEW t \in Targets(h, b) PROVE t \in DOMAIN g /\ b \in Preds(h, t)
    <3>1. CASE b = c
      BY <3>1, <1>1, <1>2
    <3>2. CASE b # c
      <4>1. t \in Targets(g, b)
        BY <3>2, <1>3
      <4>2. t \in DOMAIN g /\ b \in Preds(g, t)
        BY <4>1 DEF GraphInv
      <4> QED
        BY <4>2, <1>2
    <3> QED
      BY <3>1, <3>2
  <2>3. ASSUME ~h[b].lowered PROVE IsOpen(h, b)
    <3>1. ~g[b].lowered /\ b # c
      BY <2>3, <1>1, <1>2
    <3>2. IsOpen(g, b)
      BY <3>1 DEF GraphInv
    <3> QED
      BY <3>1, <3>2, <1>3
  <2> QED
    BY <2>1, <2>2, <2>3
<1> QED
  BY <1>1, <1>2, <1>4 DEF GraphInv

Widened(g, c, n, h) ==
  /\ GraphInv(h, c) /\ BlocksAdded(g, n, h) /\ h \in Seq(BlockType)
  /\ \A b \in DOMAIN h : b \notin DOMAIN g => IsOpen(h, b) /\ ~h[b].sealed

\* New blocks wait for their first predecessor.
LEMMA Widens ==
  ASSUME NEW g, NEW c, GraphInv(g, c), NEW n \in Nat
  PROVE  Widened(g, c, n, WithBlocks(g, n))
<1> DEFINE h == WithBlocks(g, n)
<1>1. g \in Seq(BlockType) /\ DOMAIN g = 1..Len(g) /\ Len(g) \in Nat /\ 1 \in DOMAIN g
  <2>1. g \in Seq(BlockType) /\ 1 \in DOMAIN g
    BY DEF GraphInv
  <2> QED
    BY <2>1
<1>2. /\ FreshBlock \in BlockType /\ FreshBlock.preds = <<>> /\ FreshBlock.sealed = FALSE
      /\ FreshBlock.term.kind = "none" /\ FreshBlock.term.to = <<>> /\ FreshBlock.lowered = FALSE
  <2>1. NoTerm \in Terms
    <3>1. <<>> \in Seq(Nat)
      OBVIOUS
    <3> QED
      BY <3>1 DEF NoTerm, Terms
  <2>2. <<>> \in Seq(Nat)
    OBVIOUS
  <2>3. FreshBlock \in BlockType
    BY <2>1, <2>2 DEF FreshBlock, BlockType
  <2> QED
    BY <2>3 DEF FreshBlock, NoTerm
<1>3. /\ h \in Seq(BlockType) /\ Len(h) = Len(g) + n /\ \A b \in 1..Len(g) : h[b] = g[b]
      /\ \A b \in 1..(Len(g) + n) : b \notin 1..Len(g) => h[b] = FreshBlock
  BY <1>1, <1>2, Joined DEF WithBlocks
<1> HIDE DEF h
<1>4. DOMAIN h = 1..(Len(g) + n) /\ DOMAIN g \subseteq DOMAIN h
  BY <1>1, <1>3
<1>5. \A b \in DOMAIN g : h[b] = g[b]
  BY <1>1, <1>3
<1>6. ASSUME NEW b \in DOMAIN h, b \notin DOMAIN g
      PROVE  /\ h[b] = FreshBlock /\ Preds(h, b) = {} /\ Targets(h, b) = {} /\ IsOpen(h, b)
             /\ ~h[b].sealed /\ h[b].preds = <<>>
  <2>1. h[b] = FreshBlock
    BY <1>1, <1>3, <1>4, <1>6
  <2>2. DOMAIN h[b].preds = {} /\ DOMAIN h[b].term.to = {}
    <3>1. DOMAIN <<>> = {}
      OBVIOUS
    <3> QED
      BY <1>2, <2>1, <3>1
  <2> QED
    BY <1>2, <2>1, <2>2 DEF Preds, Targets, IsOpen
<1>7. \A b \in DOMAIN g : /\ Preds(h, b) = Preds(g, b) /\ Targets(h, b) = Targets(g, b)
                          /\ IsOpen(h, b) <=> IsOpen(g, b)
  BY <1>5 DEF Preds, Targets, IsOpen
<1>8. ASSUME NEW b \in DOMAIN h
      PROVE  /\ \A p \in Preds(h, b) : p \in DOMAIN h /\ ~IsOpen(h, p)
             /\ \A t \in Targets(h, b) : t \in DOMAIN h /\ b \in Preds(h, t)
             /\ ~h[b].lowered => IsOpen(h, b)
  <2>1. CASE b \in DOMAIN g
    <3>1. /\ \A p \in Preds(g, b) : p \in DOMAIN g /\ ~IsOpen(g, p)
          /\ \A t \in Targets(g, b) : t \in DOMAIN g /\ b \in Preds(g, t)
          /\ ~g[b].lowered => IsOpen(g, b)
      BY <2>1 DEF GraphInv
    <3> QED
      BY <2>1, <3>1, <1>4, <1>5, <1>7
  <2>2. CASE b \notin DOMAIN g
    BY <2>2, <1>6
  <2> QED
    BY <2>1, <2>2
<1>9. GraphInv(h, c)
  <2>1. 1 \in DOMAIN h /\ h[1].sealed /\ h[1].preds = <<>>
    BY <1>1, <1>4, <1>5 DEF GraphInv
  <2>2. c # NoBlock => c \in DOMAIN h /\ IsOpen(h, c) /\ h[c].lowered
    BY <1>4, <1>5, <1>7 DEF GraphInv
  <2> QED
    BY <1>3, <1>8, <2>1, <2>2 DEF GraphInv
<1>10. BlocksAdded(g, n, h)
  <2>1. Graph(h)
    BY <1>9, GraphOf
  <2> QED
    BY <2>1, <1>3, <1>5, <1>6 DEF BlocksAdded
<1> QED
  BY <1>3, <1>6, <1>9, <1>10 DEF Widened, h

\* h is g but for a flag of block b.
Flagged(g, b, sealed, lowered, h) ==
  /\ h \in Seq(BlockType) /\ Len(h) = Len(g) /\ DOMAIN h = DOMAIN g
  /\ \A c \in DOMAIN g : h[c].preds = g[c].preds /\ h[c].term = g[c].term
  /\ \A c \in DOMAIN g : c # b => h[c].sealed = g[c].sealed /\ h[c].lowered = g[c].lowered
  /\ h[b].sealed = sealed /\ h[b].lowered = lowered

LEMMA Flags ==
  ASSUME NEW g \in Seq(BlockType), NEW b \in DOMAIN g
  PROVE  /\ Flagged(g, b, TRUE, g[b].lowered, Seal(g, b))
         /\ Flagged(g, b, g[b].sealed, TRUE, [g EXCEPT ![b].lowered = TRUE])
<1> DEFINE u == [g[b] EXCEPT !.sealed = TRUE]
           v == [g[b] EXCEPT !.lowered = TRUE]
<1>1. g[b] \in BlockType /\ g[b].preds \in Seq(Nat) /\ g[b].term \in Terms
  BY BlockFields
<1>2. /\ BlockOf(u, g[b].preds, TRUE, g[b].term, g[b].lowered)
      /\ BlockOf(v, g[b].preds, g[b].sealed, g[b].term, TRUE)
  BY <1>1, BlockWith
<1> HIDE DEF u, v
<1>3. ASSUME NEW y \in BlockType, y.preds = g[b].preds, y.term = g[b].term
      PROVE  Flagged(g, b, y.sealed, y.lowered, [g EXCEPT ![b] = y])
  <2> DEFINE h == [g EXCEPT ![b] = y]
  <2>1. /\ h \in Seq(BlockType) /\ Len(h) = Len(g) /\ DOMAIN h = DOMAIN g /\ h[b] = y
        /\ \A c \in DOMAIN g : c # b => h[c] = g[c]
    OBVIOUS
  <2> HIDE DEF h
  <2>2. Flagged(g, b, y.sealed, y.lowered, h)
    BY <2>1, <1>3 DEF Flagged
  <2> QED
    BY <2>2 DEF h
<1>4. Flagged(g, b, TRUE, g[b].lowered, [g EXCEPT ![b] = u])
  <2>1. /\ u \in BlockType /\ u.preds = g[b].preds /\ u.term = g[b].term /\ u.sealed = TRUE
        /\ u.lowered = g[b].lowered
    BY <1>2 DEF BlockOf
  <2>2. Flagged(g, b, u.sealed, u.lowered, [g EXCEPT ![b] = u])
    BY <2>1, <1>3
  <2> QED
    BY <2>1, <2>2
<1>5. Flagged(g, b, g[b].sealed, TRUE, [g EXCEPT ![b] = v])
  <2>1. /\ v \in BlockType /\ v.preds = g[b].preds /\ v.term = g[b].term /\ v.lowered = TRUE
        /\ v.sealed = g[b].sealed
    BY <1>2 DEF BlockOf
  <2>2. Flagged(g, b, v.sealed, v.lowered, [g EXCEPT ![b] = v])
    BY <2>1, <1>3
  <2> QED
    BY <2>1, <2>2
<1> QED
  BY <1>4, <1>5 DEF u, v, Seal

\* Filling a block, and sealing one between two.
LEMMA FlaggedInv ==
  ASSUME NEW g, NEW c, GraphInv(g, c), NEW b \in DOMAIN g, NEW sealed, NEW lowered, NEW h,
         Flagged(g, b, sealed, lowered, h), g[b].sealed => sealed, g[b].lowered => lowered
  PROVE  /\ GraphInv(h, c) /\ Graph(h)
         /\ IsOpen(g, b) /\ lowered => GraphInv(h, b)
<1>1. /\ g \in Seq(BlockType) /\ h \in Seq(BlockType) /\ DOMAIN h = DOMAIN g /\ 1 \in DOMAIN g
      /\ g[1].sealed /\ g[1].preds = <<>>
  BY DEF GraphInv, Flagged
<1>2. \A d \in DOMAIN g : /\ Preds(h, d) = Preds(g, d) /\ Targets(h, d) = Targets(g, d)
                          /\ IsOpen(h, d) <=> IsOpen(g, d)
                          /\ h[d].preds = g[d].preds
                          /\ g[d].sealed => h[d].sealed
                          /\ g[d].lowered => h[d].lowered
  BY DEF Flagged, Preds, Targets, IsOpen
<1>3. ASSUME NEW d \in DOMAIN g
      PROVE  /\ \A p \in Preds(h, d) : p \in DOMAIN h /\ ~IsOpen(h, p)
             /\ \A t \in Targets(h, d) : t \in DOMAIN h /\ d \in Preds(h, t)
             /\ ~h[d].lowered => IsOpen(h, d)
  <2>1. /\ \A p \in Preds(g, d) : p \in DOMAIN g /\ ~IsOpen(g, p)
        /\ \A t \in Targets(g, d) : t \in DOMAIN g /\ d \in Preds(g, t)
        /\ ~g[d].lowered => IsOpen(g, d)
    BY DEF GraphInv
  <2> QED
    BY <2>1, <1>1, <1>2
<1>4. c # NoBlock => c \in DOMAIN h /\ IsOpen(h, c) /\ h[c].lowered
  BY <1>1, <1>2 DEF GraphInv
<1>5. GraphInv(h, c)
  BY <1>1, <1>2, <1>3, <1>4 DEF GraphInv
<1>6. ASSUME IsOpen(g, b), lowered PROVE GraphInv(h, b)
  <2>1. b \in DOMAIN h /\ IsOpen(h, b) /\ h[b].lowered
    BY <1>1, <1>2, <1>6 DEF Flagged
  <2> QED
    BY <1>1, <1>2, <1>3, <2>1 DEF GraphInv
<1> QED
  BY <1>5, <1>6, GraphOf

-----------------------------------------------------------------------------
(* The reads and writes of the blocks, and what the construction made of them. *)

EventsOf(X) == {"read", "write"} \X X \X Nat

Wrote(e, x) == e[1] = "write" /\ e[2] = x

\* w holds what the writes of a block define; a read comes before the write of
\* its variable, and what it got stands for the variable at the block's entry.
Coded(g, X, cd, w, r) ==
  /\ cd \in Seq(Seq(EventsOf(X))) /\ Len(cd) = Len(g)
  /\ \A b \in DOMAIN g : \A i \in 1..Len(cd[b]) : LET e == cd[b][i] IN
       /\ e[1] = "write" => w[b][e[2]] = e[3] /\ e[3] # NoVal
       /\ e[1] = "read"  => /\ <<b, e[2], e[3]>> \in r
                            /\ \A j \in 1..i : ~Wrote(cd[b][j], e[2])
  /\ \A b \in DOMAIN g, x \in X :
       w[b][x] # NoVal => \E i \in 1..Len(cd[b]) : Wrote(cd[b][i], x)

Built(g, X, cd, s, w, r, of) == Sound(g, X, w, {}, s, r, of) /\ Coded(g, X, cd, w, r)

Making(g, c, X, cd, s) ==
  /\ GraphInv(g, c) /\ s \in SSAOf(X)
  /\ s.lost  => DeadLoop(g)
  /\ ~s.lost => \E w, r, of : Built(g, X, cd, s, w, r, of)

LEMMA EventIs ==
  ASSUME NEW g, NEW X, NEW cd, NEW w, NEW r, Coded(g, X, cd, w, r), NEW b \in DOMAIN g,
         DOMAIN g = 1..Len(g)
  PROVE  /\ b \in 1..Len(cd) /\ cd[b] \in Seq(EventsOf(X)) /\ Len(cd[b]) \in Nat
         /\ DOMAIN cd = 1..Len(cd) /\ DOMAIN cd[b] = 1..Len(cd[b])
         /\ \A i \in 1..Len(cd[b]) : /\ cd[b][i] \in EventsOf(X)
                                     /\ cd[b][i][1] \in {"read", "write"}
                                     /\ cd[b][i][2] \in X /\ cd[b][i][3] \in Nat
<1>1. cd \in Seq(Seq(EventsOf(X))) /\ Len(cd) = Len(g)
  BY DEF Coded
<1>2. b \in 1..Len(cd) /\ DOMAIN cd = 1..Len(cd) /\ cd[b] \in Seq(EventsOf(X))
  BY <1>1
<1>3. Len(cd[b]) \in Nat /\ DOMAIN cd[b] = 1..Len(cd[b])
  BY <1>2
<1>4. ASSUME NEW i \in 1..Len(cd[b])
      PROVE  /\ cd[b][i] \in EventsOf(X) /\ cd[b][i][1] \in {"read", "write"}
             /\ cd[b][i][2] \in X /\ cd[b][i][3] \in Nat
  <2>1. cd[b][i] \in EventsOf(X)
    BY <1>2, <1>4
  <2> QED
    BY <2>1 DEF EventsOf
<1> QED
  BY <1>2, <1>3, <1>4

\* cd with one more event in block b.
Noted(cd, b, e) == [cd EXCEPT ![b] = Append(@, e)]

NotedIn(g, X, cd, b, e, k) ==
  /\ k \in Seq(Seq(EventsOf(X))) /\ Len(k) = Len(cd)
  /\ Len(k[b]) = Len(cd[b]) + 1 /\ k[b][Len(cd[b]) + 1] = e
  /\ \A i \in 1..Len(cd[b]) : k[b][i] = cd[b][i]
  /\ \A c \in DOMAIN g : c # b => k[c] = cd[c]

LEMMA Notes ==
  ASSUME NEW g, NEW X, NEW cd, NEW w, NEW r, Coded(g, X, cd, w, r), NEW b \in DOMAIN g,
         DOMAIN g = 1..Len(g), NEW e \in EventsOf(X)
  PROVE  NotedIn(g, X, cd, b, e, Noted(cd, b, e))
<1> DEFINE p == Append(cd[b], e)
           k == [cd EXCEPT ![b] = p]
<1>1. /\ cd \in Seq(Seq(EventsOf(X))) /\ Len(cd) = Len(g) /\ b \in 1..Len(cd)
      /\ cd[b] \in Seq(EventsOf(X)) /\ DOMAIN cd = 1..Len(cd)
  BY EventIs DEF Coded
<1>2. /\ p \in Seq(EventsOf(X)) /\ Len(p) = Len(cd[b]) + 1 /\ p[Len(cd[b]) + 1] = e
      /\ \A i \in 1..Len(cd[b]) : p[i] = cd[b][i]
  BY <1>1
<1> HIDE DEF p
<1>3. /\ k \in Seq(Seq(EventsOf(X))) /\ Len(k) = Len(cd) /\ k[b] = p
      /\ \A c \in DOMAIN g : c # b => k[c] = cd[c]
  BY <1>1, <1>2
<1> HIDE DEF k
<1>4. NotedIn(g, X, cd, b, e, k)
  BY <1>2, <1>3 DEF NotedIn
<1> QED
  BY <1>4 DEF k, p, Noted

LEMMA WroteIs ==
  ASSUME NEW g, NEW X, NEW cd, NEW w, NEW r, Coded(g, X, cd, w, r), NEW b \in DOMAIN g, NEW x \in X,
         NEW i \in 1..Len(cd[b]), Wrote(cd[b][i], x)
  PROVE  w[b][x] # NoVal
<1>1. cd[b][i][1] = "write" /\ cd[b][i][2] = x
  BY DEF Wrote
<1>2. w[b][cd[b][i][2]] = cd[b][i][3] /\ cd[b][i][3] # NoVal
  BY <1>1 DEF Coded
<1> QED
  BY <1>1, <1>2

\* One more event of block b: a write, and what it defines, or a read, and what it got.
LEMMA CodedWrite ==
  ASSUME NEW g, NEW X, NEW cd, NEW w, NEW r, Coded(g, X, cd, w, r), NEW b \in DOMAIN g,
         DOMAIN g = 1..Len(g), w \in [DOMAIN g -> [X -> Nat]], NEW x \in X, NEW v \in Nat \ {0},
         \A i \in 1..Len(cd[b]) : ~Wrote(cd[b][i], x)
  PROVE  Coded(g, X, Noted(cd, b, <<"write", x, v>>), WrittenAt(w, b, x, v), r)
<1> DEFINE e == <<"write", x, v>>
           k == Noted(cd, b, e)
           u == WrittenAt(w, b, x, v)
           N == Len(cd[b])
<1>1. e \in EventsOf(X) /\ e[1] = "write" /\ e[2] = x /\ e[3] = v
  BY DEF EventsOf
<1>2. NotedIn(g, X, cd, b, e, k)
  BY <1>1, Notes
<1>3. \A c \in DOMAIN g, y \in X : u[c][y] = IF c = b /\ y = x THEN v ELSE w[c][y]
  BY DEF WrittenAt
<1>4. N \in Nat
  BY EventIs
<1> HIDE DEF e, k, u
<1>5. /\ k \in Seq(Seq(EventsOf(X))) /\ Len(k) = Len(cd) /\ Len(k[b]) = N + 1 /\ k[b][N + 1] = e
      /\ \A i \in 1..N : k[b][i] = cd[b][i]
      /\ \A c \in DOMAIN g : c # b => k[c] = cd[c]
  BY <1>2 DEF NotedIn
<1> HIDE DEF N
<1>6. 1..(N + 1) = (1..N) \cup {N + 1} /\ N + 1 \notin 1..N
  BY <1>4
<1>7. ASSUME NEW c \in DOMAIN g, NEW i \in 1..Len(k[c])
      PROVE  /\ k[c][i][1] = "write" => u[c][k[c][i][2]] = k[c][i][3] /\ k[c][i][3] # NoVal
             /\ k[c][i][1] = "read"  => /\ <<c, k[c][i][2], k[c][i][3]>> \in r
                                        /\ \A j \in 1..i : ~Wrote(k[c][j], k[c][i][2])
  <2>1. CASE c = b /\ i = N + 1
    <3>1. k[c][i] = e
      BY <2>1, <1>5
    <3> QED
      BY <3>1, <2>1, <1>1, <1>3 DEF NoVal
  <2>2. CASE ~(c = b /\ i = N + 1)
    <3>1. i \in 1..Len(cd[c]) /\ \A j \in 1..i : k[c][j] = cd[c][j]
      <4>1. CASE c = b
        <5>1. i \in 1..N
          BY <4>1, <2>2, <1>5, <1>6
        <5>2. \A j \in 1..i : j \in 1..N
          BY <5>1, <1>4
        <5> QED
          BY <4>1, <5>1, <5>2, <1>5 DEF N
      <4>2. CASE c # b
        BY <4>2, <1>5
      <4> QED
        BY <4>1, <4>2
    <3>2. k[c][i] = cd[c][i]
      <4>1. i \in Nat /\ i >= 1
        BY <3>1
      <4>2. i \in 1..i
        BY <4>1
      <4> QED
        BY <4>2, <3>1
    <3>3. cd[c][i][2] \in X
      BY <3>1, EventIs
    <3>4. cd[c][i][1] = "write" => ~(c = b /\ cd[c][i][2] = x)
      BY <3>1 DEF Wrote
    <3> QED
      BY SMTT(60), <3>1, <3>2, <3>3, <3>4, <1>3 DEF Coded
  <2> QED
    BY <2>1, <2>2
<1>8. ASSUME NEW c \in DOMAIN g, NEW y \in X, u[c][y] # NoVal
      PROVE  \E i \in 1..Len(k[c]) : Wrote(k[c][i], y)
  <2>1. CASE c = b /\ y = x
    BY <2>1, <1>1, <1>5, <1>6 DEF Wrote
  <2>2. CASE ~(c = b /\ y = x)
    <3>1. w[c][y] # NoVal
      BY <2>2, <1>3, <1>8
    <3>2. PICK i \in 1..Len(cd[c]) : Wrote(cd[c][i], y)
      BY <3>1 DEF Coded
    <3>3. i \in 1..Len(k[c]) /\ k[c][i] = cd[c][i]
      <4>1. CASE c = b
        <5>1. i \in 1..N
          BY <4>1 DEF N
        <5> QED
          BY <4>1, <5>1, <1>5, <1>6
      <4>2. CASE c # b
        BY <4>2, <1>5
      <4> QED
        BY <4>1, <4>2
    <3> QED
      BY <3>2, <3>3
  <2> QED
    BY <2>1, <2>2
<1>9. Len(k) = Len(g)
  BY <1>5 DEF Coded
<1> QED
  BY <1>5, <1>7, <1>8, <1>9 DEF Coded, k, e, u

LEMMA CodedRead ==
  ASSUME NEW g, NEW X, NEW cd, NEW w, NEW r, Coded(g, X, cd, w, r), NEW b \in DOMAIN g,
         DOMAIN g = 1..Len(g), NEW x \in X, NEW v \in Nat,
         \A i \in 1..Len(cd[b]) : ~Wrote(cd[b][i], x), NEW q, r \subseteq q, <<b, x, v>> \in q
  PROVE  Coded(g, X, Noted(cd, b, <<"read", x, v>>), w, q)
<1> DEFINE e == <<"read", x, v>>
           k == Noted(cd, b, e)
           N == Len(cd[b])
<1>1. e \in EventsOf(X) /\ e[1] = "read" /\ e[2] = x /\ e[3] = v /\ ~Wrote(e, x)
  BY DEF EventsOf, Wrote
<1>2. NotedIn(g, X, cd, b, e, k)
  BY <1>1, Notes
<1>4. N \in Nat
  BY EventIs
<1> HIDE DEF e, k
<1>5. /\ k \in Seq(Seq(EventsOf(X))) /\ Len(k) = Len(cd) /\ Len(k[b]) = N + 1 /\ k[b][N + 1] = e
      /\ \A i \in 1..N : k[b][i] = cd[b][i]
      /\ \A c \in DOMAIN g : c # b => k[c] = cd[c]
  BY <1>2 DEF NotedIn
<1>a. \A i \in 1..N : ~Wrote(cd[b][i], x)
  OBVIOUS
<1> HIDE DEF N
<1>6. 1..(N + 1) = (1..N) \cup {N + 1} /\ N + 1 \notin 1..N
  BY <1>4
<1>7. ASSUME NEW c \in DOMAIN g, NEW i \in 1..Len(k[c])
      PROVE  /\ k[c][i][1] = "write" => w[c][k[c][i][2]] = k[c][i][3] /\ k[c][i][3] # NoVal
             /\ k[c][i][1] = "read"  => /\ <<c, k[c][i][2], k[c][i][3]>> \in q
                                        /\ \A j \in 1..i : ~Wrote(k[c][j], k[c][i][2])
  <2>1. CASE c = b /\ i = N + 1
    <3>1. k[c][i] = e
      BY <2>1, <1>5
    <3>2. \A j \in 1..(N + 1) : ~Wrote(k[b][j], x)
      BY <1>1, <1>5, <1>6, <1>a
    <3> QED
      BY <3>1, <3>2, <2>1, <1>1
  <2>2. CASE ~(c = b /\ i = N + 1)
    <3>1. i \in 1..Len(cd[c]) /\ \A j \in 1..i : k[c][j] = cd[c][j]
      <4>1. CASE c = b
        <5>1. i \in 1..N
          BY <4>1, <2>2, <1>5, <1>6
        <5>2. \A j \in 1..i : j \in 1..N
          BY <5>1, <1>4
        <5> QED
          BY <4>1, <5>1, <5>2, <1>5 DEF N
      <4>2. CASE c # b
        BY <4>2, <1>5
      <4> QED
        BY <4>1, <4>2
    <3>2. k[c][i] = cd[c][i]
      <4>1. i \in Nat /\ i >= 1
        BY <3>1
      <4>2. i \in 1..i
        BY <4>1
      <4> QED
        BY <4>2, <3>1
    <3> QED
      BY <3>1, <3>2 DEF Coded
  <2> QED
    BY <2>1, <2>2
<1>8. ASSUME NEW c \in DOMAIN g, NEW y \in X, w[c][y] # NoVal
      PROVE  \E i \in 1..Len(k[c]) : Wrote(k[c][i], y)
  <2>2. PICK i \in 1..Len(cd[c]) : Wrote(cd[c][i], y)
    BY <1>8 DEF Coded
  <2>3. i \in 1..Len(k[c]) /\ k[c][i] = cd[c][i]
    <3>1. CASE c = b
      <4>1. i \in 1..N
        BY <3>1 DEF N
      <4> QED
        BY <3>1, <4>1, <1>5, <1>6
    <3>2. CASE c # b
      BY <3>2, <1>5
    <3> QED
      BY <3>1, <3>2
  <2> QED
    BY <2>2, <2>3
<1>9. Len(k) = Len(g)
  BY <1>5 DEF Coded
<1> QED
  BY <1>5, <1>7, <1>8, <1>9 DEF Coded, k, e

LEMMA CodedAgain ==
  ASSUME NEW g, NEW X, NEW cd, NEW w, NEW r, Coded(g, X, cd, w, r), NEW h, Len(h) = Len(g),
         DOMAIN h = DOMAIN g, NEW q, r \subseteq q
  PROVE  Coded(h, X, cd, w, q)
BY DEF Coded

LEMMA CodedBlocks ==
  ASSUME NEW g, NEW X, NEW cd, NEW w, NEW r, Coded(g, X, cd, w, r), NEW n \in Nat,
         w \in [DOMAIN g -> [X -> Nat]], NEW h, DOMAIN g = 1..Len(g), Len(g) \in Nat,
         Len(h) = Len(g) + n, DOMAIN h = 1..Len(h)
  PROVE  Coded(h, X, cd \o [i \in 1..n |-> <<>>], MoreWrites(X, w, h), r)
<1> DEFINE k == cd \o [i \in 1..n |-> <<>>]
           u == MoreWrites(X, w, h)
<1>1. cd \in Seq(Seq(EventsOf(X))) /\ Len(cd) = Len(g) /\ <<>> \in Seq(EventsOf(X))
  BY DEF Coded
<1>2. /\ k \in Seq(Seq(EventsOf(X))) /\ Len(k) = Len(cd) + n /\ \A c \in 1..Len(cd) : k[c] = cd[c]
      /\ \A c \in 1..(Len(cd) + n) : c \notin 1..Len(cd) => k[c] = <<>>
  <2> DEFINE S == Seq(EventsOf(X))
             v == <<>>
  <2>1. cd \in Seq(S) /\ v \in S
    BY <1>1
  <2>2. k = cd \o [i \in 1..n |-> v]
    OBVIOUS
  <2> HIDE DEF S, v, k
  <2>3. /\ k \in Seq(S) /\ Len(k) = Len(cd) + n /\ \A c \in 1..Len(cd) : k[c] = cd[c]
        /\ \A c \in 1..(Len(cd) + n) : c \notin 1..Len(cd) => k[c] = v
    BY <2>1, <2>2, Joined
  <2> QED
    BY <2>3 DEF S, v
<1> HIDE DEF k
<1>3. /\ \A b \in DOMAIN g : k[b] = cd[b] /\ b \in DOMAIN h
      /\ \A b \in DOMAIN h : b \notin DOMAIN g => k[b] = <<>>
      /\ Len(k) = Len(h)
  BY <1>1, <1>2
<1>4. \A b \in DOMAIN h, x \in X : u[b][x] = IF b \in DOMAIN g THEN w[b][x] ELSE NoVal
  BY DEF MoreWrites
<1> HIDE DEF u
<1>5. ASSUME NEW b \in DOMAIN h, NEW i \in 1..Len(k[b])
      PROVE  /\ k[b][i][1] = "write" => u[b][k[b][i][2]] = k[b][i][3] /\ k[b][i][3] # NoVal
             /\ k[b][i][1] = "read"  => /\ <<b, k[b][i][2], k[b][i][3]>> \in r
                                        /\ \A j \in 1..i : ~Wrote(k[b][j], k[b][i][2])
  <2>1. b \in DOMAIN g
    <3>1. CASE b \notin DOMAIN g
      <4>1. k[b] = <<>> /\ Len(<<>>) = 0
        BY <3>1, <1>3
      <4>2. i \in 1..0
        BY <4>1
      <4> QED
        BY <4>2
    <3> QED
      BY <3>1
  <2>2. k[b] = cd[b] /\ i \in 1..Len(cd[b])
    BY <2>1, <1>3
  <2>3. cd[b][i][2] \in X
    BY <2>1, <2>2, EventIs
  <2> QED
    BY <2>1, <2>2, <2>3, <1>4 DEF Coded
<1>6. ASSUME NEW b \in DOMAIN h, NEW x \in X, u[b][x] # NoVal
      PROVE  \E i \in 1..Len(k[b]) : Wrote(k[b][i], x)
  <2>1. b \in DOMAIN g /\ w[b][x] # NoVal
    BY <1>4, <1>6
  <2> QED
    BY <2>1, <1>3 DEF Coded
<1> QED
  BY <1>2, <1>3, <1>5, <1>6 DEF Coded, k, u

\* What a step of the construction finds.
LEMMA MakingIs ==
  ASSUME NEW g, NEW c, NEW X, NEW cd, NEW s, Making(g, c, X, cd, s), ~s.lost
  PROVE  /\ GraphInv(g, c) /\ Graph(g) /\ DOMAIN g = 1..Len(g) /\ Len(g) \in Nat /\ s \in SSAOf(X)
         /\ Len(s.vals) + 1 \in Nat \ {0}
         /\ \E w, r, of : /\ Sound(g, X, w, {}, s, r, of) /\ Coded(g, X, cd, w, r)
                          /\ w \in [DOMAIN g -> [X -> Nat]] /\ s.lost = FALSE
<1>1. PICK w, r, of : Built(g, X, cd, s, w, r, of)
  BY DEF Making
<1>2. Sound(g, X, w, {}, s, r, of) /\ Coded(g, X, cd, w, r)
  BY <1>1 DEF Built
<1>3. w \in [DOMAIN g -> [X -> Nat]] /\ s.lost = FALSE
  BY <1>2 DEF Sound, Ghosts, Typed
<1>4. GraphInv(g, c) /\ s \in SSAOf(X)
  BY DEF Making
<1>5. Len(s.vals) \in Nat
  BY <1>4, SSAFields
<1>6. Graph(g)
  BY <1>4, GraphOf
<1>7. DOMAIN g = 1..Len(g) /\ Len(g) \in Nat
  BY <1>6 DEF Graph
<1> QED
  BY <1>2, <1>3, <1>4, <1>5, <1>6, <1>7

LEMMA MakingOf ==
  ASSUME NEW g, NEW c, NEW X, NEW cd, NEW s, NEW w, NEW r, NEW of, GraphInv(g, c),
         Sound(g, X, w, {}, s, r, of), Coded(g, X, cd, w, r)
  PROVE  Making(g, c, X, cd, s)
<1>1. s \in SSAOf(X) /\ s.lost = FALSE
  BY DEF Sound, Typed
<1> QED
  BY <1>1 DEF Making, Built

LEMMA MakingWrite ==
  ASSUME NEW g, NEW c, NEW X, NEW cd, NEW s, Making(g, c, X, cd, s), ~s.lost, c # NoBlock,
         NEW x \in X, \A i \in 1..Len(cd[c]) : ~Wrote(cd[c][i], x)
  PROVE  LET n == Len(s.vals) + 1
         IN  Making(g, c, X, Noted(cd, c, <<"write", x, n>>), WriteVar(Emit(s, c, "def"), c, x, n))
<1> DEFINE n == Len(s.vals) + 1
<1>1. /\ GraphInv(g, c) /\ Graph(g) /\ DOMAIN g = 1..Len(g) /\ n \in Nat \ {0}
  BY MakingIs
<1>2. PICK w, r, of : /\ Sound(g, X, w, {}, s, r, of) /\ Coded(g, X, cd, w, r)
                      /\ w \in [DOMAIN g -> [X -> Nat]]
  BY MakingIs
<1>3. c \in DOMAIN g /\ \A b \in DOMAIN g : c \notin Preds(g, b)
  BY <1>1 DEF GraphInv
<1>4. Sound(g, X, WrittenAt(w, c, x, n), {}, WriteVar(Emit(s, c, "def"), c, x, n), r,
            [of EXCEPT ![n] = x])
  BY <1>1, <1>2, <1>3, WriteSound
<1> HIDE DEF n
<1>5. Coded(g, X, Noted(cd, c, <<"write", x, n>>), WrittenAt(w, c, x, n), r)
  BY <1>1, <1>2, <1>3, CodedWrite
<1>6. Making(g, c, X, Noted(cd, c, <<"write", x, n>>), WriteVar(Emit(s, c, "def"), c, x, n))
  BY <1>1, <1>4, <1>5, MakingOf
<1> QED
  BY <1>6 DEF n

LEMMA MakingRead ==
  ASSUME NEW g, NEW c, NEW X, NEW cd, NEW s, Making(g, c, X, cd, s), ~s.lost, c # NoBlock,
         NEW x \in X, \A i \in 1..Len(cd[c]) : ~Wrote(cd[c][i], x)
  PROVE  LET a == Read(g, s, c, x)
         IN  Making(g, c, X, Noted(cd, c, <<"read", x, a.v>>), a.s)
<1> DEFINE a == Read(g, s, c, x)
<1>1. GraphInv(g, c) /\ Graph(g) /\ DOMAIN g = 1..Len(g)
  BY MakingIs
<1>2. PICK w, r, of : /\ Sound(g, X, w, {}, s, r, of) /\ Coded(g, X, cd, w, r)
                      /\ w \in [DOMAIN g -> [X -> Nat]]
  BY MakingIs
<1>3. c \in DOMAIN g
  BY <1>1 DEF GraphInv
<1>4. Answer(g, X, x, w, {}, s, r, of, c, a)
  <2>1. {} \subseteq Vals(s)
    OBVIOUS
  <2> QED
    BY <1>1, <1>2, <1>3, <2>1, ReadSound
<1> HIDE DEF a
<1>5. a.s \in SSAOf(X) /\ a.s.lost \in BOOLEAN
  <2>1. a.s \in SSAOf(X)
    BY <1>4 DEF Answer
  <2> QED
    BY <2>1, SSAFields
<1>6. CASE a.s.lost
  <2>1. DeadLoop(g)
    BY <1>4, <1>6 DEF Answer
  <2>2. Making(g, c, X, Noted(cd, c, <<"read", x, a.v>>), a.s)
    BY <1>1, <1>5, <1>6, <2>1 DEF Making
  <2> QED
    BY <2>2 DEF a
<1>7. CASE ~a.s.lost
  <2>1. Follows(g, X, x, w, {}, s, r, of, c, a.s, a.v)
    BY <1>4, <1>7 DEF Answer
  <2>2. PICK q, o : /\ r \subseteq q /\ Sound(g, X, w, {}, a.s, q, o)
                    /\ a.v \in Vals(a.s) /\ AtEndOf(w, q, c, x, a.v)
    BY <2>1 DEF Follows
  <2>3. w[c][x] = NoVal
    BY <1>2, <1>3 DEF Coded
  <2>4. <<c, x, a.v>> \in q
    BY <2>2, <2>3 DEF AtEndOf
  <2>5. a.v \in Nat
    <3>1. Len(a.s.vals) \in Nat
      BY <1>5, SSAFields
    <3> QED
      BY <2>2, <3>1 DEF Vals
  <2>6. Coded(g, X, Noted(cd, c, <<"read", x, a.v>>), w, q)
    BY <1>1, <1>2, <1>3, <2>2, <2>4, <2>5, CodedRead
  <2>7. Making(g, c, X, Noted(cd, c, <<"read", x, a.v>>), a.s)
    BY <1>1, <2>2, <2>6, MakingOf
  <2> QED
    BY <2>7 DEF a
<1> QED
  BY <1>5, <1>6, <1>7

LEMMA MakingBlocks ==
  ASSUME NEW g, NEW c, NEW X, NEW cd, NEW s, Making(g, c, X, cd, s), ~s.lost, NEW n \in Nat
  PROVE  /\ Making(WithBlocks(g, n), c, X, cd \o [i \in 1..n |-> <<>>], WithDefs(s, X, n))
         /\ ~WithDefs(s, X, n).lost
<1> DEFINE h == WithBlocks(g, n)
<1>1. GraphInv(g, c) /\ Graph(g) /\ DOMAIN g = 1..Len(g) /\ Len(g) \in Nat /\ s \in SSAOf(X)
  BY MakingIs
<1>2. PICK w, r, of : /\ Sound(g, X, w, {}, s, r, of) /\ Coded(g, X, cd, w, r)
                      /\ w \in [DOMAIN g -> [X -> Nat]] /\ s.lost = FALSE
  BY MakingIs
<1>3. Widened(g, c, n, h)
  BY <1>1, Widens
<1> HIDE DEF h
<1>4. GraphInv(h, c) /\ BlocksAdded(g, n, h)
  BY <1>3 DEF Widened
<1>5. Graph(h) /\ Len(h) = Len(g) + n /\ DOMAIN h = 1..Len(h)
  BY <1>4 DEF BlocksAdded, Graph
<1>6. Sound(h, X, MoreWrites(X, w, h), {}, WithDefs(s, X, n), r, of)
  BY <1>1, <1>2, <1>4, BlocksSound
<1>7. Coded(h, X, cd \o [i \in 1..n |-> <<>>], MoreWrites(X, w, h), r)
  BY <1>1, <1>2, <1>5, CodedBlocks
<1>8. Making(h, c, X, cd \o [i \in 1..n |-> <<>>], WithDefs(s, X, n))
  BY <1>4, <1>6, <1>7, MakingOf
<1>9. ~WithDefs(s, X, n).lost
  BY <1>6 DEF Sound, Typed
<1> QED
  BY <1>8, <1>9 DEF h

LEMMA MakingClosed ==
  ASSUME NEW g, NEW c, NEW X, NEW cd, NEW s, Making(g, c, X, cd, s), ~s.lost, c # NoBlock,
         NEW ts, ts \subseteq DOMAIN g, \A t \in ts : ~g[t].sealed, NEW h, ClosedTo(g, c, ts, h)
  PROVE  Making(h, NoBlock, X, cd, s)
<1>1. GraphInv(g, c) /\ Graph(g)
  BY MakingIs
<1>2. PICK w, r, of : Sound(g, X, w, {}, s, r, of) /\ Coded(g, X, cd, w, r)
  BY MakingIs
<1>3. /\ GraphInv(h, NoBlock) /\ Len(h) = Len(g)
      /\ \A b \in DOMAIN g : /\ h[b].sealed = g[b].sealed
                             /\ g[b].sealed => h[b].preds = g[b].preds
                             /\ Preds(g, b) \subseteq Preds(h, b)
  BY <1>1, Terminated
<1>4. Graph(h) /\ DOMAIN h = DOMAIN g
  <2>1. Graph(h)
    BY <1>3, GraphOf
  <2> QED
    BY <2>1, <1>1, <1>3 DEF Graph
<1>5. Sound(h, X, w, {}, s, r, of)
  BY <1>1, <1>2, <1>3, <1>4, EdgesSound
<1>6. Coded(h, X, cd, w, r)
  BY <1>2, <1>3, <1>4, CodedAgain
<1> QED
  BY <1>3, <1>5, <1>6, MakingOf

LEMMA MakingFill ==
  ASSUME NEW g, NEW c, NEW X, NEW cd, NEW s, Making(g, c, X, cd, s), ~s.lost,
         NEW b \in DOMAIN g, IsOpen(g, b)
  PROVE  Making([g EXCEPT ![b].lowered = TRUE], b, X, cd, s)
<1> DEFINE h == [g EXCEPT ![b].lowered = TRUE]
<1>1. GraphInv(g, c) /\ Graph(g)
  BY MakingIs
<1>2. PICK w, r, of : Sound(g, X, w, {}, s, r, of) /\ Coded(g, X, cd, w, r)
  BY MakingIs
<1>3. Flagged(g, b, g[b].sealed, TRUE, h)
  <2>1. g \in Seq(BlockType)
    BY <1>1 DEF GraphInv
  <2> QED
    BY <2>1, Flags
<1> HIDE DEF h
<1>4. GraphInv(h, b) /\ Graph(h)
  BY <1>1, <1>3, FlaggedInv
<1>5. /\ Len(h) = Len(g) /\ DOMAIN h = DOMAIN g
      /\ \A d \in DOMAIN g : h[d].preds = g[d].preds /\ h[d].sealed = g[d].sealed
  BY <1>3 DEF Flagged
<1>6. \A d \in DOMAIN g : Preds(g, d) \subseteq Preds(h, d)
  BY <1>5 DEF Preds
<1>7. Sound(h, X, w, {}, s, r, of)
  BY <1>1, <1>2, <1>4, <1>5, <1>6, EdgesSound
<1>8. Coded(h, X, cd, w, r)
  BY <1>2, <1>5, CodedAgain
<1>9. Making(h, b, X, cd, s)
  BY <1>4, <1>7, <1>8, MakingOf
<1> QED
  BY <1>9 DEF h

LEMMA MakingSeal ==
  ASSUME NEW g, NEW c, NEW X, NEW cd, NEW s, Making(g, c, X, cd, s), ~s.lost,
         NEW b \in DOMAIN g, ~g[b].sealed
  PROVE  Making(Seal(g, b), c, X, cd, CompletePhis(Seal(g, b), s, b))
<1> DEFINE h == Seal(g, b)
           e == CompletePhis(h, s, b)
<1>1. GraphInv(g, c) /\ Graph(g)
  BY MakingIs
<1>2. PICK w, r, of : Sound(g, X, w, {}, s, r, of) /\ Coded(g, X, cd, w, r)
  BY MakingIs
<1>3. Flagged(g, b, TRUE, g[b].lowered, h)
  <2>1. g \in Seq(BlockType)
    BY <1>1 DEF GraphInv
  <2> QED
    BY <2>1, Flags
<1> HIDE DEF h
<1>4. GraphInv(h, c) /\ Graph(h)
  BY <1>1, <1>3, FlaggedInv
<1>5. SealedAt(g, b, h) /\ Len(h) = Len(g) /\ DOMAIN h = DOMAIN g
  BY <1>3, <1>4 DEF Flagged, SealedAt
<1>6. Sealing(h, X, w, s, r, of, e)
  BY <1>1, <1>2, <1>5, CompleteSound
<1> HIDE DEF e
<1>7. e \in SSAOf(X) /\ e.lost \in BOOLEAN
  <2>1. e \in SSAOf(X)
    BY <1>6 DEF Sealing
  <2> QED
    BY <2>1, SSAFields
<1>8. Making(h, c, X, cd, e)
  <2>1. CASE e.lost
    <3>1. DeadLoop(h)
      BY <2>1, <1>6 DEF Sealing
    <3> QED
      BY <3>1, <2>1, <1>4, <1>7 DEF Making
  <2>2. CASE ~e.lost
    <3>1. PICK q, o : r \subseteq q /\ Sound(h, X, w, {}, e, q, o)
      BY <2>2, <1>6 DEF Sealing
    <3>2. Coded(h, X, cd, w, q)
      BY <1>2, <1>5, <3>1, CodedAgain
    <3> QED
      BY <1>4, <3>1, <3>2, MakingOf
  <2> QED
    BY <1>7, <2>1, <2>2
<1> QED
  BY <1>8 DEF h, e

-----------------------------------------------------------------------------
(* Execution: g and s stay as the construction left them. *)

\* b is on no loop that no run enters.
Live(g, b) == \A S \in SUBSET DOMAIN g : Dead(g, S) => b \notin S

\* v is what x holds after the first k events of block b.
Stands(cd, w, r, b, k, x, v) ==
  IF \E i \in 1..k : Wrote(cd[b][i], x) THEN v = w[b][x] ELSE <<b, x, v>> \in r

\* The slots of the values that stand for x hold what mem has in x.
Agree(X, cd, s, w, r, b, k, m, l) ==
  \A x \in X, v \in Vals(s) :
    s.vals[v].repl = NoVal /\ Stands(cd, w, r, b, k, x, v) => l[v] = m[x]

Running(g, X, cd, s, w, r, b, k, m, l) ==
  /\ \A c \in DOMAIN g : g[c].sealed
  /\ b \in DOMAIN g /\ k \in 0..Len(cd[b]) /\ Live(g, b)
  /\ DOMAIN m = X /\ DOMAIN l = Vals(s)
  /\ Agree(X, cd, s, w, r, b, k, m, l)

LEMMA Kinds ==
  ASSUME NEW g, NEW X, NEW w, NEW s, NEW r, NEW of, Sound(g, X, w, {}, s, r, of),
         NEW v \in Vals(s), s.vals[v].repl # NoVal
  PROVE  s.vals[v].kind = "phi"
BY DEF Sound, Removed

LEMMA ChaseSelf ==
  ASSUME NEW X, NEW s \in SSAOf(X), NEW v \in Vals(s), s.vals[v].repl = NoVal
  PROVE  Chase(s.vals, v) = v
<1>1. Len(s.vals) \in Nat
  BY SSAFields
<1>2. v \in {v} /\ \A u \in {v} : Link(s.vals, u) \in {v}
  BY DEF Link
<1>3. Chase(s.vals, v) \in {v}
  BY <1>1, <1>2, ChaseIn
<1> QED
  BY <1>3

\* Where a run comes, the chains of removed phis end.
LEMMA ChainEnds ==
  ASSUME NEW g, NEW X, NEW w, NEW s, NEW r, NEW of, Graph(g), Sound(g, X, w, {}, s, r, of),
         NEW b \in DOMAIN g, Live(g, b), NEW x \in X, NEW v \in Vals(s), <<b, x, v>> \in r
  PROVE  s.vals[Chase(s.vals, v)].repl = NoVal
<1>1. SUFFICES ASSUME s.vals[Chase(s.vals, v)].repl # NoVal PROVE FALSE
  OBVIOUS
<1>2. Endless(s.vals, v)
  BY <1>1 DEF Endless
<1>3. PICK S : Dead(g, S) /\ \A d \in DOMAIN g, y \in X : <<d, y, v>> \in r => d \in S
  BY <1>2, EndlessIsDead
<1>4. b \in S /\ S \in SUBSET DOMAIN g
  BY <1>3 DEF Dead
<1> QED
  BY <1>3, <1>4 DEF Live

LEMMA ChaseLive ==
  ASSUME NEW g, NEW X, NEW w, NEW s, NEW r, NEW of, Graph(g), Sound(g, X, w, {}, s, r, of),
         NEW b \in DOMAIN g, Live(g, b), NEW x \in X, NEW v \in Vals(s), AtEndOf(w, r, b, x, v)
  PROVE  LET c == Chase(s.vals, v)
         IN  /\ c \in Vals(s) /\ s.vals[c].repl = NoVal /\ AtEndOf(w, r, b, x, c)
             /\ <<b, x, v>> \in r => <<b, x, c>> \in r
<1> DEFINE c == Chase(s.vals, v)
<1>1. /\ c \in Vals(s) /\ AtEndOf(w, r, b, x, c)
      /\ <<b, x, v>> \in r => <<b, x, c>> \in r
  BY ChaseStands
<1>2. ASSUME s.vals[c].repl # NoVal PROVE FALSE
  <2>2. s \in SSAOf(X)
    BY DEF Sound, Typed
  <2>3. s.vals[v].repl # NoVal
    <3>1. ASSUME s.vals[v].repl = NoVal PROVE FALSE
      <4>1. c = v
        BY <2>2, <3>1, ChaseSelf
      <4> QED
        BY <4>1, <3>1, <1>2
    <3> QED
      BY <3>1
  <2>4. s.vals[v].kind = "phi"
    BY <2>3, Kinds
  <2>5. <<b, x, v>> \in r
    BY <2>4, AtEndIsIn
  <2> QED
    BY <2>5, <1>2, ChainEnds
<1> QED
  BY <1>1, <1>2

LEMMA LiveStart ==
  ASSUME NEW g
  PROVE  Live(g, 1)
BY DEF Live, Dead

LEMMA LiveStep ==
  ASSUME NEW g, NEW b \in DOMAIN g, NEW t \in DOMAIN g, Live(g, b), b \in Preds(g, t)
  PROVE  Live(g, t)
BY DEF Live, Dead

\* Nothing is written yet, and all slots are zero.
LEMMA RunStart ==
  ASSUME NEW g, NEW X, NEW cd, NEW s, NEW w, NEW r, Graph(g), Coded(g, X, cd, w, r),
         \A c \in DOMAIN g : g[c].sealed
  PROVE  Running(g, X, cd, s, w, r, 1, 0, [x \in X |-> 0], [v \in Vals(s) |-> 0])
<1>1. 1 \in DOMAIN g /\ DOMAIN g = 1..Len(g)
  BY DEF Graph
<1>2. Len(cd[1]) \in Nat
  BY <1>1, EventIs
<1>3. 0 \in 0..Len(cd[1])
  BY <1>2
<1>4. Agree(X, cd, s, w, r, 1, 0, [x \in X |-> 0], [v \in Vals(s) |-> 0])
  BY DEF Agree
<1> QED
  BY <1>1, <1>3, <1>4, LiveStart DEF Running

LEMMA EventAt ==
  ASSUME NEW g, NEW X, NEW cd, NEW s, NEW w, NEW r, NEW b, NEW k, NEW m, NEW l, Graph(g),
         Coded(g, X, cd, w, r), Running(g, X, cd, s, w, r, b, k, m, l), k # Len(cd[b])
  PROVE  /\ k \in Nat /\ k + 1 \in 1..Len(cd[b]) /\ k + 1 \in 0..Len(cd[b])
         /\ 1..(k + 1) = (1..k) \cup {k + 1}
         /\ cd[b][k + 1][2] \in X /\ cd[b][k + 1][1] \in {"read", "write"}
<1>1. b \in DOMAIN g /\ k \in 0..Len(cd[b]) /\ DOMAIN g = 1..Len(g)
  BY DEF Running, Graph
<1>2. /\ Len(cd[b]) \in Nat
      /\ \A i \in 1..Len(cd[b]) : cd[b][i][2] \in X /\ cd[b][i][1] \in {"read", "write"}
  BY <1>1, EventIs
<1>3. k \in Nat /\ k + 1 \in 1..Len(cd[b]) /\ k + 1 \in 0..Len(cd[b])
  <2> DEFINE N == Len(cd[b])
  <2>1. N \in Nat /\ k \in 0..N /\ k # N
    BY <1>1, <1>2
  <2> HIDE DEF N
  <2>2. k \in Nat /\ k + 1 \in 1..N /\ k + 1 \in 0..N
    BY <2>1
  <2> QED
    BY <2>2 DEF N
<1>4. 1..(k + 1) = (1..k) \cup {k + 1}
  BY <1>3
<1> QED
  BY <1>2, <1>3, <1>4

\* A read finds in the slot of what it got what the variable holds.
LEMMA RunReads ==
  ASSUME NEW g, NEW X, NEW cd, NEW s, NEW w, NEW r, NEW of, NEW b, NEW k, NEW m, NEW l, Graph(g),
         Built(g, X, cd, s, w, r, of), Running(g, X, cd, s, w, r, b, k, m, l), k # Len(cd[b]),
         cd[b][k + 1][1] = "read"
  PROVE  /\ Running(g, X, cd, s, w, r, b, k + 1, m, l)
         /\ l[Chase(s.vals, cd[b][k + 1][3])] = m[cd[b][k + 1][2]]
<1> DEFINE x == cd[b][k + 1][2]
           v == cd[b][k + 1][3]
<1>1. Sound(g, X, w, {}, s, r, of) /\ Coded(g, X, cd, w, r)
  BY DEF Built
<1>2. /\ k \in Nat /\ k + 1 \in 1..Len(cd[b]) /\ k + 1 \in 0..Len(cd[b])
      /\ 1..(k + 1) = (1..k) \cup {k + 1} /\ x \in X
  BY <1>1, EventAt
<1>3. /\ b \in DOMAIN g /\ Live(g, b) /\ DOMAIN m = X /\ DOMAIN l = Vals(s)
      /\ Agree(X, cd, s, w, r, b, k, m, l) /\ \A c \in DOMAIN g : g[c].sealed
  BY DEF Running
<1>4. \A y : ~Wrote(cd[b][k + 1], y)
  BY DEF Wrote
<1>5. Agree(X, cd, s, w, r, b, k + 1, m, l)
  <2>1. \A y, u : Stands(cd, w, r, b, k + 1, y, u) <=> Stands(cd, w, r, b, k, y, u)
    <3>1. \A y : (\E i \in 1..(k + 1) : Wrote(cd[b][i], y)) <=> (\E i \in 1..k : Wrote(cd[b][i], y))
      BY <1>2, <1>4
    <3> QED
      BY <3>1 DEF Stands
  <2> QED
    BY <2>1, <1>3 DEF Agree
<1>6. /\ <<b, x, v>> \in r /\ \A j \in 1..(k + 1) : ~Wrote(cd[b][j], x)
  BY <1>1, <1>2, <1>3 DEF Coded
<1>7. v \in Vals(s)
  <2>1. r \subseteq (DOMAIN g) \X X \X Vals(s)
    BY <1>1 DEF Sound, Ghosts
  <2> QED
    BY <2>1, <1>6
<1> HIDE DEF x, v
<1>8. l[Chase(s.vals, v)] = m[x]
  <2> DEFINE c == Chase(s.vals, v)
  <2>1. Stands(cd, w, r, b, k, x, v) /\ (<<b, x, c>> \in r => Stands(cd, w, r, b, k, x, c))
    BY <1>2, <1>6 DEF Stands
  <2>2. c \in Vals(s) /\ <<b, x, c>> \in r
    BY <1>1, <1>6, <1>7, ChaseStands, <1>2, <1>3
  <2>3. s.vals[c].repl = NoVal
    BY <1>1, <1>2, <1>3, <1>6, <1>7, ChainEnds
  <2> QED
    BY <2>1, <2>2, <2>3, <1>2, <1>3 DEF Agree
<1> QED
  BY <1>2, <1>3, <1>5, <1>8 DEF Running, x, v

\* A write goes to the slot of its own definition, which stands for no other
\* variable.
LEMMA RunWrites ==
  ASSUME NEW g, NEW X, NEW cd, NEW s, NEW w, NEW r, NEW of, NEW b, NEW k, NEW m, NEW l, Graph(g),
         Built(g, X, cd, s, w, r, of), Running(g, X, cd, s, w, r, b, k, m, l), k # Len(cd[b]),
         cd[b][k + 1][1] = "write", NEW n
  PROVE  Running(g, X, cd, s, w, r, b, k + 1, [m EXCEPT ![cd[b][k + 1][2]] = n],
                 [l EXCEPT ![Chase(s.vals, cd[b][k + 1][3])] = n])
<1> DEFINE x == cd[b][k + 1][2]
           v == cd[b][k + 1][3]
           m1 == [m EXCEPT ![x] = n]
           l1 == [l EXCEPT ![Chase(s.vals, v)] = n]
<1>1. Sound(g, X, w, {}, s, r, of) /\ Coded(g, X, cd, w, r)
  BY DEF Built
<1>2. /\ k \in Nat /\ k + 1 \in 1..Len(cd[b]) /\ k + 1 \in 0..Len(cd[b])
      /\ 1..(k + 1) = (1..k) \cup {k + 1} /\ x \in X
  BY <1>1, EventAt
<1>3. /\ b \in DOMAIN g /\ Live(g, b) /\ DOMAIN m = X /\ DOMAIN l = Vals(s)
      /\ Agree(X, cd, s, w, r, b, k, m, l) /\ \A c \in DOMAIN g : g[c].sealed
  BY DEF Running
<1>4. w[b][x] = v /\ v # NoVal
  BY <1>1, <1>2, <1>3 DEF Coded
<1>5. Wrote(cd[b][k + 1], x) /\ \A y : y # x => ~Wrote(cd[b][k + 1], y)
  BY DEF Wrote
<1>6. \A y \in X : (\E i \in 1..k : Wrote(cd[b][i], y)) => w[b][y] # NoVal
  <2>1. ASSUME NEW y \in X, NEW i \in 1..k, Wrote(cd[b][i], y) PROVE w[b][y] # NoVal
    <3>1. i \in 1..Len(cd[b])
      <4>1. Len(cd[b]) \in Nat
        <5>1. DOMAIN g = 1..Len(g)
          BY DEF Graph
        <5> QED
          BY <5>1, <1>1, <1>3, EventIs
      <4> QED
        BY <4>1, <1>2
    <3> QED
      BY <3>1, <2>1, <1>1, <1>3, WroteIs
  <2> QED
    BY <2>1
<1> HIDE DEF x, v
<1>7. v \in Vals(s) /\ s.vals[v].kind = "def" /\ of[v] = x
  BY <1>1, <1>2, <1>3, <1>4 DEF Sound, Writes
<1>8. Chase(s.vals, v) = v
  <2>1. s \in SSAOf(X)
    BY <1>1 DEF Sound, Typed
  <2>2. s.vals[v].repl = NoVal
    <3>1. s.vals[v].repl # NoVal => s.vals[v].kind = "phi"
      BY <1>1, <1>7, Kinds
    <3> QED
      BY <3>1, <1>7
  <2> QED
    BY <2>1, <2>2, <1>7, ChaseSelf
<1>9. /\ DOMAIN m1 = X /\ DOMAIN l1 = Vals(s) /\ m1[x] = n /\ l1[v] = n
      /\ \A y \in X : y # x => m1[y] = m[y]
      /\ \A u \in Vals(s) : u # v => l1[u] = l[u]
  BY <1>2, <1>3, <1>7, <1>8
<1> HIDE DEF m1, l1
<1>10. ASSUME NEW y \in X, NEW u \in Vals(s), s.vals[u].repl = NoVal,
              Stands(cd, w, r, b, k + 1, y, u)
       PROVE  l1[u] = m1[y]
  <2>1. CASE y = x
    <3>1. u = v
      BY <2>1, <1>10, <1>4, <1>5, <1>2 DEF Stands
    <3> QED
      BY <3>1, <2>1, <1>9
  <2>2. CASE y # x
    <3>1. Stands(cd, w, r, b, k, y, u)
      <4>1. (\E i \in 1..(k + 1) : Wrote(cd[b][i], y)) <=> (\E i \in 1..k : Wrote(cd[b][i], y))
        BY <2>2, <1>2, <1>5
      <4> QED
        BY <4>1, <1>10 DEF Stands
    <3>2. of[u] = y
      <4>1. CASE \E i \in 1..k : Wrote(cd[b][i], y)
        <5>1. w[b][y] # NoVal /\ u = w[b][y]
          BY <4>1, <3>1, <1>6 DEF Stands
        <5> QED
          BY <5>1, <1>1, <1>3 DEF Sound, Writes
      <4>2. CASE ~\E i \in 1..k : Wrote(cd[b][i], y)
        <5>1. <<b, y, u>> \in r
          BY <4>2, <3>1 DEF Stands
        <5> QED
          BY <5>1, <1>1, <1>3 DEF Sound, Ghosts
      <4> QED
        BY <4>1, <4>2
    <3>3. u # v
      BY <3>2, <2>2, <1>7
    <3> QED
      BY <3>1, <3>3, <2>2, <1>9, <1>10, <1>3 DEF Agree
  <2> QED
    BY <2>1, <2>2
<1>11. Running(g, X, cd, s, w, r, b, k + 1, m1, l1)
  BY <1>2, <1>3, <1>9, <1>10 DEF Running, Agree
<1> QED
  BY <1>11 DEF m1, l1, x, v

\* SSAFunction's Incoming, PhisOf and Operand, and the slots after an edge.
EdgesFrom(s, phi, b) == {i \in DOMAIN s.vals[phi].from : s.vals[phi].from[i] = b}
EdgePhis(s, t, b) == {v \in DOMAIN s.vals :
                        /\ s.vals[v].kind = "phi" /\ s.vals[v].repl = NoVal
                        /\ s.vals[v].block = t /\ EdgesFrom(s, v, b) # {}}
EdgeOperand(s, phi, b) == s.vals[phi].ops[CHOOSE i \in EdgesFrom(s, phi, b) :
                                            \A j \in EdgesFrom(s, phi, b) : i <= j]
Moved(s, t, b, l) == [v \in DOMAIN l |-> IF v \in EdgePhis(s, t, b)
                                         THEN l[Chase(s.vals, EdgeOperand(s, v, b))] ELSE l[v]]

\* A phi of a sealed block has an operand for each of its edges.
LEMMA OperandIs ==
  ASSUME NEW g, NEW X, NEW w, NEW s, NEW r, NEW of, Graph(g), Sound(g, X, w, {}, s, r, of),
         NEW t \in DOMAIN g, g[t].sealed, NEW b \in Preds(g, t), NEW v \in Vals(s), IsPhiOf(s, v, t)
  PROVE  /\ EdgesFrom(s, v, b) # {} /\ EdgeOperand(s, v, b) \in Vals(s)
         /\ AtEndOf(w, r, b, of[v], EdgeOperand(s, v, b))
<1> DEFINE u == s.vals[v]
           I == EdgesFrom(s, v, b)
           i == CHOOSE i \in I : \A j \in I : i <= j
<1>1. u.kind = "phi" /\ u.block = t
  BY DEF IsPhiOf
<1>2. s \in SSAOf(X)
  BY DEF Sound, Typed
<1>3. u.from = g[t].preds
  <2>1. v \notin {}
    OBVIOUS
  <2> QED
    BY <1>1, <2>1 DEF Sound, Filled
<1>4. u.from \in Seq(Nat) /\ DOMAIN u.from = 1..Len(u.from) /\ Len(u.from) \in Nat
  <2>1. u.from \in Seq(Nat)
    BY <1>2, SSAFields
  <2> QED
    BY <2>1
<1>5. I # {} /\ I \subseteq Nat
  <2>1. PICK j \in DOMAIN g[t].preds : g[t].preds[j] = b
    BY DEF Preds
  <2>2. j \in DOMAIN u.from /\ u.from[j] = b
    BY <2>1, <1>3
  <2>3. I = {k \in DOMAIN u.from : u.from[k] = b}
    BY DEF EdgesFrom
  <2> HIDE DEF u, I
  <2> QED
    BY <2>2, <2>3, <1>4
<1>6. i \in I
  <2>1. \E k \in I : \A j \in I : k <= j
    <3> HIDE DEF I
    <3> QED
      BY <1>5, LeastOf
  <2> QED
    BY <2>1
<1>7. i \in 1..Len(u.from) /\ u.from[i] = b
  <2>1. i \in DOMAIN u.from /\ u.from[i] = b
    <3> HIDE DEF i
    <3> QED
      BY <1>6 DEF EdgesFrom
  <2> QED
    BY <2>1, <1>4
<1> HIDE DEF i
<1>8. u.ops[i] \in Vals(s) /\ AtEndOf(w, r, u.from[i], of[v], u.ops[i])
  BY <1>1, <1>7 DEF Sound, Operands
<1>9. EdgeOperand(s, v, b) = u.ops[i]
  BY DEF EdgeOperand, i
<1> QED
  BY <1>5, <1>7, <1>8, <1>9

\* Over an edge the phis of the next block take what the variable holds, and
\* what comes from all predecessors keeps its slot.
LEMMA RunEdges ==
  ASSUME NEW g, NEW X, NEW cd, NEW s, NEW w, NEW r, NEW of, NEW b, NEW m, NEW l, Graph(g),
         Built(g, X, cd, s, w, r, of), Running(g, X, cd, s, w, r, b, Len(cd[b]), m, l),
         NEW t \in DOMAIN g, b \in Preds(g, t)
  PROVE  Running(g, X, cd, s, w, r, t, 0, m, Moved(s, t, b, l))
<1>1. Sound(g, X, w, {}, s, r, of) /\ Coded(g, X, cd, w, r)
  BY DEF Built
<1>2. /\ b \in DOMAIN g /\ Live(g, b) /\ DOMAIN m = X /\ DOMAIN l = Vals(s)
      /\ Agree(X, cd, s, w, r, b, Len(cd[b]), m, l) /\ \A c \in DOMAIN g : g[c].sealed
  BY DEF Running
<1>3. ASSUME NEW x \in X, NEW v \in Vals(s), AtEndOf(w, r, b, x, v), s.vals[v].repl = NoVal
      PROVE  l[v] = m[x]
  <2>1. Stands(cd, w, r, b, Len(cd[b]), x, v)
    <3>1. CASE w[b][x] # NoVal
      <4>1. \E i \in 1..Len(cd[b]) : Wrote(cd[b][i], x)
        BY <3>1, <1>1, <1>2 DEF Coded
      <4> QED
        BY <3>1, <4>1, <1>3 DEF Stands, AtEndOf
    <3>2. CASE w[b][x] = NoVal
      <4>1. ~\E i \in 1..Len(cd[b]) : Wrote(cd[b][i], x)
        BY <3>2, <1>1, <1>2, WroteIs
      <4> QED
        BY <3>2, <4>1, <1>3 DEF Stands, AtEndOf
    <3> QED
      BY <3>1, <3>2
  <2> QED
    BY <2>1, <1>2, <1>3 DEF Agree
<1>4. DOMAIN Moved(s, t, b, l) = Vals(s)
  BY <1>2 DEF Moved
<1>5. DOMAIN s.vals = Vals(s)
  <2>1. s \in SSAOf(X)
    BY <1>1 DEF Sound, Typed
  <2>2. s.vals \in Seq(Insts)
    BY <2>1, SSAFields
  <2> QED
    BY <2>2 DEF Vals
<1>6. ASSUME NEW x \in X, NEW v \in Vals(s), s.vals[v].repl = NoVal, Stands(cd, w, r, t, 0, x, v)
      PROVE  Moved(s, t, b, l)[v] = m[x]
  <2>1. <<t, x, v>> \in r
    <3>1. ~\E i \in 1..0 : Wrote(cd[t][i], x)
      OBVIOUS
    <3> QED
      BY <3>1, <1>6 DEF Stands
  <2>2. CASE IsPhiOf(s, v, t)
    <3> DEFINE o == EdgeOperand(s, v, b)
               c == Chase(s.vals, o)
    <3>1. EdgesFrom(s, v, b) # {} /\ o \in Vals(s) /\ AtEndOf(w, r, b, of[v], o)
      BY <2>2, <1>1, <1>2, OperandIs
    <3>2. of[v] = x
      BY <2>1, <1>1 DEF Sound, Ghosts
    <3>3. v \in EdgePhis(s, t, b)
      BY <2>2, <3>1, <1>5, <1>6 DEF EdgePhis, IsPhiOf
    <3>4. Moved(s, t, b, l)[v] = l[c]
      BY <3>3, <1>2 DEF Moved
    <3> HIDE DEF o
    <3>5. c \in Vals(s) /\ s.vals[c].repl = NoVal /\ AtEndOf(w, r, b, x, c)
      BY <3>1, <3>2, <1>1, <1>2, ChaseLive
    <3> HIDE DEF c
    <3> QED
      BY <3>4, <3>5, <1>3
  <2>3. CASE ~IsPhiOf(s, v, t)
    <3>1. Comes(g, w, s, r, t, x, v)
      BY <2>1, <1>1 DEF Sound, Flows
    <3>2. AtEndOf(w, r, b, x, v)
      BY <3>1, <2>3 DEF Comes
    <3>3. v \notin EdgePhis(s, t, b)
      BY <2>3 DEF EdgePhis, IsPhiOf
    <3>4. Moved(s, t, b, l)[v] = l[v]
      BY <3>3, <1>2 DEF Moved
    <3> QED
      BY <3>2, <3>4, <1>3, <1>6
  <2> QED
    BY <2>2, <2>3
<1>7. Live(g, t)
  BY <1>2, LiveStep
<1>8. 0 \in 0..Len(cd[t])
  <2>1. Len(cd[t]) \in Nat
    <3>1. DOMAIN g = 1..Len(g)
      BY DEF Graph
    <3> QED
      BY <3>1, <1>1, EventIs
  <2> QED
    BY <2>1
<1> QED
  BY <1>2, <1>4, <1>6, <1>7, <1>8 DEF Running, Agree

-----------------------------------------------------------------------------
(* The steps of the construction. *)

LEMMA MakingStart ==
  ASSUME NEW X
  PROVE  Making(<<[FreshBlock EXCEPT !.sealed = TRUE, !.lowered = TRUE]>>, 1, X, <<<<>>>>, EmptySSA(X))
<1> DEFINE f == [FreshBlock EXCEPT !.sealed = TRUE, !.lowered = TRUE]
           g == <<f>>
           s == EmptySSA(X)
           w == [b \in DOMAIN g |-> [x \in X |-> NoVal]]
           of == [n \in Nat |-> 0]
<1>1. /\ f \in BlockType /\ f.preds = <<>> /\ f.sealed = TRUE /\ f.lowered = TRUE
      /\ f.term.kind = "none" /\ f.term.to = <<>>
  <2>1. <<>> \in Seq(Nat)
    OBVIOUS
  <2> QED
    BY <2>1 DEF FreshBlock, NoTerm, BlockType, Terms
<1> HIDE DEF f
<1>2. g \in Seq(BlockType) /\ Len(g) = 1 /\ DOMAIN g = {1} /\ g[1] = f
  BY <1>1
<1> HIDE DEF g
<1>3. Preds(g, 1) = {} /\ Targets(g, 1) = {} /\ IsOpen(g, 1)
  BY <1>1, <1>2 DEF Preds, Targets, IsOpen
<1>4. GraphInv(g, 1)
  BY <1>1, <1>2, <1>3 DEF GraphInv, NoBlock
<1>5. /\ s.vals = <<>> /\ s.defs = <<[x \in X |-> NoVal]>> /\ s.pending = <<<<>>>> /\ s.lost = FALSE
      /\ s \in SSAOf(X)
  <2>1. /\ <<>> \in Seq(Insts) /\ <<<<>>>> \in Seq(Seq(X \X Nat))
        /\ [x \in X |-> NoVal] \in [X -> Nat]
    BY DEF NoVal
  <2>2. <<[x \in X |-> NoVal]>> \in Seq([X -> Nat])
    BY <2>1
  <2> QED
    BY <2>1, <2>2 DEF EmptySSA, SSAOf
<1>6. Vals(s) = {} /\ Len(s.defs) = 1 /\ Len(s.pending) = 1
  <2>1. Len(<<>>) = 0 /\ 1..0 = {}
    OBVIOUS
  <2> QED
    BY <2>1, <1>5 DEF Vals
<1>7. \A x \in X : s.defs[1][x] = NoVal
  BY <1>5
<1> HIDE DEF s
<1>8. Typed(g, X, s) /\ Definitions(g, X, w, s, {})
  BY <1>2, <1>5, <1>6, <1>7 DEF Typed, Definitions
<1>9. w \in [DOMAIN g -> [X -> Nat]] /\ \A b \in DOMAIN g, x \in X : w[b][x] = NoVal
  BY DEF NoVal
<1>10. DOMAIN of = Nat /\ of = [n \in Nat |-> of[n]]
  OBVIOUS
<1> HIDE DEF w, of
<1>11. Ghosts(g, X, w, s, {}, of) /\ Writes(g, X, w, s, of)
  BY <1>6, <1>9, <1>10 DEF Ghosts, Writes
<1>12. /\ Flows(g, X, w, s, {}) /\ Linked(g, X, s, {}) /\ Operands(g, w, s, {}, of)
       /\ Filled(g, {}, s) /\ Removed(g, {}, w, s, {}, of)
  BY <1>6 DEF Flows, Linked, Operands, Filled, Removed
<1>13. PhisDue(g, {}, s, of)
  BY <1>1, <1>2, <1>6 DEF PhisDue
<1>14. Sound(g, X, w, {}, s, {}, of)
  BY <1>8, <1>11, <1>12, <1>13 DEF Sound
<1>15. Coded(g, X, <<<<>>>>, w, {})
  <2> DEFINE cd == <<<<>>>>
  <2>1. cd \in Seq(Seq(EventsOf(X))) /\ Len(cd) = 1 /\ cd[1] = <<>>
    OBVIOUS
  <2>2. Len(<<>>) = 0 /\ 1..0 = {}
    OBVIOUS
  <2> HIDE DEF cd
  <2>3. Coded(g, X, cd, w, {})
    BY <2>1, <2>2, <1>2, <1>9 DEF Coded
  <2> QED
    BY <2>3 DEF cd
<1>16. Making(g, 1, X, <<<<>>>>, s)
  BY <1>4, <1>14, <1>15, MakingOf
<1> QED
  BY <1>16 DEF g, f, s

LEMMA MakingJump ==
  ASSUME NEW g, NEW c, NEW X, NEW cd, NEW s, Making(g, c, X, cd, s), ~s.lost, c # NoBlock,
         NEW t \in DOMAIN g, ~g[t].sealed
  PROVE  Making(Br(g, c, t), NoBlock, X, cd, s)
<1>1. g \in Seq(BlockType) /\ c \in DOMAIN g
  BY MakingIs DEF GraphInv
<1>2. ClosedTo(g, c, {t}, Br(g, c, t))
  BY <1>1, BrCloses
<1>3. {t} \subseteq DOMAIN g /\ \A u \in {t} : ~g[u].sealed
  OBVIOUS
<1> QED
  BY <1>2, <1>3, MakingClosed

LEMMA MakingBranch ==
  ASSUME NEW g, NEW c, NEW X, NEW cd, NEW s, Making(g, c, X, cd, s), ~s.lost, c # NoBlock,
         NEW t \in DOMAIN g, NEW f \in DOMAIN g, t # f, ~g[t].sealed, ~g[f].sealed
  PROVE  Making(CondBr(g, c, t, f), NoBlock, X, cd, s)
<1>1. g \in Seq(BlockType) /\ c \in DOMAIN g
  BY MakingIs DEF GraphInv
<1>2. ClosedTo(g, c, {t, f}, CondBr(g, c, t, f))
  BY <1>1, CondBrCloses
<1>3. {t, f} \subseteq DOMAIN g /\ \A u \in {t, f} : ~g[u].sealed
  OBVIOUS
<1> QED
  BY <1>2, <1>3, MakingClosed

LEMMA MakingReturn ==
  ASSUME NEW g, NEW c, NEW X, NEW cd, NEW s, Making(g, c, X, cd, s), ~s.lost, c # NoBlock
  PROVE  Making(Ret(g, c), NoBlock, X, cd, s)
<1>1. g \in Seq(BlockType) /\ c \in DOMAIN g
  BY MakingIs DEF GraphInv
<1>2. ClosedTo(g, c, {}, Ret(g, c))
  BY <1>1, RetCloses
<1>3. {} \subseteq DOMAIN g /\ \A u \in {} : ~g[u].sealed
  OBVIOUS
<1> QED
  BY <1>2, <1>3, MakingClosed

\* Old blocks and the n new ones.
NewBlocks(g, n, h) ==
  /\ \A b \in DOMAIN g : b \in DOMAIN h /\ h[b].sealed = g[b].sealed /\ b <= Len(g)
  /\ \A b \in (Len(g) + 1)..(Len(g) + n) : b \in DOMAIN h /\ ~h[b].sealed /\ IsOpen(h, b)

LEMMA NewBlocksAre ==
  ASSUME NEW g, NEW c, GraphInv(g, c), NEW n \in Nat
  PROVE  NewBlocks(g, n, WithBlocks(g, n)) /\ Len(g) \in Nat
<1> DEFINE h == WithBlocks(g, n)
<1>1. Widened(g, c, n, h)
  BY Widens
<1>2. DOMAIN g = 1..Len(g) /\ Len(g) \in Nat
  BY GraphOf DEF Graph
<1> HIDE DEF h
<1>3. BlocksAdded(g, n, h) /\ \A b \in DOMAIN h : b \notin DOMAIN g => IsOpen(h, b) /\ ~h[b].sealed
  BY <1>1 DEF Widened
<1>4. /\ DOMAIN h = 1..(Len(g) + n) /\ \A b \in DOMAIN g : h[b].sealed = g[b].sealed
  BY <1>3 DEF BlocksAdded, Graph
<1>5. NewBlocks(g, n, h)
  <2> DEFINE N == Len(g)
  <2> HIDE DEF N
  <2>1. DOMAIN g = 1..N /\ N \in Nat /\ DOMAIN h = 1..(N + n)
    BY <1>2, <1>4 DEF N
  <2>2. \A b \in DOMAIN g : b \in DOMAIN h /\ b <= N
    BY <2>1
  <2>3. \A b \in (N + 1)..(N + n) : b \in DOMAIN h /\ b \notin DOMAIN g
    BY <2>1
  <2> QED
    BY <2>2, <2>3, <1>3, <1>4 DEF NewBlocks, N
<1> QED
  BY <1>2, <1>5 DEF h

-----------------------------------------------------------------------------
(* The inductive invariant. *)

InvRun == \E w, r, of :
  /\ Built(blocks, profile.vars, code, ssa, w, r, of)
  /\ Running(blocks, profile.vars, code, ssa, w, r, pc[1], pc[2], mem, slot)

IInv ==
  /\ Making(blocks, cur, profile.vars, code, ssa)
  /\ phase = "build"  => pc = NotRunning /\ mem = [x \in profile.vars |-> 0]
  /\ phase # "build" => ~ssa.lost /\ InvRun

LEMMA InitIInv ==
  ASSUME Init
  PROVE  IInv
BY MakingStart DEF Init, IInv

LEMMA BuildKeeps ==
  ASSUME IInv, Building, NotRun, Making(blocks', cur', profile.vars, code', ssa')
  PROVE  IInv'
BY DEF IInv, Building, NotRun

\* No event of x among those of the block that is filled.
LEMMA NoEvents ==
  ASSUME IInv, Building, cur # NoBlock, NEW x, "write" \notin Events(x)
  PROVE  \A i \in 1..Len(code[cur]) : ~Wrote(code[cur][i], x)
<1>1. /\ GraphInv(blocks, cur) /\ DOMAIN blocks = 1..Len(blocks)
      /\ \E w, r : Coded(blocks, profile.vars, code, w, r)
  BY MakingIs DEF IInv, Building
<1>2. PICK w, r : Coded(blocks, profile.vars, code, w, r)
  BY <1>1
<1>3. cur \in DOMAIN blocks
  BY <1>1 DEF GraphInv
<1>4. DOMAIN code[cur] = 1..Len(code[cur])
  BY <1>1, <1>2, <1>3, EventIs
<1> QED
  BY <1>4 DEF Events, Wrote

LEMMA MakesNow ==
  ASSUME IInv, Building
  PROVE  /\ Making(blocks, cur, profile.vars, code, ssa) /\ ~ssa.lost
         /\ GraphInv(blocks, cur)
BY DEF IInv, Building, Making

LEMMA WriteKeeps ==
  ASSUME IInv, NEW x \in profile.vars, Write(x)
  PROVE  IInv'
<1> DEFINE n == Len(ssa.vals) + 1
<1>1. Building /\ cur # NoBlock /\ NotRun /\ "write" \notin Events(x) /\ blocks' = blocks /\ cur' = cur
  BY DEF Write
<1>2. ssa' = WriteVar(Emit(ssa, cur, "def"), cur, x, n) /\ code' = Noted(code, cur, <<"write", x, n>>)
  BY DEF Write, Noted
<1>3. Making(blocks, cur, profile.vars, code, ssa) /\ ~ssa.lost
  BY <1>1, MakesNow
<1>4. \A i \in 1..Len(code[cur]) : ~Wrote(code[cur][i], x)
  BY <1>1, NoEvents
<1>5. Making(blocks, cur, profile.vars, Noted(code, cur, <<"write", x, n>>),
             WriteVar(Emit(ssa, cur, "def"), cur, x, n))
  BY <1>1, <1>3, <1>4, MakingWrite
<1>6. Making(blocks', cur', profile.vars, code', ssa')
  BY <1>1, <1>2, <1>5
<1> QED
  BY <1>1, <1>6, BuildKeeps

LEMMA ReadKeeps ==
  ASSUME IInv, NEW x \in profile.vars, ReadIt(x)
  PROVE  IInv'
<1> DEFINE a == Read(blocks, ssa, cur, x)
<1>1. Building /\ cur # NoBlock /\ NotRun /\ Events(x) = {} /\ blocks' = blocks /\ cur' = cur
  BY DEF ReadIt
<1>2. ssa' = a.s /\ code' = Noted(code, cur, <<"read", x, a.v>>)
  BY DEF ReadIt, Noted
<1>3. Making(blocks, cur, profile.vars, code, ssa) /\ ~ssa.lost
  BY <1>1, MakesNow
<1>4. \A i \in 1..Len(code[cur]) : ~Wrote(code[cur][i], x)
  BY <1>1, NoEvents
<1>5. Making(blocks, cur, profile.vars, Noted(code, cur, <<"read", x, a.v>>), a.s)
  BY <1>1, <1>3, <1>4, MakingRead
<1> HIDE DEF a
<1>6. Making(blocks', cur', profile.vars, code', ssa')
  BY <1>1, <1>2, <1>5
<1> QED
  BY <1>1, <1>6, BuildKeeps

\* The graph, the construction and the code with n new blocks.
LEMMA GrowMakes ==
  ASSUME IInv, Building, NEW n \in Nat, Grow(n)
  PROVE  /\ Making(WithBlocks(blocks, n), cur, profile.vars, code', ssa') /\ ~ssa'.lost
         /\ NewBlocks(blocks, n, WithBlocks(blocks, n)) /\ Len(blocks) \in Nat
<1>1. Making(blocks, cur, profile.vars, code, ssa) /\ ~ssa.lost /\ GraphInv(blocks, cur)
  BY MakesNow
<1>2. ssa' = WithDefs(ssa, profile.vars, n) /\ code' = code \o [i \in 1..n |-> <<>>]
  BY DEF Grow
<1>3. /\ Making(WithBlocks(blocks, n), cur, profile.vars, code \o [i \in 1..n |-> <<>>],
                WithDefs(ssa, profile.vars, n))
      /\ ~WithDefs(ssa, profile.vars, n).lost
  BY <1>1, MakingBlocks
<1> QED
  BY <1>1, <1>2, <1>3, NewBlocksAre

LEMMA JumpKeeps ==
  ASSUME IInv, JumpTo
  PROVE  IInv'
<1>1. Building /\ cur # NoBlock /\ NotRun /\ cur' = NoBlock
  BY DEF JumpTo
<1>2. Making(blocks, cur, profile.vars, code, ssa) /\ ~ssa.lost
  BY <1>1, MakesNow
<1>3. ASSUME NEW b \in Open, blocks' = Br(blocks, cur, b), UNCHANGED <<ssa, code>>
      PROVE  Making(blocks', cur', profile.vars, code', ssa')
  <2>1. b \in DOMAIN blocks /\ ~blocks[b].sealed
    BY DEF Open
  <2>2. Making(Br(blocks, cur, b), NoBlock, profile.vars, code, ssa)
    BY <1>1, <1>2, <2>1, MakingJump
  <2> QED
    BY <1>1, <1>3, <2>2
<1>4. ASSUME Grow(1), blocks' = Br(WithBlocks(blocks, 1), cur, Len(blocks) + 1)
      PROVE  Making(blocks', cur', profile.vars, code', ssa')
  <2> DEFINE h == WithBlocks(blocks, 1)
             t == Len(blocks) + 1
  <2>1. /\ Making(h, cur, profile.vars, code', ssa') /\ ~ssa'.lost
        /\ NewBlocks(blocks, 1, h) /\ Len(blocks) \in Nat
    BY <1>1, <1>4, GrowMakes
  <2>2. t \in DOMAIN h /\ ~h[t].sealed
    <3>1. t \in (Len(blocks) + 1)..(Len(blocks) + 1)
      BY <2>1
    <3> QED
      BY <2>1, <3>1 DEF NewBlocks
  <2> HIDE DEF h, t
  <2>3. Making(Br(h, cur, t), NoBlock, profile.vars, code', ssa')
    BY <1>1, <2>1, <2>2, MakingJump
  <2> QED
    BY <1>1, <1>4, <2>3 DEF h, t
<1>5. Making(blocks', cur', profile.vars, code', ssa')
  BY <1>3, <1>4 DEF JumpTo
<1> QED
  BY <1>1, <1>5, BuildKeeps

LEMMA BranchKeeps ==
  ASSUME IInv, Branch
  PROVE  IInv'
<1>1. Building /\ cur # NoBlock /\ NotRun /\ cur' = NoBlock
  BY DEF Branch
<1>2. Making(blocks, cur, profile.vars, code, ssa) /\ ~ssa.lost /\ GraphInv(blocks, cur)
  BY <1>1, MakesNow
<1>3. ASSUME NEW t \in Open, NEW f \in Open, t < f, blocks' = CondBr(blocks, cur, t, f),
             UNCHANGED <<ssa, code>>
      PROVE  Making(blocks', cur', profile.vars, code', ssa')
  <2>1. t \in DOMAIN blocks /\ ~blocks[t].sealed /\ f \in DOMAIN blocks /\ ~blocks[f].sealed
    BY DEF Open
  <2>2. t # f
    <3>1. t \in Nat /\ f \in Nat
      <4>1. DOMAIN blocks = 1..Len(blocks)
        BY <1>2, GraphOf DEF Graph
      <4> QED
        BY <2>1, <4>1
    <3> QED
      BY <1>3, <3>1
  <2>3. Making(CondBr(blocks, cur, t, f), NoBlock, profile.vars, code, ssa)
    BY <1>1, <1>2, <2>1, <2>2, MakingBranch
  <2> QED
    BY <1>1, <1>3, <2>3
<1>4. ASSUME NEW t \in Open, Grow(1), blocks' = CondBr(WithBlocks(blocks, 1), cur, t, Len(blocks) + 1)
      PROVE  Making(blocks', cur', profile.vars, code', ssa')
  <2> DEFINE h == WithBlocks(blocks, 1)
             f == Len(blocks) + 1
  <2>1. /\ Making(h, cur, profile.vars, code', ssa') /\ ~ssa'.lost
        /\ NewBlocks(blocks, 1, h) /\ Len(blocks) \in Nat
    BY <1>1, <1>4, GrowMakes
  <2>2. f \in DOMAIN h /\ ~h[f].sealed
    <3>1. f \in (Len(blocks) + 1)..(Len(blocks) + 1)
      BY <2>1
    <3> QED
      BY <2>1, <3>1 DEF NewBlocks
  <2>3. t \in DOMAIN h /\ ~h[t].sealed /\ t <= Len(blocks)
    BY <2>1 DEF Open, NewBlocks
  <2>4. t # f
    BY <2>1, <2>3
  <2> HIDE DEF h, f
  <2>5. Making(CondBr(h, cur, t, f), NoBlock, profile.vars, code', ssa')
    BY <1>1, <2>1, <2>2, <2>3, <2>4, MakingBranch
  <2> QED
    BY <1>1, <1>4, <2>5 DEF h, f
<1>5. ASSUME Grow(2), blocks' = CondBr(WithBlocks(blocks, 2), cur, Len(blocks) + 1, Len(blocks) + 2)
      PROVE  Making(blocks', cur', profile.vars, code', ssa')
  <2> DEFINE h == WithBlocks(blocks, 2)
             t == Len(blocks) + 1
             f == Len(blocks) + 2
  <2>1. /\ Making(h, cur, profile.vars, code', ssa') /\ ~ssa'.lost
        /\ NewBlocks(blocks, 2, h) /\ Len(blocks) \in Nat
    BY <1>1, <1>5, GrowMakes
  <2>2. t \in DOMAIN h /\ ~h[t].sealed /\ f \in DOMAIN h /\ ~h[f].sealed
    <3>1. t \in (Len(blocks) + 1)..(Len(blocks) + 2) /\ f \in (Len(blocks) + 1)..(Len(blocks) + 2)
      BY <2>1
    <3> HIDE DEF t, f
    <3> QED
      BY <2>1, <3>1 DEF NewBlocks
  <2>3. t # f
    BY <2>1
  <2> HIDE DEF h, t, f
  <2>4. Making(CondBr(h, cur, t, f), NoBlock, profile.vars, code', ssa')
    BY <1>1, <2>1, <2>2, <2>3, MakingBranch
  <2> QED
    BY <1>1, <1>5, <2>4 DEF h, t, f
<1>6. Making(blocks', cur', profile.vars, code', ssa')
  BY <1>3, <1>4, <1>5 DEF Branch
<1> QED
  BY <1>1, <1>6, BuildKeeps

LEMMA ReturnKeeps ==
  ASSUME IInv, Return
  PROVE  IInv'
<1>1. /\ Building /\ cur # NoBlock /\ NotRun /\ blocks' = Ret(blocks, cur) /\ cur' = NoBlock
      /\ ssa' = ssa /\ code' = code
  BY DEF Return
<1>2. Making(blocks, cur, profile.vars, code, ssa) /\ ~ssa.lost
  BY <1>1, MakesNow
<1>3. Making(Ret(blocks, cur), NoBlock, profile.vars, code, ssa)
  BY <1>1, <1>2, MakingReturn
<1>4. Making(blocks', cur', profile.vars, code', ssa')
  BY <1>1, <1>3
<1> QED
  BY <1>1, <1>4, BuildKeeps

LEMMA FillKeeps ==
  ASSUME IInv, Fill
  PROVE  IInv'
<1>1. Building /\ NotRun
  BY DEF Fill
<1>2. Making(blocks, cur, profile.vars, code, ssa) /\ ~ssa.lost /\ GraphInv(blocks, cur)
  BY <1>1, MakesNow
<1>3. ASSUME NEW b \in DOMAIN blocks, ~blocks[b].lowered,
             blocks' = [blocks EXCEPT ![b].lowered = TRUE], cur' = b, UNCHANGED <<ssa, code>>
      PROVE  Making(blocks', cur', profile.vars, code', ssa')
  <2>1. IsOpen(blocks, b)
    BY <1>2, <1>3 DEF GraphInv
  <2>2. Making([blocks EXCEPT ![b].lowered = TRUE], b, profile.vars, code, ssa)
    BY <1>2, <2>1, MakingFill
  <2> QED
    BY <1>3, <2>2
<1>4. ASSUME Grow(1), cur' = Len(blocks) + 1,
             blocks' = [WithBlocks(blocks, 1) EXCEPT ![cur'].lowered = TRUE]
      PROVE  Making(blocks', cur', profile.vars, code', ssa')
  <2> DEFINE h == WithBlocks(blocks, 1)
             b == Len(blocks) + 1
  <2>1. /\ Making(h, cur, profile.vars, code', ssa') /\ ~ssa'.lost
        /\ NewBlocks(blocks, 1, h) /\ Len(blocks) \in Nat
    BY <1>1, <1>4, GrowMakes
  <2>2. b \in DOMAIN h /\ IsOpen(h, b)
    <3>1. b \in (Len(blocks) + 1)..(Len(blocks) + 1)
      BY <2>1
    <3> QED
      BY <2>1, <3>1 DEF NewBlocks
  <2> HIDE DEF h, b
  <2>3. Making([h EXCEPT ![b].lowered = TRUE], b, profile.vars, code', ssa')
    BY <2>1, <2>2, MakingFill
  <2>4. blocks' = [h EXCEPT ![b].lowered = TRUE] /\ cur' = b
    BY <1>4 DEF h, b
  <2> QED
    BY <2>3, <2>4
<1>5. Making(blocks', cur', profile.vars, code', ssa')
  BY <1>3, <1>4 DEF Fill
<1> QED
  BY <1>1, <1>5, BuildKeeps

LEMMA SealKeeps ==
  ASSUME IInv, NEW b \in DOMAIN blocks, SealBlock(b)
  PROVE  IInv'
<1>1. /\ Building /\ NotRun /\ ~blocks[b].sealed /\ blocks' = Seal(blocks, b) /\ cur' = cur
      /\ ssa' = CompletePhis(Seal(blocks, b), ssa, b) /\ code' = code
  BY DEF SealBlock
<1>2. Making(blocks, cur, profile.vars, code, ssa) /\ ~ssa.lost
  BY <1>1, MakesNow
<1>3. Making(Seal(blocks, b), cur, profile.vars, code, CompletePhis(Seal(blocks, b), ssa, b))
  BY <1>1, <1>2, MakingSeal
<1>4. Making(blocks', cur', profile.vars, code', ssa')
  BY <1>1, <1>3
<1> QED
  BY <1>1, <1>4, BuildKeeps

LEMMA StartKeeps ==
  ASSUME IInv, Start
  PROVE  IInv'
<1>1. /\ Building /\ \A b \in DOMAIN blocks : blocks[b].sealed
      /\ phase' = "run" /\ slot' = [v \in DOMAIN ssa.vals |-> 0]
      /\ UNCHANGED <<profile, blocks, cur, ssa, code, pc, mem>>
  BY DEF Start
<1>2. Making(blocks, cur, profile.vars, code, ssa) /\ ~ssa.lost
  BY <1>1, MakesNow
<1>3. /\ Graph(blocks) /\ ssa \in SSAOf(profile.vars)
      /\ \E w, r, of : Built(blocks, profile.vars, code, ssa, w, r, of)
  BY <1>2, MakingIs DEF Built
<1>4. PICK w, r, of : Built(blocks, profile.vars, code, ssa, w, r, of)
  BY <1>3
<1>5. DOMAIN ssa.vals = Vals(ssa)
  <2>1. ssa.vals \in Seq(Insts)
    BY <1>3, SSAFields
  <2> QED
    BY <2>1 DEF Vals
<1>6. pc[1] = 1 /\ pc[2] = 0 /\ mem = [x \in profile.vars |-> 0]
  BY <1>1 DEF IInv, Building, NotRunning
<1>7. Running(blocks, profile.vars, code, ssa, w, r, 1, 0, [x \in profile.vars |-> 0],
              [v \in Vals(ssa) |-> 0])
  <2>1. Coded(blocks, profile.vars, code, w, r)
    BY <1>4 DEF Built
  <2> QED
    BY <1>1, <1>3, <2>1, RunStart
<1>8. Running(blocks, profile.vars, code, ssa, w, r, pc[1], pc[2], mem, slot')
  BY <1>1, <1>5, <1>6, <1>7
<1>9. InvRun'
  BY <1>1, <1>4, <1>8 DEF InvRun
<1> QED
  BY <1>1, <1>2, <1>9 DEF IInv

-----------------------------------------------------------------------------
(* The steps of a run. *)

LEMMA RunsNow ==
  ASSUME IInv, phase # "build"
  PROVE  /\ Making(blocks, cur, profile.vars, code, ssa) /\ ~ssa.lost /\ Graph(blocks)
         /\ DOMAIN blocks = 1..Len(blocks) /\ InvRun
<1>1. Making(blocks, cur, profile.vars, code, ssa) /\ ~ssa.lost /\ InvRun
  BY DEF IInv
<1>2. Graph(blocks)
  BY <1>1, MakingIs
<1> QED
  BY <1>1, <1>2 DEF Graph

LEMMA RunKeeps ==
  ASSUME IInv, phase # "build", phase' # "build", Fixed, NEW w, NEW r, NEW of,
         Built(blocks, profile.vars, code, ssa, w, r, of),
         Running(blocks, profile.vars, code, ssa, w, r, pc'[1], pc'[2], mem', slot')
  PROVE  IInv'
<1>1. InvRun'
  BY DEF InvRun, Fixed
<1> QED
  BY <1>1 DEF IInv, Fixed

LEMMA RunWriteKeeps ==
  ASSUME IInv, RunWrite
  PROVE  IInv'
<1> DEFINE b == pc[1]
           k == pc[2]
           n == Written + 1
<1>1. /\ phase = "run" /\ phase' = phase /\ k # Len(code[b]) /\ code[b][k + 1][1] = "write" /\ Fixed
      /\ mem' = [mem EXCEPT ![code[b][k + 1][2]] = n]
      /\ slot' = [slot EXCEPT ![Chase(ssa.vals, code[b][k + 1][3])] = n]
      /\ pc'[1] = b /\ pc'[2] = k + 1
  BY DEF RunWrite, AtEnd, Next1, Here, SlotOf
<1>2. Graph(blocks) /\ InvRun
  BY <1>1, RunsNow
<1>3. PICK w, r, of :
        /\ Built(blocks, profile.vars, code, ssa, w, r, of)
        /\ Running(blocks, profile.vars, code, ssa, w, r, b, k, mem, slot)
  BY <1>2 DEF InvRun
<1> HIDE DEF b, k, n
<1>4. Running(blocks, profile.vars, code, ssa, w, r, b, k + 1,
              [mem EXCEPT ![code[b][k + 1][2]] = n],
              [slot EXCEPT ![Chase(ssa.vals, code[b][k + 1][3])] = n])
  BY <1>1, <1>2, <1>3, RunWrites
<1>5. Running(blocks, profile.vars, code, ssa, w, r, pc'[1], pc'[2], mem', slot')
  BY <1>1, <1>4
<1> QED
  BY <1>1, <1>3, <1>5, RunKeeps

LEMMA RunReadKeeps ==
  ASSUME IInv, RunRead
  PROVE  IInv'
<1> DEFINE b == pc[1]
           k == pc[2]
<1>1. /\ phase = "run" /\ phase' = phase /\ k # Len(code[b]) /\ code[b][k + 1][1] = "read" /\ Fixed
      /\ mem' = mem /\ slot' = slot /\ pc'[1] = b /\ pc'[2] = k + 1
  BY DEF RunRead, AtEnd, Next1, Here
<1>2. Graph(blocks) /\ InvRun
  BY <1>1, RunsNow
<1>3. PICK w, r, of :
        /\ Built(blocks, profile.vars, code, ssa, w, r, of)
        /\ Running(blocks, profile.vars, code, ssa, w, r, b, k, mem, slot)
  BY <1>2 DEF InvRun
<1> HIDE DEF b, k
<1>4. Running(blocks, profile.vars, code, ssa, w, r, b, k + 1, mem, slot)
  BY <1>1, <1>2, <1>3, RunReads
<1>5. Running(blocks, profile.vars, code, ssa, w, r, pc'[1], pc'[2], mem', slot')
  BY <1>1, <1>4
<1> QED
  BY <1>1, <1>3, <1>5, RunKeeps

LEMMA RunEdgeKeeps ==
  ASSUME IInv, NEW t \in DOMAIN blocks, RunEdge(t)
  PROVE  IInv'
<1> DEFINE b == pc[1]
<1>1. /\ phase = "run" /\ phase' = phase /\ pc[2] = Len(code[b]) /\ t \in Targets(blocks, b) /\ Fixed
      /\ mem' = mem /\ pc'[1] = t /\ pc'[2] = 0
  BY DEF RunEdge, AtEnd, Here
<1>2. slot' = Moved(ssa, t, b, slot)
  <2>1. PhisOf(t, b) = EdgePhis(ssa, t, b)
    BY DEF PhisOf, EdgePhis, Incoming, EdgesFrom
  <2>2. \A v : SlotOf(Operand(v, b)) = Chase(ssa.vals, EdgeOperand(ssa, v, b))
    BY DEF SlotOf, Operand, EdgeOperand, Incoming, EdgesFrom
  <2>3. slot' = [v \in DOMAIN slot |-> IF v \in PhisOf(t, b)
                                       THEN slot[SlotOf(Operand(v, b))] ELSE slot[v]]
    BY DEF RunEdge, Here
  <2> HIDE DEF b
  <2> QED
    BY <2>1, <2>2, <2>3 DEF Moved
<1>3. /\ Graph(blocks) /\ InvRun /\ Making(blocks, cur, profile.vars, code, ssa) /\ ~ssa.lost
  BY <1>1, RunsNow
<1>4. PICK w, r, of :
        /\ Built(blocks, profile.vars, code, ssa, w, r, of)
        /\ Running(blocks, profile.vars, code, ssa, w, r, b, Len(code[b]), mem, slot)
  BY <1>1, <1>3 DEF InvRun
<1> HIDE DEF b
<1>5. b \in Preds(blocks, t)
  <2>1. b \in DOMAIN blocks
    BY <1>4 DEF Running
  <2>2. GraphInv(blocks, cur)
    BY <1>3 DEF Making
  <2> QED
    BY <1>1, <2>1, <2>2 DEF GraphInv
<1>6. Running(blocks, profile.vars, code, ssa, w, r, t, 0, mem, Moved(ssa, t, b, slot))
  BY <1>3, <1>4, <1>5, RunEdges
<1>7. Running(blocks, profile.vars, code, ssa, w, r, pc'[1], pc'[2], mem', slot')
  BY <1>1, <1>2, <1>6
<1> QED
  BY <1>1, <1>4, <1>7, RunKeeps

LEMMA RunRetKeeps ==
  ASSUME IInv, RunRet
  PROVE  IInv'
<1>1. /\ phase = "run" /\ phase' = "end" /\ Fixed /\ mem' = mem /\ slot' = slot /\ pc' = pc
  BY DEF RunRet
<1>2. InvRun
  BY <1>1, RunsNow
<1>3. PICK w, r, of :
        /\ Built(blocks, profile.vars, code, ssa, w, r, of)
        /\ Running(blocks, profile.vars, code, ssa, w, r, pc[1], pc[2], mem, slot)
  BY <1>2 DEF InvRun
<1>4. Running(blocks, profile.vars, code, ssa, w, r, pc'[1], pc'[2], mem', slot')
  BY <1>1, <1>3
<1> QED
  BY <1>1, <1>3, <1>4, RunKeeps

LEMMA StepIInv ==
  ASSUME IInv, [Next]_vars
  PROVE  IInv'
<1>1. CASE Build
  BY <1>1, WriteKeeps, ReadKeeps, JumpKeeps, BranchKeeps, ReturnKeeps, FillKeeps, SealKeeps DEF Build
<1>2. CASE Start
  BY <1>2, StartKeeps
<1>3. CASE Run
  BY <1>3, RunWriteKeeps, RunReadKeeps, RunRetKeeps, RunEdgeKeeps DEF Run
<1>4. CASE UNCHANGED vars
  BY <1>4 DEF vars, IInv, InvRun
<1> QED
  BY <1>1, <1>2, <1>3, <1>4 DEF Next

\* Whatever the profile, the construction of a function keeps its invariant.
THEOREM ConstructionInvariant == Spec => []IInv
<1>1. Init => IInv
  BY InitIInv
<1>2. IInv /\ [Next]_vars => IInv'
  BY StepIInv
<1> QED
  BY <1>1, <1>2, PTL DEF Spec

\* The emitted program reads from the slot of a value what the source program
\* has in the variable, on every path and however the blocks were filled and
\* sealed (ST_ir_read_var, ST_ir_add_phi_operand, ST_generate_phi_copies).
THEOREM ReadsAgreeHolds == Spec => []ReadsAgree
<1>1. IInv => ReadsAgree
  <2> SUFFICES ASSUME IInv, phase = "run", ~AtEnd, Next1[1] = "read"
               PROVE  slot[SlotOf(Next1[3])] = mem[Next1[2]]
    BY DEF ReadsAgree
  <2> DEFINE b == pc[1]
             k == pc[2]
  <2>1. k # Len(code[b]) /\ code[b][k + 1][1] = "read" /\ Next1 = code[b][k + 1]
    BY DEF AtEnd, Next1, Here
  <2>2. Graph(blocks) /\ InvRun
    BY RunsNow
  <2>3. PICK w, r, of :
          /\ Built(blocks, profile.vars, code, ssa, w, r, of)
          /\ Running(blocks, profile.vars, code, ssa, w, r, b, k, mem, slot)
    BY <2>2 DEF InvRun
  <2> HIDE DEF b, k
  <2>4. /\ Running(blocks, profile.vars, code, ssa, w, r, b, k + 1, mem, slot)
        /\ slot[Chase(ssa.vals, code[b][k + 1][3])] = mem[code[b][k + 1][2]]
    BY <2>1, <2>2, <2>3, RunReads
  <2> QED
    BY <2>1, <2>4 DEF SlotOf
<1> QED
  BY <1>1, ConstructionInvariant, PTL

\* A phi that stays when the function is done has one operand for each
\* predecessor of its block, in their order (ST_ir_block_seal).
THEOREM PhisCompleteHolds == Spec => []PhisComplete
<1>1. IInv => PhisComplete
  <2> SUFFICES ASSUME IInv, phase = "run", NEW v \in DOMAIN ssa.vals, ssa.vals[v].kind = "phi"
               PROVE  ssa.vals[v].from = blocks[ssa.vals[v].block].preds
    BY DEF PhisComplete
  <2>1. InvRun
    BY RunsNow
  <2>2. PICK w, r, of :
          /\ Sound(blocks, profile.vars, w, {}, ssa, r, of)
          /\ \A c \in DOMAIN blocks : blocks[c].sealed
    BY <2>1 DEF InvRun, Built, Running
  <2>3. v \in Vals(ssa) /\ v \notin {}
    <3>1. ssa \in SSAOf(profile.vars)
      BY <2>2 DEF Sound, Typed
    <3>2. ssa.vals \in Seq(Insts)
      BY <3>1, SSAFields
    <3> QED
      BY <3>2 DEF Vals
  <2>4. ssa.vals[v].block \in DOMAIN blocks
    BY <2>2, <2>3 DEF Sound, Typed
  <2> QED
    BY <2>2, <2>3, <2>4 DEF Sound, Filled
<1> QED
  BY <1>1, ConstructionInvariant, PTL

\* Unless a loop that no run enters has been built, every read and every
\* sealing comes back, and no chain of removed phis is a cycle
\* (ST_ir_read_var, ST_ir_try_removal_trivial_phi).
THEOREM ReadsComeBackHolds == Spec => []ReadsComeBack
<1>1. IInv => ReadsComeBack
  <2> SUFFICES ASSUME IInv, ssa.lost \/ \E v \in DOMAIN ssa.vals : Endless(ssa.vals, v)
               PROVE  DeadLoop(blocks)
    BY DEF ReadsComeBack
  <2>1. Making(blocks, cur, profile.vars, code, ssa)
    BY DEF IInv
  <2>2. CASE ssa.lost
    BY <2>1, <2>2 DEF Making
  <2>3. CASE ~ssa.lost
    <3>1. PICK v \in DOMAIN ssa.vals : Endless(ssa.vals, v)
      BY <2>3
    <3>2. PICK w, r, of : Sound(blocks, profile.vars, w, {}, ssa, r, of)
      BY <2>1, <2>3, MakingIs
    <3>3. Graph(blocks) /\ ssa \in SSAOf(profile.vars)
      BY <2>1, <2>3, MakingIs
    <3>4. v \in Vals(ssa)
      <4>1. ssa.vals \in Seq(Insts)
        BY <3>3, SSAFields
      <4> QED
        BY <4>1 DEF Vals
    <3>5. PICK S : Dead(blocks, S)
      BY <3>1, <3>2, <3>3, <3>4, EndlessIsDead
    <3> QED
      BY <3>5, DeadIsDeadLoop
  <2> QED
    BY <2>2, <2>3
<1> QED
  BY <1>1, ConstructionInvariant, PTL
=============================================================================
