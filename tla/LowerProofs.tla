---------------------------- MODULE LowerProofs ----------------------------
(***************************************************************************)
(* Theorems about the lowering of statements, for every set of labels and  *)
(* every kind of function, however long and however deep:                  *)
(*   the steps      what a step does to the blocks, the stack of constructs*)
(*                  and the labels, and that it keeps the invariant IInv;  *)
(*   the actions    each action is such a step: edges and terminators are  *)
(*                  one relation, a sealed block gains no predecessor, a   *)
(*                  terminator is written once, no block is lost;          *)
(*   the paths      what deferred statements do along the paths of the     *)
(*                  lowered function, and which of its blocks control can  *)
(*                  reach.                                                 *)
(*                                                                         *)
(* The inductive invariant says which blocks the open constructs and the   *)
(* labels keep for later: each is the property of one frame, takes         *)
(* predecessors until that frame seals it, and is written to only when its *)
(* turn comes.  A step is summarised by its effect on the graph (Effect)   *)
(* and by what it does to the stack of constructs, of which there are four *)
(* kinds; one lemma for each kind carries the invariant over the step, and *)
(* each action is shown to be a step of one of these kinds by following    *)
(* the graph it builds call by call.                                       *)
(***************************************************************************)
EXTENDS Lower, SequenceTheorems, FiniteSetTheorems, WellFoundedInduction, TLAPS

-----------------------------------------------------------------------------
(***************************************************************************)
(* What the operators of IRGraph do to a graph, stated once: every one of  *)
(* them keeps the two records of an edge consistent and makes an edit of a *)
(* known kind, whatever graph it is given, provided its source is open and *)
(* its targets are not sealed.  Edits compose, so a step that calls a      *)
(* dozen of them is an edit as well.                                       *)
(***************************************************************************)

TermKinds == {"none", "br", "condbr", "ret", "unreachable"}
Block == [preds : Seq(Nat), sealed : BOOLEAN, term : [kind : TermKinds, to : Seq(Nat)],
          lowered : BOOLEAN, enter : Seq(Nat), pend : Seq(Nat)]

Ids(g) == 1 .. Len(g)

\* No predecessor is listed twice.
Once(s) == \A i, j \in DOMAIN s : s[i] = s[j] => i = j

\* Both records of an edge are there, once each, between blocks of the graph;
\* an open block has no edge.
Consistent(g) ==
  /\ g \in Seq(Block)
  /\ \A a, b \in Ids(g) : b \in Targets(g, a) <=> a \in Preds(g, b)
  /\ \A b \in Ids(g) :
       /\ Targets(g, b) \subseteq Ids(g) /\ Preds(g, b) \subseteq Ids(g)
       /\ Once(g[b].preds)
       /\ IsOpen(g, b) => g[b].term.to = <<>>

\* h is g with more blocks, with terminators for open blocks among C, with
\* some of S sealed or taken up, and with new predecessors for blocks that are
\* not sealed in g.
Edits(g, h, C, S) ==
  /\ Consistent(g) /\ Consistent(h)
  /\ Len(g) <= Len(h)
  /\ \A b \in Ids(g) :
       /\ ~IsOpen(g, b) \/ b \notin C => h[b].term = g[b].term
       /\ b \notin S => h[b].sealed = g[b].sealed /\ h[b].lowered = g[b].lowered
       /\ g[b].sealed => h[b].sealed /\ h[b].preds = g[b].preds
       /\ g[b].preds # <<>> => h[b].preds # <<>>

-----------------------------------------------------------------------------
(* Edits compose. *)

LEMMA GraphFacts ==
  ASSUME NEW g, Consistent(g)
  PROVE  /\ g \in Seq(Block) /\ Len(g) \in Nat /\ DOMAIN g = Ids(g)
         /\ g \in [Ids(g) -> Block]
         /\ \A b \in Ids(g) : b \in Nat /\ g[b] \in Block
BY DEF Consistent, Ids

\* A function on the identifiers of a graph is a graph as long.
LEMMA SameLength ==
  ASSUME NEW g, Len(g) \in Nat, NEW h \in [Ids(g) -> Block]
  PROVE  h \in Seq(Block) /\ Len(h) = Len(g)
<1> DEFINE n == Len(g)
<1>1. n \in Nat /\ h \in [1 .. n -> Block]
  BY DEF Ids
<1> HIDE DEF n
<1>2. h \in Seq(Block) /\ Len(h) = n
  BY <1>1
<1> QED
  BY <1>2 DEF n

LEMMA EditsNothing ==
  ASSUME NEW g, NEW C, NEW S, Consistent(g)
  PROVE  Edits(g, g, C, S)
BY GraphFacts DEF Edits

LEMMA EditsCompose ==
  ASSUME NEW g, NEW h, NEW k, NEW C, NEW S, Edits(g, h, C, S), Edits(h, k, C, S)
  PROVE  Edits(g, k, C, S)
<1>1. Len(g) \in Nat /\ Len(h) \in Nat /\ Len(k) \in Nat
  BY GraphFacts DEF Edits
<1>2. Len(g) <= Len(k) /\ Ids(g) \subseteq Ids(h)
  BY <1>1 DEF Edits, Ids
<1> QED
  BY <1>2 DEF Edits, IsOpen

\* Blocks that g does not have may be left out of C and S, others added.
LEMMA EditsWithin ==
  ASSUME NEW g, NEW h, NEW C, NEW S, NEW D, NEW T, Edits(g, h, C, S),
         C \cap Ids(g) \subseteq D, S \cap Ids(g) \subseteq T
  PROVE  Edits(g, h, D, T)
BY DEF Edits

LEMMA EditsThen ==
  ASSUME NEW g, NEW h, NEW k, NEW C, NEW S, NEW D, NEW T, NEW E, NEW U,
         Edits(g, h, C, S), Edits(h, k, D, T),
         (C \cup D) \cap Ids(g) \subseteq E, (S \cup T) \cap Ids(g) \subseteq U
  PROVE  Edits(g, k, E, U)
<1>1. Edits(g, h, C \cup D, S \cup T) /\ Edits(h, k, C \cup D, S \cup T)
  BY EditsWithin
<1>2. Edits(g, k, C \cup D, S \cup T)
  BY <1>1, EditsCompose
<1> QED
  BY <1>2, EditsWithin

LEMMA EditsBounds ==
  ASSUME NEW g, NEW h, NEW C, NEW S, Edits(g, h, C, S)
  PROVE  /\ Consistent(g) /\ Consistent(h) /\ Ids(g) \subseteq Ids(h)
         /\ Len(g) \in Nat /\ Len(h) \in Nat
<1>1. Len(g) \in Nat /\ Len(h) \in Nat
  BY GraphFacts DEF Edits
<1> QED
  BY <1>1 DEF Edits, Ids

\* What an edit leaves of a block.
LEMMA EditsKeep ==
  ASSUME NEW g, NEW h, NEW C, NEW S, Edits(g, h, C, S), NEW b \in Ids(g)
  PROVE  /\ b \in Ids(h)
         /\ b \notin C /\ IsOpen(g, b) => IsOpen(h, b)
         /\ ~IsOpen(g, b) => ~IsOpen(h, b)
         /\ b \notin S /\ ~g[b].sealed => ~h[b].sealed
         /\ b \notin S => h[b].lowered = g[b].lowered
         /\ g[b].preds # <<>> => h[b].preds # <<>>
<1>1. Len(g) \in Nat /\ Len(h) \in Nat
  BY GraphFacts DEF Edits
<1> QED
  BY <1>1 DEF Edits, IsOpen, Ids

-----------------------------------------------------------------------------
(* Lists of predecessors. *)

Elems(s) == {s[i] : i \in DOMAIN s}

LEMMA AppendOnce ==
  ASSUME NEW s \in Seq(Nat), NEW x \in Nat
  PROVE  /\ Append(s, x) \in Seq(Nat)
         /\ Append(s, x) # <<>>
         /\ Elems(Append(s, x)) = Elems(s) \cup {x}
         /\ Once(s) /\ x \notin Elems(s) => Once(Append(s, x))
<1> DEFINE t == Append(s, x)
<1>1. /\ t \in Seq(Nat) /\ Len(t) = Len(s) + 1 /\ Len(s) \in Nat
      /\ DOMAIN s = 1 .. Len(s) /\ DOMAIN t = 1 .. Len(s) + 1
      /\ \A i \in 1 .. Len(s) : t[i] = s[i]
      /\ t[Len(s) + 1] = x
  OBVIOUS
<1> HIDE DEF t
<1>2. Len(t) # 0
  BY <1>1
<1>3. t # <<>>
  BY <1>2
<1>4. Elems(t) = Elems(s) \cup {x}
  <2>1. \A i \in DOMAIN t : t[i] \in Elems(s) \cup {x}
    BY <1>1 DEF Elems
  <2>2. \A i \in DOMAIN s : s[i] \in Elems(t)
    BY <1>1 DEF Elems
  <2>3. x \in Elems(t)
    BY <1>1 DEF Elems
  <2> QED
    BY <2>1, <2>2, <2>3 DEF Elems
<1>5. Once(s) /\ x \notin Elems(s) => Once(t)
  <2> SUFFICES ASSUME Once(s), x \notin Elems(s), NEW i \in 1 .. Len(s) + 1,
                      NEW j \in 1 .. Len(s) + 1, t[i] = t[j]
               PROVE  i = j
    BY <1>1 DEF Once
  <2>1. \A k \in 1 .. Len(s) : t[k] = s[k] /\ t[k] # x
    BY <1>1 DEF Elems
  <2>2. CASE i \in 1 .. Len(s) /\ j \in 1 .. Len(s)
    BY <1>1, <2>1, <2>2 DEF Once
  <2>3. CASE i = Len(s) + 1 \/ j = Len(s) + 1
    BY <1>1, <2>1, <2>3
  <2> QED
    BY <1>1, <2>2, <2>3
<1> QED
  BY <1>1, <1>3, <1>4, <1>5 DEF t

\* A list that names nobody twice is as long as the set of those it names.
LEMMA OnceCounts ==
  ASSUME NEW s \in Seq(Nat), Once(s)
  PROVE  Cardinality(Elems(s)) = Len(s)
<1>1. Len(s) \in Nat /\ DOMAIN s = 1 .. Len(s)
  OBVIOUS
<1>2. s \in [1 .. Len(s) -> Elems(s)]
  BY DEF Elems
<1>3. \A x \in Elems(s) : \E i \in 1 .. Len(s) : s[i] = x
  BY <1>1 DEF Elems
<1>4. s \in Bijection(1 .. Len(s), Elems(s))
  BY <1>1, <1>2, <1>3 DEF Once, Bijection, Injection, Surjection, IsInjective
<1>5. ExistsBijection(1 .. Len(s), Elems(s))
  BY <1>4 DEF ExistsBijection
<1> QED
  BY <1>1, <1>5, FS_CountingElements

LEMMA PredsCounted ==
  ASSUME NEW g, Consistent(g), NEW b \in Ids(g)
  PROVE  Cardinality(Preds(g, b)) = Len(g[b].preds)
<1>1. g[b].preds \in Seq(Nat) /\ Once(g[b].preds)
  BY GraphFacts DEF Consistent, Block
<1>2. Preds(g, b) = Elems(g[b].preds)
  BY DEF Preds, Elems
<1> QED
  BY <1>1, <1>2, OnceCounts

-----------------------------------------------------------------------------
(* Terminators. *)

\* A terminator for an open block, with a record of it in each target.
LEMMA TerminatorEdits ==
  ASSUME NEW g, NEW h, NEW from \in Ids(g), NEW to \in Seq(Nat), Consistent(g),
         IsOpen(g, from), h \in Seq(Block), Len(h) = Len(g),
         ~IsOpen(h, from), h[from].term.to = to,
         \A b \in Elems(to) : b \in Ids(g) /\ ~g[b].sealed,
         \A b \in Ids(g) :
           /\ b # from => h[b].term = g[b].term
           /\ h[b].sealed = g[b].sealed /\ h[b].lowered = g[b].lowered
           /\ h[b].preds = IF b \in Elems(to) THEN Append(g[b].preds, from)
                                              ELSE g[b].preds
  PROVE  Edits(g, h, {from}, {})
<1>1. Ids(h) = Ids(g) /\ from \in Nat
  BY GraphFacts DEF Ids
<1>2. \A b \in Ids(g) : g[b].preds \in Seq(Nat) /\ Once(g[b].preds)
  BY GraphFacts DEF Block, Consistent
<1>3. Targets(g, from) = {}
  <2>1. g[from].term.to = <<>>
    BY DEF Consistent
  <2> QED
    BY <2>1 DEF Targets
<1>4. \A b \in Ids(g) : from \notin Preds(g, b)
  BY <1>3 DEF Consistent
<1>5. \A b \in Ids(g) : Preds(g, b) = Elems(g[b].preds) /\ Preds(h, b) = Elems(h[b].preds)
  BY DEF Preds, Elems
<1>6. /\ Targets(h, from) = Elems(to)
      /\ \A b \in Ids(g) \ {from} : Targets(h, b) = Targets(g, b)
  BY DEF Targets, Elems
<1>7. \A b \in Elems(to) : /\ Preds(h, b) = Preds(g, b) \cup {from}
                           /\ Once(h[b].preds) /\ h[b].preds # <<>>
  <2> SUFFICES ASSUME NEW b \in Elems(to)
               PROVE  /\ Preds(h, b) = Preds(g, b) \cup {from}
                      /\ Once(h[b].preds) /\ h[b].preds # <<>>
    OBVIOUS
  <2>1. b \in Ids(g) /\ h[b].preds = Append(g[b].preds, from)
    OBVIOUS
  <2>2. g[b].preds \in Seq(Nat) /\ Once(g[b].preds) /\ from \notin Elems(g[b].preds)
    BY <1>2, <1>4, <1>5, <2>1
  <2>3. /\ Elems(h[b].preds) = Elems(g[b].preds) \cup {from}
        /\ Once(h[b].preds) /\ h[b].preds # <<>>
    BY <1>1, <2>1, <2>2, AppendOnce
  <2> QED
    BY <1>5, <2>1, <2>3
<1>8. \A b \in Ids(g) \ Elems(to) : /\ Preds(h, b) = Preds(g, b)
                                    /\ Once(h[b].preds) /\ h[b].preds = g[b].preds
  BY <1>2, <1>5
<1>9. \A a, b \in Ids(g) : b \in Targets(h, a) <=> a \in Preds(h, b)
  <2> SUFFICES ASSUME NEW a \in Ids(g), NEW b \in Ids(g)
               PROVE  b \in Targets(h, a) <=> a \in Preds(h, b)
    OBVIOUS
  <2>1. b \in Targets(g, a) <=> a \in Preds(g, b)
    BY DEF Consistent
  <2>2. CASE a = from
    BY <1>4, <1>6, <1>7, <1>8, <2>2
  <2>3. CASE a # from
    BY <1>6, <1>7, <1>8, <2>1, <2>3
  <2> QED
    BY <2>2, <2>3
<1>10. \A b \in Ids(g) : Targets(h, b) \subseteq Ids(g)
  BY <1>6 DEF Consistent
<1>11. \A b \in Ids(g) : Preds(h, b) \subseteq Ids(g)
  BY <1>7, <1>8 DEF Consistent
<1>12. \A b \in Ids(g) : IsOpen(h, b) => h[b].term.to = <<>>
  BY DEF IsOpen, Consistent
<1>13. \A b \in Ids(g) : Once(h[b].preds)
  BY <1>7, <1>8
<1>14. Consistent(h)
  BY <1>1, <1>9, <1>10, <1>11, <1>12, <1>13 DEF Consistent
<1>15. \A b \in Ids(g) : /\ g[b].sealed => h[b].preds = g[b].preds
                         /\ g[b].preds # <<>> => h[b].preds # <<>>
  BY <1>7, <1>8
<1>16. Len(g) <= Len(h)
  BY GraphFacts
<1> QED
  BY <1>14, <1>15, <1>16 DEF Edits

LEMMA BrEdits ==
  ASSUME NEW g, Consistent(g), NEW from \in Ids(g), IsOpen(g, from),
         NEW to \in Ids(g), ~g[to].sealed
  PROVE  /\ Edits(g, Br(g, from, to), {from}, {})
         /\ Len(Br(g, from, to)) = Len(g)
         /\ ~IsOpen(Br(g, from, to), from)
         /\ Br(g, from, to)[to].preds # <<>>
<1> DEFINE h == Br(g, from, to)
           term == [kind |-> "br", to |-> <<to>>]
<1>1. /\ g \in Seq(Block) /\ from \in Nat /\ to \in Nat /\ DOMAIN g = Ids(g)
      /\ \A b \in Ids(g) : g[b] \in Block
  BY GraphFacts
<1>2. term \in [kind : TermKinds, to : Seq(Nat)]
  BY <1>1 DEF TermKinds
<1>3. /\ \A b \in Ids(g) : /\ h[b].term = IF b = from THEN term ELSE g[b].term
                           /\ h[b].sealed = g[b].sealed /\ h[b].lowered = g[b].lowered
                           /\ h[b].preds = IF b = to THEN Append(g[b].preds, from)
                                                     ELSE g[b].preds
      /\ DOMAIN h = Ids(g)
  BY <1>1 DEF Br, Block
<1>4. h \in [Ids(g) -> Block]
  <2>1. [g[from] EXCEPT !.term = term] \in Block
    BY <1>1, <1>2 DEF Block
  <2>2. [g EXCEPT ![from].term = term] \in [Ids(g) -> Block]
    BY <2>1, GraphFacts
  <2>3. \A e \in Block : [e EXCEPT !.preds = Append(@, from)] \in Block
    BY <1>1, AppendOnce DEF Block
  <2> QED
    BY <2>2, <2>3 DEF Br
<1>5. h \in Seq(Block) /\ Len(h) = Len(g)
  BY <1>4, GraphFacts, SameLength
<1>6. Elems(<<to>>) = {to}
  BY DEF Elems
<1> HIDE DEF h, term
<1>7. /\ ~IsOpen(h, from) /\ h[from].term.to = <<to>> /\ <<to>> \in Seq(Nat)
  BY <1>1, <1>3 DEF IsOpen, term
<1>8. Edits(g, h, {from}, {})
  BY <1>3, <1>5, <1>6, <1>7, TerminatorEdits
<1>9. h[to].preds # <<>>
  <2>1. g[to].preds \in Seq(Nat) /\ h[to].preds = Append(g[to].preds, from)
    BY <1>1, <1>3 DEF Block
  <2> QED
    BY <1>1, <2>1, AppendOnce
<1> QED
  BY <1>5, <1>7, <1>8, <1>9 DEF h

LEMMA CondBrEdits ==
  ASSUME NEW g, Consistent(g), NEW from \in Ids(g), IsOpen(g, from),
         NEW t \in Ids(g), NEW f \in Ids(g), t # f, ~g[t].sealed, ~g[f].sealed
  PROVE  /\ Edits(g, CondBr(g, from, t, f), {from}, {})
         /\ Len(CondBr(g, from, t, f)) = Len(g)
         /\ ~IsOpen(CondBr(g, from, t, f), from)
         /\ CondBr(g, from, t, f)[t].preds # <<>>
         /\ CondBr(g, from, t, f)[f].preds # <<>>
<1> DEFINE h == CondBr(g, from, t, f)
           term == [kind |-> "condbr", to |-> <<t, f>>]
<1>1. /\ g \in Seq(Block) /\ from \in Nat /\ t \in Nat /\ f \in Nat /\ DOMAIN g = Ids(g)
      /\ \A b \in Ids(g) : g[b] \in Block
  BY GraphFacts
<1>2. term \in [kind : TermKinds, to : Seq(Nat)]
  BY <1>1 DEF TermKinds
<1>3. \A b \in Ids(g) : /\ h[b].term = IF b = from THEN term ELSE g[b].term
                        /\ h[b].sealed = g[b].sealed /\ h[b].lowered = g[b].lowered
                        /\ h[b].preds = IF b = t \/ b = f THEN Append(g[b].preds, from)
                                                          ELSE g[b].preds
  BY <1>1 DEF CondBr, Block
<1>4. h \in [Ids(g) -> Block]
  <2>1. [g[from] EXCEPT !.term = term] \in Block
    BY <1>1, <1>2 DEF Block
  <2>2. [g EXCEPT ![from].term = term] \in [Ids(g) -> Block]
    BY <2>1, GraphFacts
  <2>3. \A e \in Block : [e EXCEPT !.preds = Append(@, from)] \in Block
    BY <1>1, AppendOnce DEF Block
  <2> DEFINE g1 == [g EXCEPT ![from].term = term]
             g2 == [g1 EXCEPT ![t].preds = Append(@, from)]
  <2>4. h = [g2 EXCEPT ![f].preds = Append(@, from)]
    BY DEF CondBr
  <2> HIDE DEF g1, h
  <2>5. g2 \in [Ids(g) -> Block]
    BY <2>2, <2>3 DEF g1
  <2> HIDE DEF g2
  <2> QED
    BY <2>3, <2>4, <2>5
<1>5. h \in Seq(Block) /\ Len(h) = Len(g)
  BY <1>4, GraphFacts, SameLength
<1>6. Elems(<<t, f>>) = {t, f}
  BY DEF Elems
<1> HIDE DEF h, term
<1>7. /\ ~IsOpen(h, from) /\ h[from].term.to = <<t, f>> /\ <<t, f>> \in Seq(Nat)
  BY <1>1, <1>3 DEF IsOpen, term
<1>8. Edits(g, h, {from}, {})
  <2>1. \A b \in Elems(<<t, f>>) : b \in Ids(g) /\ ~g[b].sealed
    BY <1>6
  <2>2. \A b \in Ids(g) :
           /\ b # from => h[b].term = g[b].term
           /\ h[b].sealed = g[b].sealed /\ h[b].lowered = g[b].lowered
           /\ h[b].preds = IF b \in Elems(<<t, f>>) THEN Append(g[b].preds, from)
                                                    ELSE g[b].preds
    BY <1>3, <1>6
  <2> QED
    BY <1>5, <1>7, <2>1, <2>2, TerminatorEdits
<1>9. h[t].preds # <<>> /\ h[f].preds # <<>>
  <2>1. \A b \in {t, f} : g[b].preds \in Seq(Nat) /\ h[b].preds = Append(g[b].preds, from)
    BY <1>1, <1>3 DEF Block
  <2> QED
    BY <1>1, <2>1, AppendOnce
<1> QED
  BY <1>5, <1>7, <1>8, <1>9 DEF h

\* A terminator that leads nowhere.
LEMMA LeafEdits ==
  ASSUME NEW g, Consistent(g), NEW b \in Ids(g), IsOpen(g, b),
         NEW h, h \in {Ret(g, b), Unreachable(g, b)}
  PROVE  Edits(g, h, {b}, {}) /\ Len(h) = Len(g) /\ ~IsOpen(h, b)
<1>1. /\ g \in [Ids(g) -> Block] /\ \A a \in Ids(g) : g[a] \in Block
  BY GraphFacts
<1>2. PICK k \in {"ret", "unreachable"} : h = [g EXCEPT ![b].term = [kind |-> k, to |-> <<>>]]
  BY DEF Ret, Unreachable
<1>3. [g[b] EXCEPT !.term = [kind |-> k, to |-> <<>>]] \in Block
  <2>1. [kind |-> k, to |-> <<>>] \in [kind : TermKinds, to : Seq(Nat)]
    BY DEF TermKinds
  <2> QED
    BY <1>1, <2>1 DEF Block
<1>4. h \in [Ids(g) -> Block]
  BY <1>1, <1>2, <1>3
<1>5. h \in Seq(Block) /\ Len(h) = Len(g)
  BY <1>4, GraphFacts, SameLength
<1>6. /\ h[b].term = [kind |-> k, to |-> <<>>]
      /\ \A a \in Ids(g) : /\ a # b => h[a].term = g[a].term
                           /\ h[a].sealed = g[a].sealed /\ h[a].preds = g[a].preds
                           /\ h[a].lowered = g[a].lowered
  BY <1>1, <1>2 DEF Block
<1>7. ~IsOpen(h, b) /\ h[b].term.to = <<>> /\ Elems(<<>>) = {} /\ <<>> \in Seq(Nat)
  BY <1>6 DEF IsOpen, Elems
<1> QED
  BY <1>5, <1>6, <1>7, TerminatorEdits

-----------------------------------------------------------------------------
(* Seals, the lists of deferred statements, new blocks. *)

LEMMA FieldEdits ==
  ASSUME NEW g, Consistent(g), NEW h \in [Ids(g) -> Block], NEW S,
         \A b \in Ids(g) : /\ h[b].term = g[b].term /\ h[b].preds = g[b].preds
                           /\ b \notin S => h[b].sealed = g[b].sealed
                           /\ b \notin S => h[b].lowered = g[b].lowered
                           /\ g[b].sealed => h[b].sealed
  PROVE  Edits(g, h, {}, S) /\ Len(h) = Len(g)
<1>1. h \in Seq(Block) /\ Len(h) = Len(g) /\ Ids(h) = Ids(g) /\ Len(g) \in Nat
  BY GraphFacts, SameLength DEF Ids
<1>2. \A b \in Ids(g) : Targets(h, b) = Targets(g, b) /\ Preds(h, b) = Preds(g, b)
  BY DEF Targets, Preds
<1>3. Consistent(h)
  BY <1>1, <1>2 DEF Consistent, IsOpen
<1> QED
  BY <1>1, <1>3 DEF Edits

LEMMA SealEdits ==
  ASSUME NEW g, Consistent(g), NEW b \in Ids(g)
  PROVE  Edits(g, Seal(g, b), {}, {b}) /\ Len(Seal(g, b)) = Len(g)
<1> DEFINE h == Seal(g, b)
<1>1. /\ g \in [Ids(g) -> Block] /\ \A a \in Ids(g) : g[a] \in Block
  BY GraphFacts
<1>2. [g[b] EXCEPT !.sealed = TRUE] \in Block
  BY <1>1 DEF Block
<1>3. h \in [Ids(g) -> Block]
  BY <1>1, <1>2 DEF Seal
<1>4. \A a \in Ids(g) : /\ h[a].term = g[a].term /\ h[a].preds = g[a].preds
                        /\ a \notin {b} => h[a].sealed = g[a].sealed
                        /\ a \notin {b} => h[a].lowered = g[a].lowered
                        /\ g[a].sealed => h[a].sealed
  BY <1>1 DEF Seal, Block
<1> HIDE DEF h
<1>5. Edits(g, h, {}, {b}) /\ Len(h) = Len(g)
  BY <1>3, <1>4, FieldEdits
<1> QED
  BY <1>5 DEF h

LEMMA SealAllEdits ==
  ASSUME NEW g, Consistent(g), NEW bs
  PROVE  /\ Edits(g, SealAll(g, bs), {}, bs) /\ Len(SealAll(g, bs)) = Len(g)
         /\ \A a \in Ids(g) : SealAll(g, bs)[a].lowered = g[a].lowered
<1> DEFINE h == SealAll(g, bs)
<1>1. /\ g \in [Ids(g) -> Block] /\ \A a \in Ids(g) : g[a] \in Block
      /\ DOMAIN g = Ids(g)
  BY GraphFacts
<1>2. \A a \in Ids(g) : [g[a] EXCEPT !.sealed = TRUE] \in Block
  BY <1>1 DEF Block
<1>3. \A a \in Ids(g) : Seal(g, a)[a] = [g[a] EXCEPT !.sealed = TRUE]
  BY <1>1 DEF Seal
<1>4. h \in [Ids(g) -> Block]
  BY <1>1, <1>2, <1>3 DEF SealAll
<1>5. \A a \in Ids(g) : /\ h[a].term = g[a].term /\ h[a].preds = g[a].preds
                        /\ a \notin bs => h[a].sealed = g[a].sealed
                        /\ h[a].lowered = g[a].lowered
                        /\ g[a].sealed => h[a].sealed
  BY <1>1, <1>3 DEF SealAll, Block
<1> HIDE DEF h
<1>6. Edits(g, h, {}, bs) /\ Len(h) = Len(g)
  BY <1>4, <1>5, FieldEdits
<1> QED
  BY <1>5, <1>6 DEF h

\* Deferred statements run, or more of them are registered.
LEMMA PendEdits ==
  ASSUME NEW g, Consistent(g), NEW b \in Ids(g), NEW p \in Seq(Nat)
  PROVE  /\ Edits(g, [g EXCEPT ![b].pend = p], {}, {})
         /\ Len([g EXCEPT ![b].pend = p]) = Len(g)
<1> DEFINE h == [g EXCEPT ![b].pend = p]
<1>1. /\ g \in [Ids(g) -> Block] /\ \A a \in Ids(g) : g[a] \in Block
  BY GraphFacts
<1>2. [g[b] EXCEPT !.pend = p] \in Block
  BY <1>1 DEF Block
<1>3. h \in [Ids(g) -> Block]
  BY <1>1, <1>2
<1>4. \A a \in Ids(g) : /\ h[a].term = g[a].term /\ h[a].preds = g[a].preds
                        /\ h[a].sealed = g[a].sealed /\ h[a].lowered = g[a].lowered
  BY <1>1 DEF Block
<1> HIDE DEF h
<1>5. Edits(g, h, {}, {}) /\ Len(h) = Len(g)
  BY <1>3, <1>4, FieldEdits
<1> QED
  BY <1>5 DEF h

\* A block is taken up, with the deferred statements pending there.
TakenUp(g, b, e) == [g EXCEPT ![b].lowered = TRUE, ![b].enter = e, ![b].pend = e]

LEMMA TakenUpEdits ==
  ASSUME NEW g, Consistent(g), NEW b \in Ids(g), NEW e \in Seq(Nat)
  PROVE  /\ Edits(g, TakenUp(g, b, e), {}, {b})
         /\ Len(TakenUp(g, b, e)) = Len(g)
         /\ \A a \in Ids(g) : TakenUp(g, b, e)[a].sealed = g[a].sealed
<1> DEFINE h == TakenUp(g, b, e)
           new == [g[b] EXCEPT !.lowered = TRUE, !.enter = e, !.pend = e]
<1>1. /\ g \in [Ids(g) -> Block] /\ \A a \in Ids(g) : g[a] \in Block
  BY GraphFacts
<1>2. /\ new \in Block /\ new.term = g[b].term /\ new.preds = g[b].preds
      /\ new.sealed = g[b].sealed
  BY <1>1 DEF Block
<1>3. h = [g EXCEPT ![b] = new]
  BY <1>1 DEF TakenUp
<1> HIDE DEF h, new
<1>4. h \in [Ids(g) -> Block]
  BY <1>1, <1>2, <1>3
<1>5. \A a \in Ids(g) : /\ h[a].term = g[a].term /\ h[a].preds = g[a].preds
                        /\ h[a].sealed = g[a].sealed
                        /\ a \notin {b} => h[a].lowered = g[a].lowered
  BY <1>1, <1>2, <1>3
<1>6. Edits(g, h, {}, {b}) /\ Len(h) = Len(g)
  BY <1>4, <1>5, FieldEdits
<1> QED
  BY <1>5, <1>6 DEF h

\* A join is closed at once if nobody branches to it.
LEMMA CloseUnreachedEdits ==
  ASSUME NEW g, Consistent(g), NEW b \in Ids(g), IsOpen(g, b)
  PROVE  /\ Edits(g, CloseUnreached(g, b), {b}, {})
         /\ Len(CloseUnreached(g, b)) = Len(g)
         /\ g[b].preds # <<>> => IsOpen(CloseUnreached(g, b), b)
<1>1. CASE g[b].preds = <<>>
  BY <1>1, LeafEdits DEF CloseUnreached
<1>2. CASE g[b].preds # <<>>
  BY <1>2, EditsNothing DEF CloseUnreached
<1> QED
  BY <1>1, <1>2

\* New blocks are open, not sealed and nobody's targets.
LEMMA GrowEdits ==
  ASSUME NEW g, Consistent(g), NEW n \in Nat
  PROVE  /\ Edits(g, WithBlocks(g, n), {}, {})
         /\ Len(WithBlocks(g, n)) = Len(g) + n
         /\ \A b \in Ids(g) : WithBlocks(g, n)[b] = g[b]
         /\ \A b \in (Len(g) + 1) .. (Len(g) + n) : WithBlocks(g, n)[b] = FreshBlock
<1> DEFINE new == [i \in 1 .. n |-> FreshBlock]
           h == WithBlocks(g, n)
<1>1. FreshBlock \in Block
  BY DEF FreshBlock, NoTerm, Block, TermKinds
<1>2. /\ new \in Seq(Block) /\ Len(new) = n
      /\ \A i \in 1 .. n : new[i] = FreshBlock
  BY <1>1
<1>3. g \in Seq(Block) /\ Len(g) \in Nat
  BY GraphFacts
<1> HIDE DEF new
<1>4. h \in Seq(Block) /\ h = g \o new /\ Len(h) = Len(g) + n
  BY <1>2, <1>3 DEF WithBlocks, new
<1>5. \A b \in Ids(g) : b \in Ids(h) /\ h[b] = g[b]
  BY <1>2, <1>3, <1>4 DEF Ids
<1>6. \A b \in (Len(g) + 1) .. (Len(g) + n) : h[b] = FreshBlock
  <2> SUFFICES ASSUME NEW b \in (Len(g) + 1) .. (Len(g) + n)
               PROVE  h[b] = FreshBlock
    OBVIOUS
  <2>1. b - Len(g) \in 1 .. n /\ h[b] = new[b - Len(g)]
    BY <1>2, <1>3, <1>4
  <2> QED
    BY <1>2, <2>1
<1> HIDE DEF h
<1>7. \A b \in Ids(h) \ Ids(g) : h[b] = FreshBlock
  BY <1>3, <1>4, <1>6 DEF Ids
<1>8. /\ \A b \in Ids(g) : Targets(h, b) = Targets(g, b) /\ Preds(h, b) = Preds(g, b)
      /\ \A b \in Ids(h) \ Ids(g) : Targets(h, b) = {} /\ Preds(h, b) = {}
  BY <1>5, <1>7 DEF Targets, Preds, FreshBlock, NoTerm
<1>9. \A a, b \in Ids(h) : b \in Targets(h, a) <=> a \in Preds(h, b)
  BY <1>8 DEF Consistent
<1>10. \A b \in Ids(h) : Targets(h, b) \subseteq Ids(h) /\ Preds(h, b) \subseteq Ids(h)
  BY <1>5, <1>8 DEF Consistent
<1>11. \A b \in Ids(h) : Once(h[b].preds) /\ (IsOpen(h, b) => h[b].term.to = <<>>)
  <2>1. Once(FreshBlock.preds) /\ FreshBlock.term.to = <<>>
    BY DEF Once, FreshBlock, NoTerm
  <2> QED
    BY <1>5, <1>7, <2>1 DEF Consistent, IsOpen
<1>12. Consistent(h)
  BY <1>4, <1>9, <1>10, <1>11 DEF Consistent
<1>13. Edits(g, h, {}, {})
  <2>1. Len(g) <= Len(h)
    BY <1>3, <1>4
  <2> QED
    BY <1>5, <1>12, <2>1 DEF Edits
<1> QED
  BY <1>4, <1>5, <1>6, <1>13 DEF h

-----------------------------------------------------------------------------
(* The functions that are lowered. *)

FrameType == [kind : BodyKinds \cup {"head", "short", "array", "switch"}, mark : Nat,
              begin : Nat, step : Nat, end : Nat, alt : Nat, tight : SUBSET Label]

TypeOK ==
  /\ Consistent(blocks)
  /\ cur \in Ids(blocks)
  /\ items \in Seq(Nat) /\ count \in 0 .. Len(items)
  /\ depthOf \in Seq(Nat)
  /\ open \in Seq(FrameType) /\ Len(open) >= 1
  /\ \A i \in DOMAIN open : open[i].mark <= Len(items)
  /\ labels \in [Label -> Nat] /\ declared \subseteq Label
  /\ phase \in {"body", "done"}

\* The blocks a frame keeps, and those of them that are still to be taken up:
\* the head of a while loop, which is also its step, has been.
Held(f)   == {f.begin, f.step, f.end, f.alt} \ {NoBlock}
Awaits(f) == {f.step, f.end, f.alt} \ {NoBlock, f.begin}

\* Which blocks a construct has, and that they are different blocks.
Shape(f) ==
  /\ f.begin # NoBlock <=> f.kind \in {"array", "head", "while", "for"}
  /\ f.step # NoBlock <=> f.kind \in {"head", "while", "for"}
  /\ f.end # NoBlock <=> f.kind \notin {"fn", "block"}
  /\ f.alt # NoBlock => f.kind \in {"then", "head", "case"}
  /\ f.kind \in {"head", "case"} => f.alt # NoBlock
  /\ f.step # NoBlock => (f.step = f.begin <=> f.kind # "for")
  /\ f.end # NoBlock => f.end \notin {f.begin, f.step, f.alt}
  /\ f.alt # NoBlock => f.alt \notin {f.begin, f.step}

\* What is lowered next has an open block to go to.
NeedsOpen == {"head", "short", "array", "switch"}

\* Inside an expression, or between the cases of a switch, no statement opens.
Nested ==
  /\ \A i \in 1 .. (Len(open) - 1) :
       /\ open[i].kind \in {"head", "short"} => open[i + 1].kind = "short"
       /\ open[i].kind = "array" => open[i + 1].kind = "array"
       /\ open[i].kind # "switch"
  /\ \A i \in DOMAIN open : open[i].kind = "short" => blocks[open[i].end].preds # <<>>
  /\ Top.kind \in NeedsOpen => Live
  /\ \A i \in DOMAIN open : open[i].kind = "fn" <=> i = 1

\* A frame's blocks are its own, take predecessors until the frame seals them,
\* and are not written to before their turn.
Owned ==
  /\ \A i \in DOMAIN open :
       /\ Shape(open[i])
       /\ \A b \in Held(open[i]) : b \in Ids(blocks) /\ ~blocks[b].sealed
       /\ \A b \in Awaits(open[i]) : IsOpen(blocks, b) /\ b # cur
  /\ \A i, j \in DOMAIN open : i # j => Held(open[i]) \cap Held(open[j]) = {}

\* So are those of labels, for as long as a goto may still name them.
LabelsOwned ==
  /\ \A l \in Label : labels[l] # NoBlock =>
       /\ labels[l] \in Ids(blocks) /\ ~blocks[labels[l]].sealed
       /\ \A i \in DOMAIN open : labels[l] \notin Held(open[i])
  /\ \A l, m \in Label : labels[l] = labels[m] /\ labels[l] # NoBlock => l = m

\* Whoever is to take up an open block, unless the function is refused anyway.
Accounted ==
  /\ errors \/ \A b \in Ids(blocks) : IsOpen(blocks, b) =>
       \/ b = cur
       \/ \E i \in DOMAIN open : b \in Awaits(open[i])
       \/ \E l \in Label : labels[l] = b /\ (l \notin declared \/ ~blocks[b].lowered)
  /\ \A l \in Label \ declared : labels[l] # NoBlock => ~blocks[labels[l]].lowered

InBodyInv == Nested /\ Owned /\ LabelsOwned /\ Accounted

IInv == /\ TypeOK
        /\ phase = "body" => InBodyInv
        /\ phase = "done" => OpenBlocksAccounted

-----------------------------------------------------------------------------
(* The lists of deferred statements, and the graph operators that use them. *)

LEMMA PendingIsList ==
  ASSUME TypeOK, NEW n \in 0 .. Len(items)
  PROVE  Pending(n) \in Seq(Nat)
  BY DEF Pending, TypeOK

LEMMA DischargeIsList ==
  ASSUME TypeOK, NEW p \in Seq(Nat), NEW m \in Nat
  PROVE  Discharge(p, SubSeq(items, m + 1, count)) \in Seq(Nat)
<1> DEFINE due == SubSeq(items, m + 1, count)
<1>1. items \in Seq(Nat) /\ count \in 0 .. Len(items) /\ Len(items) \in Nat
  BY DEF TypeOK
<1>2. due \in Seq(Nat)
  BY <1>1
<1> HIDE DEF due
<1>3. Len(due) \in Nat /\ Len(p) \in Nat
  BY <1>2
<1>4. \A n \in Int : 0 <= n /\ n <= Len(p) => SubSeq(p, 1, n) \in Seq(Nat)
  OBVIOUS
<1>5. Misrun \in Seq(Nat)
  BY DEF Misrun
<1>6. Discharge(p, due) \in Seq(Nat)
  BY <1>3, <1>4, <1>5 DEF Discharge
<1> QED
  BY <1>6 DEF due

LEMMA RunDefersEdits ==
  ASSUME TypeOK, NEW g, Consistent(g), cur \in Ids(g), NEW m \in Nat
  PROVE  Edits(g, RunDefers(g, m), {}, {}) /\ Len(RunDefers(g, m)) = Len(g)
<1> DEFINE p == Discharge(g[cur].pend, SubSeq(items, m + 1, count))
<1>1. g[cur].pend \in Seq(Nat)
  BY GraphFacts DEF Block
<1>2. p \in Seq(Nat)
  BY <1>1, DischargeIsList
<1>3. RunDefers(g, m) = [g EXCEPT ![cur].pend = p]
  BY DEF RunDefers
<1> DEFINE h == [g EXCEPT ![cur].pend = p]
<1> HIDE DEF p
<1>4. Edits(g, h, {}, {}) /\ Len(h) = Len(g)
  BY <1>2, PendEdits
<1> QED
  BY <1>3, <1>4

\* A block is taken up and becomes the current one.
LEMMA StartEdits ==
  ASSUME TypeOK, NEW g, Consistent(g), NEW b \in Ids(g), NEW n \in 0 .. Len(items),
         StartBlock(g, b, n)
  PROVE  /\ Edits(g, blocks', {}, {b})
         /\ Len(blocks') = Len(g) /\ cur' = b /\ count' = n
         /\ \A a \in Ids(g) : blocks'[a].sealed = g[a].sealed
<1>1. blocks' = TakenUp(g, b, Pending(n)) /\ cur' = b /\ count' = n
  BY DEF StartBlock, TakenUp
<1>2. Pending(n) \in Seq(Nat)
  BY PendingIsList
<1>3. /\ Edits(g, TakenUp(g, b, Pending(n)), {}, {b})
      /\ Len(TakenUp(g, b, Pending(n))) = Len(g)
      /\ \A a \in Ids(g) : TakenUp(g, b, Pending(n))[a].sealed = g[a].sealed
  BY <1>2, TakenUpEdits
<1> QED
  BY <1>1, <1>3

LEMMA DeadEdits ==
  ASSUME TypeOK, NEW g, Consistent(g), NEW n \in 0 .. Len(items), StartDeadBlock(g, n)
  PROVE  /\ Edits(g, blocks', {}, {})
         /\ Len(blocks') = Len(g) + 1 /\ cur' = Len(g) + 1 /\ count' = n
         /\ ~IsOpen(blocks', cur')
<1> DEFINE dead == Len(g) + 1
           g1 == WithBlocks(g, 1)
           g2 == Seal(g1, dead)
           g3 == Unreachable(g2, dead)
<1>1. Len(g) \in Nat
  BY GraphFacts
<1>2. /\ Edits(g, g1, {}, {}) /\ Len(g1) = Len(g) + 1 /\ g1[dead] = FreshBlock
  BY <1>1, GrowEdits
<1>3. dead \in Ids(g1) /\ dead \notin Ids(g) /\ Consistent(g1) /\ IsOpen(g1, dead)
  BY <1>1, <1>2 DEF Ids, Edits, IsOpen, FreshBlock, NoTerm
<1> HIDE DEF g1
<1>4. Edits(g1, g2, {}, {dead}) /\ Len(g2) = Len(g1)
  BY <1>3, SealEdits
<1>5. dead \in Ids(g2) /\ Consistent(g2) /\ IsOpen(g2, dead)
  <2>1. IsOpen(g2, dead)
    BY <1>3, <1>4, EditsKeep
  <2> QED
    BY <1>3, <1>4, <2>1 DEF Ids, Edits
<1> HIDE DEF g2
<1>6. Edits(g2, g3, {dead}, {}) /\ Len(g3) = Len(g2) /\ ~IsOpen(g3, dead)
  BY <1>5, LeafEdits
<1>7. dead \in Ids(g3) /\ Consistent(g3)
  BY <1>5, <1>6 DEF Ids, Edits
<1>8. StartBlock(g3, dead, n)
  BY DEF StartDeadBlock, g1, g2
<1> HIDE DEF g3, dead
<1>9. /\ Edits(g3, blocks', {}, {dead}) /\ Len(blocks') = Len(g3)
      /\ cur' = dead /\ count' = n
  BY <1>7, <1>8, StartEdits
<1>10. ~IsOpen(blocks', dead)
  BY <1>6, <1>7, <1>9, EditsKeep
<1>11. Edits(g, g2, {}, {})
  BY <1>2, <1>3, <1>4, EditsThen
<1>12. Edits(g, g3, {}, {})
  BY <1>3, <1>6, <1>11, EditsThen
<1>13. Edits(g, blocks', {}, {})
  BY <1>3, <1>9, <1>12, EditsThen
<1> QED
  BY <1>2, <1>4, <1>6, <1>9, <1>10, <1>13 DEF dead

LEMMA CloseBodyEdits ==
  ASSUME TypeOK, NEW g, Consistent(g), cur \in Ids(g), NEW to \in Ids(g), ~g[to].sealed,
         Top.mark \in Nat
  PROVE  /\ Edits(g, CloseBody(g, to), {cur}, {})
         /\ Len(CloseBody(g, to)) = Len(g)
         /\ ~IsOpen(CloseBody(g, to), cur)
<1>1. CASE IsOpen(g, cur)
  <2> DEFINE h == RunDefers(g, Top.mark)
  <2>1. Edits(g, h, {}, {}) /\ Len(h) = Len(g)
    BY RunDefersEdits
  <2>2. /\ Consistent(h) /\ cur \in Ids(h) /\ to \in Ids(h)
        /\ IsOpen(h, cur) /\ ~h[to].sealed
    BY <1>1, <2>1, EditsKeep, EditsBounds
  <2>3. CloseBody(g, to) = Br(h, cur, to)
    BY <1>1 DEF CloseBody
  <2> HIDE DEF h
  <2>4. /\ Edits(h, Br(h, cur, to), {cur}, {}) /\ Len(Br(h, cur, to)) = Len(h)
        /\ ~IsOpen(Br(h, cur, to), cur)
    BY <2>2, BrEdits
  <2>5. Edits(g, Br(h, cur, to), {cur}, {})
    BY <2>1, <2>4, EditsThen
  <2> QED
    BY <2>1, <2>3, <2>4, <2>5
<1>2. CASE ~IsOpen(g, cur)
  BY <1>2, EditsNothing DEF CloseBody
<1> QED
  BY <1>1, <1>2

\* A join: sealed, and closed if nobody branches to it.
LEMMA JoinEdits ==
  ASSUME NEW g, Consistent(g), NEW b \in Ids(g), IsOpen(g, b)
  PROVE  /\ Edits(g, CloseUnreached(Seal(g, b), b), {b}, {b})
         /\ Len(CloseUnreached(Seal(g, b), b)) = Len(g)
         /\ g[b].preds # <<>> => IsOpen(CloseUnreached(Seal(g, b), b), b)
<1> DEFINE h == Seal(g, b)
<1>1. Edits(g, h, {}, {b}) /\ Len(h) = Len(g)
  BY SealEdits
<1>2. /\ b \in Ids(h) /\ Consistent(h) /\ IsOpen(h, b)
      /\ g[b].preds # <<>> => h[b].preds # <<>>
  BY <1>1, EditsKeep, EditsBounds
<1> HIDE DEF h
<1>3. /\ Edits(h, CloseUnreached(h, b), {b}, {}) /\ Len(CloseUnreached(h, b)) = Len(h)
      /\ h[b].preds # <<>> => IsOpen(CloseUnreached(h, b), b)
  BY <1>2, CloseUnreachedEdits
<1>4. Edits(g, CloseUnreached(h, b), {b}, {b})
  BY <1>1, <1>3, EditsThen
<1> QED
  BY <1>1, <1>2, <1>3, <1>4 DEF h

-----------------------------------------------------------------------------
(* The stack of constructs. *)

Like(f, e) == /\ f.kind = e.kind /\ f.mark = e.mark /\ f.begin = e.begin
              /\ f.step = e.step /\ f.end = e.end /\ f.alt = e.alt

LEMMA OpenFacts ==
  ASSUME TypeOK
  PROVE  /\ Len(open) \in Nat \ {0} /\ DOMAIN open = 1 .. Len(open)
         /\ Len(open) \in DOMAIN open /\ Top \in FrameType /\ Top = open[Len(open)]
         /\ Top.mark \in 0 .. Len(items)
         /\ \A i \in DOMAIN open : open[i] \in FrameType
<1>1. open \in Seq(FrameType) /\ Len(open) >= 1
  BY DEF TypeOK
<1>2. /\ Len(open) \in Nat \ {0} /\ DOMAIN open = 1 .. Len(open)
      /\ \A i \in DOMAIN open : open[i] \in FrameType
  BY <1>1
<1>3. Len(open) \in DOMAIN open /\ Top = open[Len(open)]
  BY <1>2 DEF Top
<1>4. Top.mark \in Nat /\ Top.mark <= Len(items)
  BY <1>2, <1>3 DEF TypeOK, FrameType
<1>5. Len(items) \in Nat
  BY DEF TypeOK
<1> QED
  BY <1>2, <1>3, <1>4, <1>5

LEMMA SwapFacts ==
  ASSUME TypeOK, NEW f \in FrameType, NEW st, st = Swap(f)
  PROVE  /\ st \in Seq(FrameType) /\ Len(st) = Len(open) /\ DOMAIN st = DOMAIN open
         /\ st[Len(open)] = f
         /\ \A i \in DOMAIN open : i # Len(open) => st[i] = open[i]
  BY OpenFacts DEF Swap, TypeOK

LEMMA BranchedFacts ==
  ASSUME TypeOK, NEW st \in {open, Branched}
  PROVE  /\ st \in Seq(FrameType) /\ Len(st) = Len(open) /\ DOMAIN st = DOMAIN open
         /\ \A i \in DOMAIN open : Like(st[i], open[i])
<1>1. CASE st = open
  BY <1>1 DEF Like, TypeOK
<1>2. CASE st = Branched
  <2> DEFINE f == [Top EXCEPT !.tight = {}]
  <2>1. f \in FrameType /\ Like(f, Top)
    BY OpenFacts DEF FrameType, Like
  <2>2. st = Swap(f)
    BY <1>2 DEF Branched
  <2> HIDE DEF f
  <2> QED
    BY <2>1, <2>2, SwapFacts, OpenFacts DEF Like
<1> QED
  BY <1>1, <1>2

LEMMA PushFacts ==
  ASSUME TypeOK, NEW f \in FrameType, NEW st, st \in {Append(open, f), Append(Branched, f)}
  PROVE  /\ st \in Seq(FrameType) /\ Len(st) = Len(open) + 1
         /\ DOMAIN st = 1 .. (Len(open) + 1)
         /\ st[Len(open) + 1] = f
         /\ \A i \in DOMAIN open : Like(st[i], open[i])
<1>1. PICK under \in {open, Branched} : st = Append(under, f)
  OBVIOUS
<1>2. /\ under \in Seq(FrameType) /\ Len(under) = Len(open)
      /\ \A i \in DOMAIN open : Like(under[i], open[i])
  BY BranchedFacts
<1>3. /\ st \in Seq(FrameType) /\ Len(st) = Len(open) + 1
      /\ DOMAIN st = 1 .. (Len(open) + 1) /\ st[Len(open) + 1] = f
      /\ \A i \in 1 .. Len(open) : st[i] = under[i]
  BY <1>1, <1>2
<1> QED
  BY <1>2, <1>3, OpenFacts

LEMMA PopFacts ==
  ASSUME TypeOK, Len(open) >= 2
  PROVE  /\ Pop \in Seq(FrameType) /\ Len(Pop) = Len(open) - 1
         /\ DOMAIN Pop = 1 .. (Len(open) - 1)
         /\ \A i \in 1 .. (Len(open) - 1) : Pop[i] = open[i]
<1> DEFINE m == Len(open) - 1
<1>1. open \in Seq(FrameType) /\ m \in Nat /\ m >= 1 /\ m < Len(open)
  BY OpenFacts DEF TypeOK
<1>2. Pop = SubSeq(open, 1, m)
  BY DEF Pop
<1> HIDE DEF m
<1>3. /\ Pop \in Seq(FrameType) /\ Len(Pop) = m /\ DOMAIN Pop = 1 .. m
      /\ \A i \in 1 .. m : Pop[i] = open[i]
  BY <1>1, <1>2
<1> QED
  BY <1>3 DEF m

LEMMA FieldsSame ==
  ASSUME NEW f, NEW e, Like(f, e)
  PROVE  /\ Held(f) = Held(e) /\ Awaits(f) = Awaits(e)
         /\ Shape(e) => Shape(f)
  BY DEF Like, Held, Awaits, Shape

-----------------------------------------------------------------------------
(* The effect of a step on the graph: C has been closed, but for what is   *)
(* current now, S sealed or taken up, and new are the blocks created that  *)
(* are kept for later.                                                     *)

Effect(C, S, new) ==
  /\ Edits(blocks, blocks', C, S)
  /\ cur' \in Ids(blocks')
  /\ \A b \in C : b = cur' \/ ~IsOpen(blocks', b)
  /\ new \subseteq Ids(blocks') \ Ids(blocks)
  /\ \A b \in new : ~blocks'[b].sealed
  /\ \A b \in Ids(blocks') \ Ids(blocks) : IsOpen(blocks', b) => b = cur' \/ b \in new

\* At most frame t of the stack is another than before.
Others(t, C, S) ==
  \A i \in DOMAIN open' : i # t =>
    /\ i \in DOMAIN open /\ Like(open'[i], open[i])
    /\ Held(open[i]) \cap S = {} /\ Awaits(open[i]) \cap C = {}
    /\ cur' \notin Awaits(open[i])

LEMMA OwnedStep ==
  ASSUME Owned, NEW C, NEW S, NEW new, NEW t, Effect(C, S, new), Others(t, C, S),
         t \in DOMAIN open' =>
           /\ Shape(open'[t])
           /\ Held(open'[t]) \subseteq
                new \cup (IF t \in DOMAIN open THEN Held(open[t]) \ S ELSE {})
           /\ \A b \in Awaits(open'[t]) : IsOpen(blocks', b) /\ b # cur'
  PROVE  Owned'
<1>1. Edits(blocks, blocks', C, S) /\ Ids(blocks) \subseteq Ids(blocks')
  BY EditsBounds DEF Effect
<1>2. \A i \in DOMAIN open : \A b \in Held(open[i]) :
        /\ b \in Ids(blocks) /\ b \in Ids(blocks')
        /\ b \notin S => ~blocks'[b].sealed
  BY <1>1, EditsKeep DEF Owned
<1>3. \A i \in DOMAIN open : Awaits(open[i]) \subseteq Held(open[i])
  BY DEF Awaits, Held
<1>4. ASSUME NEW i \in DOMAIN open', i # t
      PROVE  /\ i \in DOMAIN open /\ Held(open'[i]) = Held(open[i])
             /\ Shape(open'[i])
             /\ \A b \in Held(open'[i]) : b \in Ids(blocks') /\ ~blocks'[b].sealed
             /\ \A b \in Awaits(open'[i]) : IsOpen(blocks', b) /\ b # cur'
  <2>1. /\ i \in DOMAIN open /\ Like(open'[i], open[i])
        /\ Held(open[i]) \cap S = {} /\ Awaits(open[i]) \cap C = {}
        /\ cur' \notin Awaits(open[i])
    BY <1>4 DEF Others
  <2>2. /\ Held(open'[i]) = Held(open[i]) /\ Awaits(open'[i]) = Awaits(open[i])
        /\ Shape(open'[i])
    BY <2>1, FieldsSame DEF Owned
  <2>3. \A b \in Awaits(open[i]) : IsOpen(blocks', b)
    <3>1. \A b \in Awaits(open[i]) : b \in Ids(blocks) /\ IsOpen(blocks, b) /\ b \notin C
      BY <1>2, <1>3, <2>1 DEF Owned
    <3> QED
      BY <1>1, <3>1, EditsKeep
  <2> QED
    BY <1>2, <2>1, <2>2, <2>3
<1>5. t \in DOMAIN open' =>
        \A b \in Held(open'[t]) : b \in Ids(blocks') /\ ~blocks'[b].sealed
  BY <1>2 DEF Effect
<1>6. ASSUME NEW i \in DOMAIN open', NEW j \in DOMAIN open', i # j
      PROVE  Held(open'[i]) \cap Held(open'[j]) = {}
  <2>1. \A k \in DOMAIN open : Held(open[k]) \cap new = {}
    BY <1>2 DEF Effect
  <2>2. CASE i # t /\ j # t
    BY <1>4, <1>6, <2>2 DEF Owned
  <2>3. CASE i = t \/ j = t
    BY <1>4, <1>6, <2>1, <2>3 DEF Owned
  <2> QED
    BY <2>2, <2>3
<1> QED
  BY <1>4, <1>5, <1>6 DEF Owned

\* A label keeps its block, or is given one of no frame's.
LEMMA LabelsStep ==
  ASSUME LabelsOwned, NEW C, NEW S, NEW new, NEW t, Effect(C, S, new), Others(t, C, S),
         t \in DOMAIN open' =>
           Held(open'[t]) \subseteq
                new \cup (IF t \in DOMAIN open THEN Held(open[t]) \ S ELSE {}),
         \A l \in Label : labels'[l] # NoBlock =>
           \/ labels'[l] = labels[l] /\ labels[l] \notin S
           \/ /\ labels'[l] \in Ids(blocks') /\ ~blocks'[labels'[l]].sealed
              /\ \A i \in DOMAIN open' : labels'[l] \notin Held(open'[i]),
         \A l, m \in Label : labels'[l] = labels'[m] /\ labels'[l] # NoBlock => l = m
  PROVE  LabelsOwned'
<1>1. Edits(blocks, blocks', C, S) /\ new \cap Ids(blocks) = {}
  BY DEF Effect
<1> SUFFICES ASSUME NEW l \in Label, labels'[l] # NoBlock, labels'[l] = labels[l],
                    labels[l] \notin S
             PROVE  /\ labels[l] \in Ids(blocks') /\ ~blocks'[labels[l]].sealed
                    /\ \A i \in DOMAIN open' : labels[l] \notin Held(open'[i])
  BY DEF LabelsOwned
<1>2. /\ labels[l] \in Ids(blocks) /\ ~blocks[labels[l]].sealed
      /\ \A i \in DOMAIN open : labels[l] \notin Held(open[i])
  BY DEF LabelsOwned
<1>3. labels[l] \in Ids(blocks') /\ ~blocks'[labels[l]].sealed
  BY <1>1, <1>2, EditsKeep
<1>4. \A i \in DOMAIN open' : i # t => labels[l] \notin Held(open'[i])
  BY <1>2, FieldsSame DEF Others
<1>5. t \in DOMAIN open' => labels[l] \notin Held(open'[t])
  BY <1>1, <1>2
<1> QED
  BY <1>3, <1>4, <1>5

\* Whoever awaited a block still does, unless the block is closed or current.
LEMMA AccountedStep ==
  ASSUME Accounted, LabelsOwned, NEW C, NEW S, NEW new, Effect(C, S, new),
         cur' = cur \/ cur \in C, errors => errors',
         labels' = labels, declared' = declared,
         \A l \in Label : labels[l] \notin S,
         \A i \in DOMAIN open : \A b \in Awaits(open[i]) :
           b \in C \/ b = cur' \/ \E j \in DOMAIN open' : b \in Awaits(open'[j]),
         \A b \in new : IsOpen(blocks', b) =>
           b = cur' \/ \E j \in DOMAIN open' : b \in Awaits(open'[j])
  PROVE  Accounted'
<1>1. Edits(blocks, blocks', C, S)
  BY DEF Effect
<1>2. \A l \in Label : labels[l] # NoBlock =>
        labels[l] \in Ids(blocks) /\ blocks'[labels[l]].lowered = blocks[labels[l]].lowered
  BY <1>1, EditsKeep DEF LabelsOwned
<1>3. \A l \in Label \ declared : labels[l] # NoBlock => ~blocks'[labels[l]].lowered
  BY <1>2 DEF Accounted
<1>4. ASSUME ~errors', NEW b \in Ids(blocks'), IsOpen(blocks', b)
      PROVE  \/ b = cur'
             \/ \E i \in DOMAIN open' : b \in Awaits(open'[i])
             \/ \E l \in Label : labels[l] = b /\ (l \notin declared \/ ~blocks'[b].lowered)
  <2>1. CASE b \notin Ids(blocks)
    BY <1>4, <2>1 DEF Effect
  <2>2. CASE b \in Ids(blocks) /\ b \notin C
    <3>1. IsOpen(blocks, b)
      BY <1>1, <1>4, <2>2, EditsKeep
    <3>2. \/ b = cur
          \/ \E i \in DOMAIN open : b \in Awaits(open[i])
          \/ \E l \in Label : labels[l] = b /\ (l \notin declared \/ ~blocks[b].lowered)
      BY <1>4, <2>2, <3>1 DEF Accounted
    <3>3. 0 \notin Ids(blocks)
      BY DEF Ids
    <3> QED
      BY <1>2, <2>2, <3>2, <3>3 DEF NoBlock
  <2>3. CASE b \in C
    BY <1>4, <2>3 DEF Effect
  <2> QED
    BY <2>1, <2>2, <2>3
<1> QED
  BY <1>3, <1>4 DEF Accounted

-----------------------------------------------------------------------------
(* A step builds its graph from g0, the graph with the new blocks in it.   *)
(* Made says what has been done so far: C closed, S sealed, T taken up.    *)

Made(g0, g, C, S, T) ==
  /\ Edits(g0, g, C, S \cup T) /\ Len(g) = Len(g0)
  /\ \A b \in C : ~IsOpen(g, b)
  /\ \A b \in Ids(g0) : b \notin S /\ ~g0[b].sealed => ~g[b].sealed

\* The graph the step ends with: the current block may have been left open.
Finished(g0, C, S, T) ==
  /\ Edits(g0, blocks', C, S \cup T) /\ Len(blocks') = Len(g0)
  /\ \A b \in C : b = cur' \/ ~IsOpen(blocks', b)
  /\ \A b \in Ids(g0) : b \notin S /\ ~g0[b].sealed => ~blocks'[b].sealed
  /\ cur' \in Ids(g0)

LEMMA MadeFacts ==
  ASSUME NEW g0, NEW g, NEW C, NEW S, NEW T, Made(g0, g, C, S, T)
  PROVE  /\ Consistent(g0) /\ Consistent(g) /\ Ids(g) = Ids(g0)
         /\ \A b \in Ids(g0) :
              /\ IsOpen(g0, b) /\ b \notin C => IsOpen(g, b)
              /\ ~IsOpen(g0, b) => ~IsOpen(g, b)
              /\ ~g0[b].sealed /\ b \notin S => ~g[b].sealed
<1>1. Edits(g0, g, C, S \cup T) /\ Ids(g) = Ids(g0)
  BY DEF Made, Ids
<1> QED
  BY <1>1, EditsKeep, EditsBounds DEF Made

LEMMA MadeNothing ==
  ASSUME NEW g, Consistent(g)
  PROVE  Made(g, g, {}, {}, {})
  BY EditsNothing DEF Made

LEMMA MadeMore ==
  ASSUME NEW g0, NEW g, NEW C, NEW S, NEW T, Made(g0, g, C, S, T),
         NEW h, NEW D, NEW R, NEW Q, NEW U, Edits(g, h, D, U), U = R \cup Q, Len(h) = Len(g),
         \A b \in D : ~IsOpen(h, b),
         \A b \in Ids(g) : b \notin R /\ ~g[b].sealed => ~h[b].sealed,
         C \subseteq Ids(g0)
  PROVE  Made(g0, h, C \cup D, S \cup R, T \cup Q)
<1>1. Edits(g0, g, C, S \cup T) /\ Ids(g) = Ids(g0)
  BY DEF Made, Ids
<1>2. Edits(g0, h, C \cup D, (S \cup R) \cup (T \cup Q))
  BY <1>1, EditsThen
<1>3. \A b \in C : ~IsOpen(h, b)
  BY <1>1, EditsKeep DEF Made
<1> QED
  BY <1>1, <1>2, <1>3 DEF Made

LEMMA MadeBr ==
  ASSUME NEW g0, NEW g, NEW C, NEW S, NEW T, Made(g0, g, C, S, T), C \subseteq Ids(g0),
         NEW from \in Ids(g0), IsOpen(g0, from), from \notin C,
         NEW to \in Ids(g0), ~g0[to].sealed, to \notin S,
         NEW D, D = C \cup {from}
  PROVE  Made(g0, Br(g, from, to), D, S, T) /\ D \subseteq Ids(g0)
<1> DEFINE h == Br(g, from, to)
<1>1. /\ Edits(g, h, {from}, {}) /\ Len(h) = Len(g) /\ ~IsOpen(h, from)
  BY MadeFacts, BrEdits
<1>2. \A b \in Ids(g) : ~g[b].sealed => ~h[b].sealed
  BY <1>1, EditsKeep
<1> HIDE DEF h
<1>3. Made(g0, h, C \cup {from}, S \cup {}, T \cup {})
  BY <1>1, <1>2, MadeMore
<1>4. S \cup {} = S /\ T \cup {} = T
  OBVIOUS
<1> QED
  BY <1>3, <1>4 DEF h

LEMMA MadeCondBr ==
  ASSUME NEW g0, NEW g, NEW C, NEW S, NEW T, Made(g0, g, C, S, T), C \subseteq Ids(g0),
         NEW from \in Ids(g0), IsOpen(g0, from), from \notin C,
         NEW t \in Ids(g0), NEW f \in Ids(g0), t # f,
         ~g0[t].sealed, t \notin S, ~g0[f].sealed, f \notin S,
         NEW D, D = C \cup {from}
  PROVE  Made(g0, CondBr(g, from, t, f), D, S, T) /\ D \subseteq Ids(g0)
<1> DEFINE h == CondBr(g, from, t, f)
<1>1. /\ Edits(g, h, {from}, {}) /\ Len(h) = Len(g) /\ ~IsOpen(h, from)
  BY MadeFacts, CondBrEdits
<1>2. \A b \in Ids(g) : ~g[b].sealed => ~h[b].sealed
  BY <1>1, EditsKeep
<1> HIDE DEF h
<1>3. Made(g0, h, C \cup {from}, S \cup {}, T \cup {})
  BY <1>1, <1>2, MadeMore
<1>4. S \cup {} = S /\ T \cup {} = T
  OBVIOUS
<1> QED
  BY <1>3, <1>4 DEF h

LEMMA MadeLeaf ==
  ASSUME NEW g0, NEW g, NEW C, NEW S, NEW T, Made(g0, g, C, S, T), C \subseteq Ids(g0),
         NEW b \in Ids(g0), IsOpen(g0, b), b \notin C,
         NEW h, h \in {Ret(g, b), Unreachable(g, b)},
         NEW D, D = C \cup {b}
  PROVE  Made(g0, h, D, S, T) /\ D \subseteq Ids(g0)
<1>1. Edits(g, h, {b}, {}) /\ Len(h) = Len(g) /\ ~IsOpen(h, b)
  BY MadeFacts, LeafEdits
<1>2. \A a \in Ids(g) : ~g[a].sealed => ~h[a].sealed
  BY <1>1, EditsKeep
<1>3. Made(g0, h, C \cup {b}, S \cup {}, T \cup {})
  BY <1>1, <1>2, MadeMore
<1>4. S \cup {} = S /\ T \cup {} = T
  OBVIOUS
<1> QED
  BY <1>3, <1>4

LEMMA MadeSeal ==
  ASSUME NEW g0, NEW g, NEW C, NEW S, NEW T, Made(g0, g, C, S, T), C \subseteq Ids(g0),
         NEW b \in Ids(g0), NEW R, R = S \cup {b}
  PROVE  Made(g0, Seal(g, b), C, R, T)
<1> DEFINE h == Seal(g, b)
<1>1. Edits(g, h, {}, {b}) /\ Len(h) = Len(g)
  BY MadeFacts, SealEdits
<1>2. \A a \in Ids(g) : a \notin {b} /\ ~g[a].sealed => ~h[a].sealed
  BY <1>1, EditsKeep
<1> HIDE DEF h
<1>3. Made(g0, h, C \cup {}, S \cup {b}, T \cup {})
  BY <1>1, <1>2, MadeMore
<1>4. C \cup {} = C /\ T \cup {} = T
  OBVIOUS
<1> QED
  BY <1>3, <1>4 DEF h

LEMMA MadeSealAll ==
  ASSUME NEW g0, NEW g, NEW C, NEW S, NEW T, Made(g0, g, C, S, T), C \subseteq Ids(g0),
         NEW bs, NEW R, R = S \cup bs
  PROVE  Made(g0, SealAll(g, bs), C, R, T)
<1> DEFINE h == SealAll(g, bs)
<1>1. Edits(g, h, {}, bs) /\ Len(h) = Len(g)
  BY MadeFacts, SealAllEdits
<1>2. \A a \in Ids(g) : a \notin bs /\ ~g[a].sealed => ~h[a].sealed
  BY <1>1, EditsKeep
<1> HIDE DEF h
<1>3. Made(g0, h, C \cup {}, S \cup bs, T \cup {})
  BY <1>1, <1>2, MadeMore
<1>4. C \cup {} = C /\ T \cup {} = T
  OBVIOUS
<1> QED
  BY <1>3, <1>4 DEF h

LEMMA MadeRun ==
  ASSUME TypeOK, NEW g0, NEW g, NEW C, NEW S, NEW T, Made(g0, g, C, S, T),
         C \subseteq Ids(g0), cur \in Ids(g0), NEW m \in Nat
  PROVE  Made(g0, RunDefers(g, m), C, S, T)
<1> DEFINE h == RunDefers(g, m)
<1>1. Edits(g, h, {}, {}) /\ Len(h) = Len(g)
  BY MadeFacts, RunDefersEdits
<1>2. \A a \in Ids(g) : ~g[a].sealed => ~h[a].sealed
  BY <1>1, EditsKeep
<1> HIDE DEF h
<1>3. Made(g0, h, C \cup {}, S \cup {}, T \cup {})
  BY <1>1, <1>2, MadeMore
<1>4. C \cup {} = C /\ S \cup {} = S /\ T \cup {} = T
  OBVIOUS
<1> QED
  BY <1>3, <1>4 DEF h

LEMMA MadeClose ==
  ASSUME TypeOK, NEW g0, NEW g, NEW C, NEW S, NEW T, Made(g0, g, C, S, T),
         C \subseteq Ids(g0), cur \in Ids(g0), NEW to \in Ids(g0),
         ~g0[to].sealed, to \notin S, NEW D, D = C \cup {cur}
  PROVE  Made(g0, CloseBody(g, to), D, S, T) /\ D \subseteq Ids(g0)
<1> DEFINE h == CloseBody(g, to)
<1>1. Top.mark \in Nat
  BY OpenFacts
<1>2. Edits(g, h, {cur}, {}) /\ Len(h) = Len(g) /\ ~IsOpen(h, cur)
  BY <1>1, MadeFacts, CloseBodyEdits
<1>3. \A b \in Ids(g) : ~g[b].sealed => ~h[b].sealed
  BY <1>2, EditsKeep
<1> HIDE DEF h
<1>4. Made(g0, h, C \cup {cur}, S \cup {}, T \cup {})
  BY <1>2, <1>3, MadeMore
<1>5. S \cup {} = S /\ T \cup {} = T
  OBVIOUS
<1> QED
  BY <1>4, <1>5 DEF h

LEMMA MadeTaken ==
  ASSUME TypeOK, NEW g0, NEW g, NEW C, NEW S, NEW T, Made(g0, g, C, S, T),
         C \subseteq Ids(g0), NEW b \in Ids(g0), NEW n \in 0 .. Len(items),
         NEW Q, Q = T \cup {b}
  PROVE  Made(g0, TakenUp(g, b, Pending(n)), C, S, Q)
<1> DEFINE h == TakenUp(g, b, Pending(n))
<1>1. /\ Edits(g, h, {}, {b}) /\ Len(h) = Len(g)
      /\ \A a \in Ids(g) : h[a].sealed = g[a].sealed
  <2>1. Consistent(g) /\ b \in Ids(g) /\ Pending(n) \in Seq(Nat)
    BY MadeFacts, PendingIsList
  <2> QED
    BY <2>1, TakenUpEdits
<1> HIDE DEF h
<1>2. Made(g0, h, C \cup {}, S \cup {}, T \cup {b})
  BY <1>1, MadeMore
<1>3. C \cup {} = C /\ S \cup {} = S
  OBVIOUS
<1> QED
  BY <1>2, <1>3 DEF h

LEMMA MadeStart ==
  ASSUME TypeOK, NEW g0, NEW g, NEW C, NEW S, NEW T, Made(g0, g, C, S, T),
         C \subseteq Ids(g0), NEW b \in Ids(g0), NEW n \in 0 .. Len(items),
         StartBlock(g, b, n), NEW Q, Q = T \cup {b}
  PROVE  /\ Finished(g0, C, S, Q) /\ cur' = b /\ count' = n
         /\ b \notin C /\ IsOpen(g0, b) => Live'
<1>1. Made(g0, TakenUp(g, b, Pending(n)), C, S, Q)
  BY MadeTaken
<1>2. blocks' = TakenUp(g, b, Pending(n)) /\ cur' = b /\ count' = n
  BY DEF StartBlock, TakenUp
<1>3. Made(g0, blocks', C, S, Q)
  BY <1>1, <1>2
<1>4. b \notin C /\ IsOpen(g0, b) => Live'
  BY <1>2, <1>3, MadeFacts DEF Live
<1> QED
  BY <1>2, <1>3, <1>4 DEF Made, Finished

LEMMA MadeJoin ==
  ASSUME TypeOK, NEW g0, NEW g, NEW C, NEW S, NEW T, Made(g0, g, C, S, T),
         C \subseteq Ids(g0), NEW b \in Ids(g0), IsOpen(g0, b), b \notin C,
         NEW n \in 0 .. Len(items),
         StartBlock(CloseUnreached(Seal(g, b), b), b, n),
         NEW D, D = C \cup {b}, NEW R, R = S \cup {b}, NEW Q, Q = T \cup {b}
  PROVE  /\ Finished(g0, D, R, Q) /\ cur' = b /\ count' = n
         /\ g0[b].preds # <<>> => Live'
<1> DEFINE h == CloseUnreached(Seal(g, b), b)
<1>1. Consistent(g) /\ Ids(g) = Ids(g0) /\ IsOpen(g, b)
  BY MadeFacts
<1>2. /\ Edits(g, h, {b}, {b}) /\ Len(h) = Len(g)
      /\ g[b].preds # <<>> => IsOpen(h, b)
  BY <1>1, JoinEdits
<1> HIDE DEF h
<1>3. /\ Edits(g, h, {b}, {b}) /\ Consistent(h) /\ Ids(h) = Ids(g0)
  BY <1>1, <1>2, EditsBounds DEF Ids
<1>4. StartBlock(h, b, n)
  BY DEF h
<1>5. /\ Edits(h, blocks', {}, {b}) /\ Len(blocks') = Len(h) /\ cur' = b /\ count' = n
      /\ \A a \in Ids(h) : blocks'[a].sealed = h[a].sealed
  BY <1>3, <1>4, StartEdits
<1>6. Edits(g0, g, C, S \cup T) /\ Len(g) = Len(g0) /\ \A a \in C : ~IsOpen(g, a)
  BY DEF Made
<1>7. Edits(g0, h, D, R \cup Q)
  BY <1>2, <1>6, EditsThen
<1>8. Edits(g0, blocks', D, R \cup Q)
  BY <1>5, <1>7, EditsThen
<1>9. \A a \in D : a = cur' \/ ~IsOpen(blocks', a)
  BY <1>1, <1>2, <1>3, <1>5, <1>6, EditsKeep
<1>10. \A a \in Ids(g0) : a \notin R /\ ~g0[a].sealed => ~blocks'[a].sealed
  <2>1. \A a \in Ids(g0) : a \notin R /\ ~g0[a].sealed => ~g[a].sealed
    BY DEF Made
  <2>2. \A a \in Ids(g0) : a \notin R /\ ~g[a].sealed => ~h[a].sealed
    BY <1>1, <1>2, EditsKeep
  <2> QED
    BY <1>3, <1>5, <2>1, <2>2
<1>11. g0[b].preds # <<>> => Live'
  BY <1>2, <1>3, <1>5, <1>6, EditsKeep DEF Live
<1> QED
  BY <1>2, <1>5, <1>6, <1>8, <1>9, <1>10, <1>11 DEF Finished

-----------------------------------------------------------------------------
(* From the graph a step ends with to the effect of the step. *)

\* The blocks of a graph that a step starts from, and those it has added.
LEMMA Grown ==
  ASSUME TypeOK, NEW n \in Nat, NEW g0, g0 = WithBlocks(blocks, n)
  PROVE  /\ Consistent(g0) /\ Ids(g0) = 1 .. (Len(blocks) + n)
         /\ Len(blocks) \in Nat /\ Ids(blocks) \subseteq Ids(g0)
         /\ \A b \in Ids(blocks) : b <= Len(blocks) /\ g0[b] = blocks[b]
         /\ \A b \in Ids(g0) \ Ids(blocks) :
              b > Len(blocks) /\ IsOpen(g0, b) /\ ~g0[b].sealed /\ ~g0[b].lowered
         /\ \A i \in 1 .. n : Len(blocks) + i \in Ids(g0) \ Ids(blocks)
<1>1. Consistent(blocks)
  BY DEF TypeOK
<1>2. /\ Len(blocks) \in Nat /\ Edits(blocks, g0, {}, {}) /\ Len(g0) = Len(blocks) + n
      /\ \A b \in Ids(blocks) : g0[b] = blocks[b]
      /\ \A b \in (Len(blocks) + 1) .. (Len(blocks) + n) : g0[b] = FreshBlock
  BY <1>1, GraphFacts, GrowEdits
<1>3. Consistent(g0) /\ Ids(blocks) \subseteq Ids(g0)
  BY <1>2, EditsBounds
<1>4. FreshBlock.term.kind = "none" /\ ~FreshBlock.sealed /\ ~FreshBlock.lowered
  BY DEF FreshBlock, NoTerm
<1>5. \A b \in Ids(g0) \ Ids(blocks) :
        b > Len(blocks) /\ b \in (Len(blocks) + 1) .. (Len(blocks) + n)
  BY <1>2 DEF Ids
<1>6. \A b \in Ids(g0) \ Ids(blocks) : IsOpen(g0, b) /\ ~g0[b].sealed /\ ~g0[b].lowered
  BY <1>2, <1>4, <1>5 DEF IsOpen
<1>7. \A i \in 1 .. n : Len(blocks) + i \in Ids(g0) \ Ids(blocks)
  BY <1>2 DEF Ids
<1>8. Ids(g0) = 1 .. (Len(blocks) + n) /\ \A b \in Ids(blocks) : b <= Len(blocks)
  BY <1>2 DEF Ids
<1> QED
  BY <1>2, <1>3, <1>5, <1>6, <1>7, <1>8

LEMMA GrowNothing ==
  ASSUME TypeOK
  PROVE  WithBlocks(blocks, 0) = blocks
<1> DEFINE h == WithBlocks(blocks, 0)
<1>1. Consistent(blocks) /\ blocks \in Seq(Block) /\ Len(blocks) \in Nat
  BY GraphFacts DEF TypeOK
<1>2. Edits(blocks, h, {}, {}) /\ Len(h) = Len(blocks) + 0
      /\ \A b \in Ids(blocks) : h[b] = blocks[b]
  BY <1>1, GrowEdits
<1>3. h \in Seq(Block)
  BY <1>2, EditsBounds, GraphFacts
<1> HIDE DEF h
<1>4. Len(h) = Len(blocks) /\ \A i \in 1 .. Len(blocks) : h[i] = blocks[i]
  BY <1>1, <1>2 DEF Ids
<1>5. h = blocks
  BY <1>1, <1>3, <1>4
<1> QED
  BY <1>5 DEF h

LEMMA FinishedEffect ==
  ASSUME TypeOK, NEW n \in Nat, NEW g0, g0 = WithBlocks(blocks, n),
         NEW C, NEW S, NEW T, Finished(g0, C, S, T),
         NEW new, new \subseteq Ids(g0) \ Ids(blocks), new \cap S = {},
         \A b \in Ids(g0) \ Ids(blocks) : b \in new \/ b \in C \/ b = cur',
         NEW D, D = C \cap Ids(blocks), NEW R, (S \cup T) \cap Ids(blocks) \subseteq R
  PROVE  Effect(D, R, new) /\ Ids(blocks') = Ids(g0) /\ Consistent(blocks')
<1>1. /\ Edits(blocks, g0, {}, {}) /\ Ids(blocks) \subseteq Ids(g0)
      /\ \A b \in Ids(g0) \ Ids(blocks) : ~g0[b].sealed
  BY Grown, GrowEdits DEF TypeOK
<1>2. /\ Edits(g0, blocks', C, S \cup T) /\ Ids(blocks') = Ids(g0) /\ cur' \in Ids(g0)
      /\ \A b \in C : b = cur' \/ ~IsOpen(blocks', b)
      /\ \A b \in Ids(g0) : b \notin S /\ ~g0[b].sealed => ~blocks'[b].sealed
  BY DEF Finished, Ids
<1>3. Edits(blocks, blocks', D, R)
  BY <1>1, <1>2, EditsThen
<1>4. Consistent(blocks')
  BY <1>2, EditsBounds
<1>5. \A b \in new : ~blocks'[b].sealed
  BY <1>1, <1>2
<1>6. \A b \in Ids(blocks') \ Ids(blocks) : IsOpen(blocks', b) => b = cur' \/ b \in new
  BY <1>2
<1> QED
  BY <1>2, <1>3, <1>4, <1>5, <1>6 DEF Effect

\* Control has left for good: what follows goes to a block of its own.
Died(C, S, new, m) ==
  /\ Effect(C, S, new) /\ Consistent(blocks') /\ count' = m
  /\ cur' \notin Ids(blocks) /\ cur' \notin new /\ ~IsOpen(blocks', cur')
  /\ \A b \in new : IsOpen(blocks', b) /\ ~blocks'[b].lowered

LEMMA DeadEffect ==
  ASSUME TypeOK, NEW n \in Nat, NEW g0, g0 = WithBlocks(blocks, n),
         NEW g, NEW C, NEW S, NEW T, Made(g0, g, C, S, T),
         C \subseteq Ids(blocks), S \cup T \subseteq Ids(blocks),
         NEW m \in 0 .. Len(items), StartDeadBlock(g, m),
         NEW new, new = Ids(g0) \ Ids(blocks)
  PROVE  Died(C, S \cup T, new, m)
<1>1. /\ Edits(blocks, g0, {}, {}) /\ Ids(blocks) \subseteq Ids(g0)
      /\ \A b \in Ids(g0) \ Ids(blocks) : IsOpen(g0, b) /\ ~g0[b].sealed /\ ~g0[b].lowered
  BY Grown, GrowEdits DEF TypeOK
<1>2. /\ Consistent(g) /\ Ids(g) = Ids(g0) /\ Edits(g0, g, C, S \cup T) /\ Len(g) \in Nat
      /\ \A b \in new : IsOpen(g, b) /\ ~g[b].sealed /\ ~g[b].lowered
      /\ \A b \in C : ~IsOpen(g, b)
  <2>1. /\ Consistent(g) /\ Ids(g) = Ids(g0) /\ Edits(g0, g, C, S \cup T)
        /\ \A b \in C : ~IsOpen(g, b)
    BY MadeFacts DEF Made
  <2>2. \A b \in new : IsOpen(g, b) /\ ~g[b].sealed /\ ~g[b].lowered
    BY <1>1, <2>1, EditsKeep
  <2> QED
    BY <2>1, <2>2, GraphFacts
<1>3. /\ Edits(g, blocks', {}, {}) /\ Len(blocks') = Len(g) + 1
      /\ cur' = Len(g) + 1 /\ count' = m /\ ~IsOpen(blocks', cur')
  BY <1>2, DeadEdits
<1>4. /\ cur' \in Ids(blocks') /\ cur' \notin Ids(g0)
      /\ \A b \in Ids(blocks') : b \in Ids(g0) \/ b = cur'
  BY <1>2, <1>3 DEF Ids
<1>5. Edits(blocks, g, C, S \cup T)
  BY <1>1, <1>2, EditsThen
<1>6. Edits(blocks, blocks', C, S \cup T)
  BY <1>3, <1>5, EditsThen
<1>7. \A b \in C : ~IsOpen(blocks', b)
  BY <1>1, <1>2, <1>3, EditsKeep
<1>8. \A b \in new : /\ b \in Ids(blocks') /\ ~blocks'[b].sealed /\ IsOpen(blocks', b)
                     /\ ~blocks'[b].lowered
  BY <1>2, <1>3, EditsKeep
<1>9. \A b \in Ids(blocks') \ Ids(blocks) : b = cur' \/ b \in new
  BY <1>4
<1>10. Effect(C, S \cup T, new)
  BY <1>4, <1>6, <1>7, <1>8, <1>9 DEF Effect
<1> QED
  BY <1>1, <1>3, <1>4, <1>8, <1>10, EditsBounds DEF Effect, Died

-----------------------------------------------------------------------------
(* The four kinds of step. *)

\* What no step does to a block that is there.
Kept == \A b \in DOMAIN blocks :
          /\ b \in DOMAIN blocks'
          /\ blocks[b].preds # <<>> => blocks'[b].preds # <<>>
          /\ blocks[b].sealed => blocks'[b].sealed /\ blocks'[b].preds = blocks[b].preds
          /\ ~IsOpen(blocks, b) => blocks'[b].term = blocks[b].term

LEMMA EditsKept ==
  ASSUME NEW C, NEW S, Edits(blocks, blocks', C, S)
  PROVE  Kept
<1>1. /\ Consistent(blocks) /\ Consistent(blocks')
      /\ Ids(blocks) \subseteq Ids(blocks')
  BY EditsBounds
<1>2. DOMAIN blocks = Ids(blocks) /\ DOMAIN blocks' = Ids(blocks')
  BY <1>1, GraphFacts
<1> QED
  BY <1>1, <1>2 DEF Kept, Edits

LEMMA EffectKeeps ==
  ASSUME NEW C, NEW S, NEW new, Effect(C, S, new)
  PROVE  Kept
  BY EditsKept DEF Effect

LEMMA TypeStep ==
  ASSUME TypeOK, StmtFrame, NEW C, NEW S, NEW new, Effect(C, S, new),
         count' \in 0 .. Len(items), open' \in Seq(FrameType), Len(open') >= 1,
         \A i \in DOMAIN open' : open'[i].mark <= Len(items)
  PROVE  TypeOK'
<1>1. Consistent(blocks') /\ cur' \in Ids(blocks')
  BY EditsBounds DEF Effect
<1> QED
  BY <1>1 DEF TypeOK, StmtFrame

\* What every step comes to that leaves labels and deferred statements alone.
LEMMA StepKeepsInv ==
  ASSUME IInv, phase = "body", StmtFrame, NEW C, NEW S, NEW new, NEW t,
         Effect(C, S, new), Others(t, C, S), count' \in 0 .. Len(items),
         open' \in Seq(FrameType), Len(open') >= 1,
         \A i \in DOMAIN open' : open'[i].mark <= Len(items),
         t \in DOMAIN open' =>
           /\ Shape(open'[t])
           /\ Held(open'[t]) \subseteq
                new \cup (IF t \in DOMAIN open THEN Held(open[t]) \ S ELSE {})
           /\ \A b \in Awaits(open'[t]) : IsOpen(blocks', b) /\ b # cur',
         S \subseteq Held(Top), cur' = cur \/ cur \in C,
         \A i \in DOMAIN open : \A b \in Awaits(open[i]) :
           b \in C \/ b = cur' \/ \E j \in DOMAIN open' : b \in Awaits(open'[j]),
         \A b \in new : IsOpen(blocks', b) =>
           b = cur' \/ \E j \in DOMAIN open' : b \in Awaits(open'[j]),
         Nested'
  PROVE  IInv' /\ Kept
<1>1. TypeOK /\ Nested /\ Owned /\ LabelsOwned /\ Accounted
  BY DEF IInv, InBodyInv
<1>2. TypeOK'
  BY <1>1, TypeStep
<1>3. Owned'
  BY <1>1, OwnedStep
<1>4. Len(open) \in DOMAIN open /\ Top = open[Len(open)]
  BY <1>1, OpenFacts
<1>5. \A l \in Label : labels[l] \notin S
  <2>1. NoBlock \notin Held(Top)
    BY DEF Held
  <2> QED
    BY <1>1, <1>4, <2>1 DEF LabelsOwned
<1>6. labels' = labels /\ declared' = declared /\ errors' = errors /\ phase' = "body"
  BY DEF StmtFrame
<1>7. LabelsOwned'
  <2>1. \A l, m \in Label : labels'[l] = labels'[m] /\ labels'[l] # NoBlock => l = m
    BY <1>1, <1>6 DEF LabelsOwned
  <2> QED
    BY <1>1, <1>5, <1>6, <2>1, LabelsStep
<1>8. Accounted'
  BY <1>1, <1>5, <1>6, AccountedStep
<1>9. phase' # "done"
  BY <1>6
<1> QED
  BY <1>2, <1>3, <1>6, <1>7, <1>8, <1>9, EffectKeeps DEF IInv, InBodyInv
\* Accounted says more than OpenBlocksAccounted while statements are lowered.
LEMMA AccountedSays ==
  ASSUME TypeOK, phase = "body", Accounted
  PROVE  OpenBlocksAccounted
<1>1. blocks \in Seq(Block) /\ DOMAIN blocks = Ids(blocks) /\ 0 \notin Ids(blocks)
  BY GraphFacts DEF TypeOK, Ids
<1> SUFFICES ASSUME ~errors, NEW b \in Ids(blocks), IsOpen(blocks, b)
             PROVE  b \in Awaited \cup AheadLabels \cup SkippedLabels
  BY <1>1 DEF OpenBlocksAccounted
<1>2. \/ b = cur
      \/ \E i \in DOMAIN open : b \in Awaits(open[i])
      \/ \E l \in Label : labels[l] = b /\ (l \notin declared \/ ~blocks[b].lowered)
  BY DEF Accounted
<1>3. CASE b = cur
  BY <1>3 DEF Awaited
<1>4. CASE \E i \in DOMAIN open : b \in Awaits(open[i])
  BY <1>4 DEF Awaited, Awaits
<1>5. CASE \E l \in Label : labels[l] = b /\ (l \notin declared \/ ~blocks[b].lowered)
  BY <1>1, <1>5 DEF AheadLabels, SkippedLabels, NoBlock
<1> QED
  BY <1>2, <1>3, <1>4, <1>5

\* A frame that is not the top one, or of which nothing is touched, is left alone.
LEMMA Apart ==
  ASSUME IInv, phase = "body", NEW X, X \subseteq Held(Top),
         NEW C, C \subseteq {cur} \cup X, NEW S, S \subseteq X,
         NEW i \in DOMAIN open, X = {} \/ i # Len(open),
         cur' = cur \/ cur' \notin Ids(blocks) \/ cur' \in X
  PROVE  /\ Held(open[i]) \cap S = {} /\ Awaits(open[i]) \cap C = {}
         /\ cur' \notin Awaits(open[i])
<1>1. TypeOK /\ Owned
  BY DEF IInv, InBodyInv
<1>2. Held(open[i]) \cap X = {}
  BY <1>1, OpenFacts DEF Owned
<1>3. /\ Awaits(open[i]) \subseteq Held(open[i])
      /\ \A b \in Held(open[i]) : b \in Ids(blocks)
      /\ \A b \in Awaits(open[i]) : b # cur
  BY <1>1 DEF Owned, Awaits, Held
<1> QED
  BY <1>2, <1>3

\* The stack but for what has been branched over.
LEMMA NestedSame ==
  ASSUME TypeOK, Nested, Owned, NEW C, NEW S, Edits(blocks, blocks', C, S),
         Len(open') = Len(open), DOMAIN open' = DOMAIN open,
         \A i \in DOMAIN open : Like(open'[i], open[i]),
         Top.kind \in NeedsOpen => Live'
  PROVE  Nested'
<1>1. /\ Len(open) \in Nat \ {0} /\ DOMAIN open = 1 .. Len(open)
      /\ Len(open) \in DOMAIN open /\ Top = open[Len(open)]
  BY OpenFacts
<1>2. \A i \in DOMAIN open : open'[i].kind = open[i].kind /\ open'[i].end = open[i].end
  BY DEF Like
<1>3. \A i \in DOMAIN open : open[i].kind = "short" =>
        open[i].end \in Ids(blocks) /\ blocks[open[i].end].preds # <<>>
  BY DEF Nested, Owned, Shape, Held
<1>4. \A i \in DOMAIN open' : open'[i].kind = "short" => blocks'[open'[i].end].preds # <<>>
  BY <1>2, <1>3, EditsKeep
<1>5. Top'.kind \in NeedsOpen => Live'
  BY <1>1, <1>2 DEF Top
<1>6. 1 \in DOMAIN open /\ \A i \in 1 .. (Len(open) - 1) : i \in DOMAIN open /\ i + 1 \in DOMAIN open
  BY <1>1
<1>7. ASSUME NEW i \in 1 .. (Len(open) - 1)
      PROVE  /\ open'[i].kind = open[i].kind /\ open'[i + 1].kind = open[i + 1].kind
             /\ open[i].kind \in {"head", "short"} => open[i + 1].kind = "short"
             /\ open[i].kind = "array" => open[i + 1].kind = "array"
             /\ open[i].kind # "switch"
  BY <1>2, <1>6 DEF Nested
<1>8. \A i \in 1 .. (Len(open') - 1) :
        /\ open'[i].kind \in {"head", "short"} => open'[i + 1].kind = "short"
        /\ open'[i].kind = "array" => open'[i + 1].kind = "array"
        /\ open'[i].kind # "switch"
  BY <1>7
<1>9. \A i \in DOMAIN open' : open'[i].kind = "fn" <=> i = 1
  BY <1>2 DEF Nested
<1> QED
  BY <1>4, <1>5, <1>8, <1>9 DEF Nested

LEMMA KeepStep ==
  ASSUME IInv, phase = "body", StmtFrame, open' \in {open, Branched},
         NEW C, C \subseteq {cur}, Effect(C, {}, {}), count' \in 0 .. Len(items),
         cur' = cur \/ cur' \notin Ids(blocks), cur' = cur \/ cur \in C,
         Top.kind \in NeedsOpen => Live'
  PROVE  IInv' /\ Kept
<1>1. TypeOK /\ Nested
  BY DEF IInv, InBodyInv
<1>2. /\ Len(open) \in Nat \ {0} /\ DOMAIN open = 1 .. Len(open)
      /\ Len(open) \in DOMAIN open /\ Top = open[Len(open)]
  BY <1>1, OpenFacts
<1>3. /\ open' \in Seq(FrameType) /\ Len(open') = Len(open)
      /\ DOMAIN open' = DOMAIN open
      /\ \A i \in DOMAIN open : Like(open'[i], open[i])
  BY <1>1, BranchedFacts
<1>4. Others(0, C, {})
  <2>1. {} \subseteq Held(Top) /\ C \subseteq {cur} \cup {} /\ {} \subseteq {}
    OBVIOUS
  <2>2. \A i \in DOMAIN open : /\ Held(open[i]) \cap {} = {} /\ Awaits(open[i]) \cap C = {}
                               /\ cur' \notin Awaits(open[i])
    BY <2>1, Apart
  <2> QED
    BY <1>3, <2>2 DEF Others
<1>5. \A i \in DOMAIN open' : open'[i].mark <= Len(items)
  BY <1>1, <1>3 DEF TypeOK, Like
<1>6. \A i \in DOMAIN open : Awaits(open'[i]) = Awaits(open[i])
  BY <1>3, FieldsSame
<1>7. Nested'
  <2>1. Edits(blocks, blocks', C, {}) /\ Owned
    BY DEF Effect, IInv, InBodyInv
  <2> QED
    BY <1>1, <1>3, <2>1, NestedSame
<1>8. 0 \notin DOMAIN open' /\ Len(open') >= 1
  BY <1>2, <1>3
<1> QED
  BY <1>3, <1>4, <1>5, <1>6, <1>7, <1>8, StepKeepsInv

LEMMA PushStep ==
  ASSUME IInv, phase = "body", StmtFrame, NEW f \in FrameType, f.mark <= Len(items),
         open' \in {Append(open, f), Append(Branched, f)},
         NEW C, C \subseteq {cur}, NEW new, Effect(C, {}, new), count' \in 0 .. Len(items),
         cur' = cur \/ cur' \notin Ids(blocks), cur' = cur \/ cur \in C,
         Shape(f), Held(f) \subseteq new,
         \A b \in new : IsOpen(blocks', b) => b = cur' \/ b \in Awaits(f),
         \A b \in Awaits(f) : IsOpen(blocks', b) /\ b # cur',
         Top.kind \in {"head", "short"} => f.kind = "short",
         Top.kind = "array" => f.kind = "array", Top.kind # "switch",
         f.kind = "short" => blocks'[f.end].preds # <<>>, f.kind # "fn",
         f.kind \in NeedsOpen => Live'
  PROVE  IInv' /\ Kept
<1> DEFINE t == Len(open) + 1
<1>1. TypeOK /\ Nested
  BY DEF IInv, InBodyInv
<1>2. /\ Len(open) \in Nat \ {0} /\ DOMAIN open = 1 .. Len(open)
      /\ Len(open) \in DOMAIN open /\ Top = open[Len(open)]
  BY <1>1, OpenFacts
<1>3. /\ open' \in Seq(FrameType) /\ Len(open') = t
      /\ DOMAIN open' = 1 .. t /\ open'[t] = f
      /\ \A i \in DOMAIN open : Like(open'[i], open[i])
  BY <1>1, PushFacts
<1> HIDE DEF t
<1>0. t = Len(open) + 1
  BY DEF t
<1>4. /\ t \in DOMAIN open' /\ t \notin DOMAIN open /\ t - 1 = Len(open) /\ t >= 1
      /\ \A i \in DOMAIN open' : i = t \/ i \in DOMAIN open
      /\ \A i \in DOMAIN open : i \in DOMAIN open'
      /\ 1 \in DOMAIN open
      /\ \A i \in 1 .. (t - 1) : /\ i \in DOMAIN open
                                 /\ i = Len(open) \/ (i \in 1 .. (Len(open) - 1)
                                                        /\ i + 1 \in DOMAIN open)
      /\ Len(open) + 1 = t
  <2>1. \A n \in Nat \ {0} : \A m \in Nat : m = n + 1 =>
          /\ m \in 1 .. m /\ m \notin 1 .. n /\ m - 1 = n /\ m >= 1 /\ 1 \in 1 .. n
          /\ \A i \in 1 .. m : i = m \/ i \in 1 .. n
          /\ \A i \in 1 .. n : i \in 1 .. m
          /\ \A i \in 1 .. n : i = n \/ (i \in 1 .. (n - 1) /\ i + 1 \in 1 .. n)
    OBVIOUS
  <2>2. t \in Nat
    BY <1>2, <1>0
  <2> QED
    BY <1>2, <1>3, <1>0, <2>1, <2>2
<1>5. Others(t, C, {})
  <2>1. {} \subseteq Held(Top) /\ C \subseteq {cur} \cup {} /\ {} \subseteq {}
    OBVIOUS
  <2>2. \A i \in DOMAIN open : /\ Held(open[i]) \cap {} = {} /\ Awaits(open[i]) \cap C = {}
                               /\ cur' \notin Awaits(open[i])
    BY <2>1, Apart
  <2> QED
    BY <1>3, <1>4, <2>2 DEF Others
<1>6. \A i \in DOMAIN open' : open'[i].mark <= Len(items)
  BY <1>1, <1>3, <1>4 DEF TypeOK, Like
<1>7. \A i \in DOMAIN open : Awaits(open'[i]) = Awaits(open[i])
  BY <1>3, FieldsSame
<1>8. Nested'
  <2>1. \A i \in DOMAIN open : open'[i].kind = open[i].kind /\ open'[i].end = open[i].end
    BY <1>3 DEF Like
  <2>2. \A i \in DOMAIN open : open[i].kind = "short" =>
           open[i].end \in Ids(blocks) /\ blocks[open[i].end].preds # <<>>
    BY <1>1 DEF Nested, IInv, InBodyInv, Owned, Shape, Held
  <2>3. \A i \in DOMAIN open : open[i].kind = "short" => blocks'[open[i].end].preds # <<>>
    BY <2>2, EditsKeep DEF Effect
  <2>4. \A i \in DOMAIN open' : open'[i].kind = "short" => blocks'[open'[i].end].preds # <<>>
    BY <1>3, <1>4, <2>1, <2>3
  <2>5. Top' = f
    BY <1>3 DEF Top
  <2>6. ASSUME NEW i \in 1 .. (t - 1)
        PROVE  /\ open'[i].kind \in {"head", "short"} => open'[i + 1].kind = "short"
               /\ open'[i].kind = "array" => open'[i + 1].kind = "array"
               /\ open'[i].kind # "switch"
    <3>1. CASE i = Len(open)
      BY <1>2, <1>3, <1>4, <2>1, <3>1
    <3>2. CASE i \in 1 .. (Len(open) - 1) /\ i + 1 \in DOMAIN open
      <4>1. /\ open[i].kind \in {"head", "short"} => open[i + 1].kind = "short"
            /\ open[i].kind = "array" => open[i + 1].kind = "array"
            /\ open[i].kind # "switch"
        BY <1>1, <3>2 DEF Nested
      <4>2. open'[i].kind = open[i].kind /\ open'[i + 1].kind = open[i + 1].kind
        BY <1>4, <2>1, <3>2
      <4> QED
        BY <4>1, <4>2
    <3> QED
      BY <1>4, <3>1, <3>2
  <2>7. \A i \in DOMAIN open' : open'[i].kind = "fn" <=> i = 1
    BY <1>1, <1>3, <1>4, <2>1 DEF Nested
  <2> QED
    BY <1>3, <2>4, <2>5, <2>6, <2>7 DEF Nested
<1>9. /\ Held(open'[t]) \subseteq
                new \cup (IF t \in DOMAIN open THEN Held(open[t]) \ {} ELSE {})
      /\ Len(open') >= 1
  BY <1>3, <1>4
<1> QED
  BY <1>3, <1>4, <1>5, <1>6, <1>7, <1>8, <1>9, StepKeepsInv

LEMMA SwapStep ==
  ASSUME IInv, phase = "body", StmtFrame, NEW f \in FrameType, f.mark <= Len(items),
         open' = Swap(f), Top.kind \in {"then", "head", "switch", "case"},
         NEW C, C \subseteq {cur} \cup Held(Top), NEW S, S \subseteq Held(Top),
         NEW new, Effect(C, S, new), count' \in 0 .. Len(items),
         cur' = cur \/ cur' \notin Ids(blocks) \/ cur' \in Held(Top),
         cur' = cur \/ cur \in C,
         Shape(f), Held(f) \subseteq new \cup (Held(Top) \ S),
         \A b \in new : IsOpen(blocks', b) => b = cur' \/ b \in Awaits(f),
         \A b \in Awaits(f) : IsOpen(blocks', b) /\ b # cur',
         Awaits(Top) \subseteq C \cup {cur'} \cup Awaits(f),
         f.kind \notin {"short", "fn"}, f.kind \in NeedsOpen => Live'
  PROVE  IInv' /\ Kept
<1> DEFINE t == Len(open)
<1>1. TypeOK /\ Nested
  BY DEF IInv, InBodyInv
<1>2. /\ t \in Nat \ {0} /\ DOMAIN open = 1 .. t
      /\ t \in DOMAIN open /\ Top = open[t]
  BY <1>1, OpenFacts
<1>3. /\ open' \in Seq(FrameType) /\ Len(open') = t
      /\ DOMAIN open' = DOMAIN open /\ open'[t] = f
      /\ \A i \in DOMAIN open : i # t => open'[i] = open[i]
  BY <1>1, SwapFacts
<1>4. Len(open) = t
  OBVIOUS
<1>5. Others(t, C, S)
  <2>1. \A i \in DOMAIN open : i # t =>
           /\ Held(open[i]) \cap S = {} /\ Awaits(open[i]) \cap C = {}
           /\ cur' \notin Awaits(open[i])
    BY Apart
  <2> QED
    BY <1>3, <2>1 DEF Others, Like
<1> HIDE DEF t
<1>6. \A i \in DOMAIN open' : open'[i].mark <= Len(items)
  BY <1>1, <1>3 DEF TypeOK
<1>7. Nested'
  <2>1. \A i \in DOMAIN open : open[i].kind = "short" =>
           open[i].end \in Ids(blocks) /\ blocks[open[i].end].preds # <<>>
    BY <1>1 DEF Nested, IInv, InBodyInv, Owned, Shape, Held
  <2>2. \A i \in DOMAIN open : open[i].kind = "short" => blocks'[open[i].end].preds # <<>>
    BY <2>1, EditsKeep DEF Effect
  <2>3. \A i \in DOMAIN open' : open'[i].kind = "short" => blocks'[open'[i].end].preds # <<>>
    BY <1>3, <2>2
  <2>4. Top' = f
    BY <1>3 DEF Top
  <2>5. \A i \in DOMAIN open' : open'[i].kind = "fn" <=> i = 1
    BY <1>1, <1>2, <1>3 DEF Nested
  <2>6. ASSUME NEW i \in 1 .. (t - 1)
        PROVE  /\ open'[i].kind \in {"head", "short"} => open'[i + 1].kind = "short"
               /\ open'[i].kind = "array" => open'[i + 1].kind = "array"
               /\ open'[i].kind # "switch"
    <3>1. /\ i \in DOMAIN open /\ i # t /\ i + 1 \in DOMAIN open
          /\ i + 1 = t \/ open'[i + 1] = open[i + 1]
      BY <1>2, <1>3
    <3>2. /\ open[i].kind \in {"head", "short"} => open[i + 1].kind = "short"
          /\ open[i].kind = "array" => open[i + 1].kind = "array"
          /\ open[i].kind # "switch"
      BY <1>1, <1>4 DEF Nested
    <3> QED
      BY <1>2, <1>3, <3>1, <3>2
  <2> QED
    BY <1>3, <2>3, <2>4, <2>5, <2>6 DEF Nested
<1>8. \A i \in DOMAIN open : \A b \in Awaits(open[i]) :
        b \in C \/ b = cur' \/ \E j \in DOMAIN open' : b \in Awaits(open'[j])
  <2>1. \A b \in Awaits(open[t]) : b \in C \/ b = cur' \/ b \in Awaits(open'[t])
    BY <1>2, <1>3
  <2> QED
    BY <1>2, <1>3, <2>1
<1>9. /\ Held(open'[t]) \subseteq
                new \cup (IF t \in DOMAIN open THEN Held(open[t]) \ S ELSE {})
      /\ Len(open') >= 1
  BY <1>2, <1>3
<1> QED
  BY <1>2, <1>3, <1>5, <1>6, <1>7, <1>8, <1>9, StepKeepsInv

LEMMA PopStep ==
  ASSUME IInv, phase = "body", StmtFrame, open' = Pop, Top.kind # "fn",
         NEW C, C \subseteq {cur} \cup Held(Top), NEW S, S \subseteq Held(Top),
         Effect(C, S, {}), count' \in 0 .. Len(items),
         cur' = cur \/ cur' \in Held(Top), cur' = cur \/ cur \in C,
         Awaits(Top) \subseteq C \cup {cur'},
         Top.kind \in {"short", "array"} => Live'
  PROVE  IInv' /\ Kept
<1> DEFINE t == Len(open)
<1>1. TypeOK /\ Nested
  BY DEF IInv, InBodyInv
<1>2. /\ t \in Nat \ {0} /\ DOMAIN open = 1 .. t
      /\ t \in DOMAIN open /\ Top = open[t]
  BY <1>1, OpenFacts
<1>3. t >= 2
  BY <1>1, <1>2 DEF Nested
<1>4. /\ open' \in Seq(FrameType) /\ Len(open') = t - 1 /\ DOMAIN open' = 1 .. (t - 1)
      /\ \A i \in 1 .. (t - 1) : open'[i] = open[i]
  BY <1>1, <1>3, PopFacts
<1>5. Others(t, C, S)
  <2>1. \A i \in DOMAIN open : i # t =>
           /\ Held(open[i]) \cap S = {} /\ Awaits(open[i]) \cap C = {}
           /\ cur' \notin Awaits(open[i])
    BY Apart
  <2>2. \A n \in Nat : \A i \in 1 .. (n - 1) : i \in 1 .. n /\ i # n
    OBVIOUS
  <2>3. \A i \in 1 .. (t - 1) : i \in DOMAIN open /\ i # t
    BY <1>2, <2>2
  <2> QED
    BY <1>4, <2>1, <2>3 DEF Others, Like
<1>6. Len(open) = t
  OBVIOUS
<1> HIDE DEF t
<1>7. /\ t - 1 \in 1 .. (t - 1) /\ 1 \in 1 .. (t - 1) /\ (t - 1) + 1 = t
      /\ \A i \in 1 .. (t - 1) : i \in DOMAIN open
      /\ \A i \in 1 .. ((t - 1) - 1) : i \in 1 .. (t - 1) /\ i + 1 \in 1 .. (t - 1)
      /\ \A i \in DOMAIN open : i = t \/ i \in DOMAIN open'
      /\ t \notin DOMAIN open' /\ Len(open') >= 1
  BY <1>2, <1>3, <1>4
<1>8. \A i \in DOMAIN open' : open'[i].mark <= Len(items)
  BY <1>1, <1>4, <1>7 DEF TypeOK
<1>9. Nested'
  <2>1. \A i \in DOMAIN open : open[i].kind = "short" =>
           open[i].end \in Ids(blocks) /\ blocks[open[i].end].preds # <<>>
    BY <1>1 DEF Nested, IInv, InBodyInv, Owned, Shape, Held
  <2>2. \A i \in DOMAIN open : open[i].kind = "short" => blocks'[open[i].end].preds # <<>>
    BY <2>1, EditsKeep DEF Effect
  <2>3. \A i \in DOMAIN open' : open'[i].kind = "short" => blocks'[open'[i].end].preds # <<>>
    BY <1>4, <1>7, <2>2
  <2>4. /\ open[t - 1].kind \in {"head", "short"} => Top.kind = "short"
        /\ open[t - 1].kind = "array" => Top.kind = "array"
        /\ open[t - 1].kind # "switch"
    BY <1>1, <1>2, <1>6, <1>7 DEF Nested
  <2>5. Top' = open[t - 1] /\ (Top'.kind \in NeedsOpen => Live')
    BY <1>4, <1>7, <2>4 DEF Top, NeedsOpen
  <2>6. \A i \in DOMAIN open' : open'[i].kind = "fn" <=> i = 1
    BY <1>1, <1>4, <1>7 DEF Nested
  <2>7. \A i \in 1 .. (Len(open') - 1) :
               /\ open'[i].kind \in {"head", "short"} => open'[i + 1].kind = "short"
               /\ open'[i].kind = "array" => open'[i + 1].kind = "array"
               /\ open'[i].kind # "switch"
    BY <1>1, <1>4, <1>6, <1>7 DEF Nested
  <2> QED
    BY <2>3, <2>5, <2>6, <2>7 DEF Nested
<1>10. \A i \in DOMAIN open : \A b \in Awaits(open[i]) :
        b \in C \/ b = cur' \/ \E j \in DOMAIN open' : b \in Awaits(open'[j])
  BY <1>2, <1>4, <1>7
<1> QED
  BY <1>4, <1>5, <1>7, <1>8, <1>9, <1>10, StepKeepsInv

-----------------------------------------------------------------------------
(* Steps that leave the graph alone, or only what the invariant does not   *)
(* mention, and the stack of constructs but for what has been branched.    *)

LEMMA StackKept ==
  ASSUME TypeOK, Nested, Owned, LabelsOwned, open' \in {open, Branched}, cur' = cur,
         Edits(blocks, blocks', {}, {}), Len(blocks') = Len(blocks), labels' = labels
  PROVE  /\ Nested' /\ Owned' /\ LabelsOwned'
         /\ open' \in Seq(FrameType) /\ Len(open') >= 1
         /\ \A i \in DOMAIN open' : open'[i].mark <= Len(items)
         /\ cur' \in Ids(blocks')
         /\ Accounted /\ declared' = declared /\ (errors => errors') => Accounted'
<1>1. /\ Len(open) \in Nat \ {0} /\ DOMAIN open = 1 .. Len(open)
      /\ Len(open) \in DOMAIN open /\ Top = open[Len(open)]
  BY OpenFacts
<1>2. /\ open' \in Seq(FrameType) /\ Len(open') = Len(open)
      /\ DOMAIN open' = DOMAIN open
      /\ \A i \in DOMAIN open : Like(open'[i], open[i])
  BY BranchedFacts
<1>3. /\ Ids(blocks') = Ids(blocks)
      /\ \A b \in Ids(blocks) : /\ IsOpen(blocks', b) <=> IsOpen(blocks, b)
                                /\ ~blocks[b].sealed => ~blocks'[b].sealed
                                /\ blocks'[b].lowered = blocks[b].lowered
                                /\ blocks[b].preds # <<>> => blocks'[b].preds # <<>>
  BY EditsKeep DEF Ids
<1>4. \A i \in DOMAIN open : /\ Held(open'[i]) = Held(open[i])
                             /\ Awaits(open'[i]) = Awaits(open[i])
                             /\ Shape(open[i]) => Shape(open'[i])
                             /\ open'[i].kind = open[i].kind /\ open'[i].end = open[i].end
                             /\ open'[i].mark = open[i].mark
  BY <1>2, FieldsSame DEF Like
<1>5. \A i \in DOMAIN open : Awaits(open[i]) \subseteq Held(open[i])
  BY DEF Awaits, Held
<1>6. Nested'
  <2>1. Top.kind \in NeedsOpen => Live'
    BY <1>3 DEF Nested, Live, TypeOK
  <2> QED
    BY <1>2, <2>1, NestedSame
<1>7. Owned'
  BY <1>2, <1>3, <1>4, <1>5 DEF Owned
<1>8. LabelsOwned'
  BY <1>2, <1>3, <1>4 DEF LabelsOwned
<1>9. Accounted /\ declared' = declared /\ (errors => errors') => Accounted'
  BY <1>2, <1>3, <1>4 DEF Accounted, LabelsOwned
<1>10. \A i \in DOMAIN open' : open'[i].mark <= Len(items)
  BY <1>2, <1>4 DEF TypeOK
<1> QED
  BY <1>1, <1>2, <1>3, <1>6, <1>7, <1>8, <1>9, <1>10 DEF TypeOK

-----------------------------------------------------------------------------
(* Patterns that several actions share, from the new blocks they start     *)
(* with to the effect they have.                                           *)

LEMMA BodyFacts ==
  ASSUME IInv, phase = "body"
  PROVE  /\ TypeOK /\ Nested /\ Owned /\ LabelsOwned /\ Accounted
         /\ Consistent(blocks) /\ cur \in Ids(blocks)
         /\ count \in 0 .. Len(items) /\ Len(items) \in Nat
         /\ Top \in FrameType /\ Top.mark \in 0 .. Len(items) /\ Top.mark <= Len(items)
         /\ Shape(Top)
         /\ \A b \in Held(Top) : b \in Ids(blocks) /\ ~blocks[b].sealed
         /\ \A b \in Awaits(Top) : IsOpen(blocks, b) /\ b # cur
         /\ Top.kind \in NeedsOpen => IsOpen(blocks, cur)
<1>1. TypeOK /\ Nested /\ Owned /\ LabelsOwned /\ Accounted
  BY DEF IInv, InBodyInv
<1>2. /\ Len(open) \in DOMAIN open /\ Top = open[Len(open)] /\ Top \in FrameType
      /\ Top.mark \in 0 .. Len(items)
  BY <1>1, OpenFacts
<1>3. Len(items) \in Nat /\ Top.mark <= Len(items)
  BY <1>1, <1>2 DEF TypeOK
<1>4. /\ Shape(Top)
      /\ \A b \in Held(Top) : b \in Ids(blocks) /\ ~blocks[b].sealed
      /\ \A b \in Awaits(Top) : IsOpen(blocks, b) /\ b # cur
  BY <1>1, <1>2 DEF Owned
<1>5. Top.kind \in NeedsOpen => IsOpen(blocks, cur)
  BY <1>1 DEF Nested, Live
<1> QED
  BY <1>1, <1>2, <1>3, <1>4, <1>5 DEF TypeOK

\* The graph with the new blocks in it, none of which has an edge yet.
LEMMA NewBlocks ==
  ASSUME IInv, phase = "body", NEW n \in Nat, NEW g0, g0 = WithBlocks(blocks, n)
  PROVE  /\ Consistent(g0) /\ cur \in Ids(g0) /\ cur \in Ids(blocks)
         /\ Ids(blocks) \subseteq Ids(g0)
         /\ IsOpen(blocks, cur) => IsOpen(g0, cur)
         /\ \A b \in Ids(blocks) : g0[b] = blocks[b] /\ (IsOpen(g0, b) <=> IsOpen(blocks, b))
         /\ \A b \in Ids(g0) \ Ids(blocks) :
              IsOpen(g0, b) /\ ~g0[b].sealed /\ b # cur /\ b \in Nat \ {NoBlock}
         /\ Ids(g0) \ Ids(blocks) = (Len(blocks) + 1) .. (Len(blocks) + n)
         /\ Len(blocks) \in Nat
<1>1. /\ Consistent(g0) /\ Ids(blocks) \subseteq Ids(g0)
      /\ Ids(g0) = 1 .. (Len(blocks) + n) /\ Len(blocks) \in Nat
      /\ \A b \in Ids(blocks) : g0[b] = blocks[b]
      /\ \A b \in Ids(g0) \ Ids(blocks) : IsOpen(g0, b) /\ ~g0[b].sealed
  BY BodyFacts, Grown
<1>2. cur \in Ids(blocks)
  BY BodyFacts
<1>3. /\ Ids(g0) \ Ids(blocks) = (Len(blocks) + 1) .. (Len(blocks) + n)
      /\ \A b \in Ids(g0) : b \in Nat \ {NoBlock}
  BY <1>1 DEF Ids, NoBlock
<1> QED
  BY <1>1, <1>2, <1>3 DEF IsOpen

\* A step that adds no block.
LEMMA OldBlocksEffect ==
  ASSUME TypeOK, NEW C, C \subseteq Ids(blocks), NEW S, NEW T, T \subseteq S,
         Finished(blocks, C, S, T)
  PROVE  Effect(C, S, {})
<1>1. blocks = WithBlocks(blocks, 0)
  BY GrowNothing
<1>2. /\ C = C \cap Ids(blocks) /\ (S \cup T) \cap Ids(blocks) \subseteq S
      /\ {} \subseteq Ids(blocks) \ Ids(blocks) /\ {} \cap S = {}
      /\ \A b \in Ids(blocks) \ Ids(blocks) : b \in {} \/ b \in C \/ b = cur'
  OBVIOUS
<1> QED
  BY <1>1, <1>2, FinishedEffect

AllOpen(g, bs) == \A b \in bs : IsOpen(g, b)

\* The current block leaves for either of two new ones, and one is taken up.
Forked(then, new) ==
  /\ Effect({cur}, {}, new) /\ cur' = then /\ cur' \notin Ids(blocks)
  /\ count' = count /\ Live' /\ AllOpen(blocks', new)

LEMMA ForkEffect ==
  ASSUME IInv, phase = "body", IsOpen(blocks, cur), NEW n \in Nat,
         NEW g0, g0 = WithBlocks(blocks, n),
         NEW then \in Ids(g0) \ Ids(blocks), NEW other \in Ids(g0) \ Ids(blocks),
         then # other, NEW new, new = (Ids(g0) \ Ids(blocks)) \ {then},
         StartBlock(Seal(CondBr(g0, cur, then, other), then), then, count)
  PROVE  Forked(then, new) /\ blocks'[other].preds # <<>>
<1> DEFINE g1 == CondBr(g0, cur, then, other)
           g2 == Seal(g1, then)
<1>1. /\ Consistent(g0) /\ cur \in Ids(g0) /\ cur \in Ids(blocks) /\ IsOpen(g0, cur)
      /\ Ids(blocks) \subseteq Ids(g0)
      /\ \A b \in Ids(g0) \ Ids(blocks) : IsOpen(g0, b) /\ ~g0[b].sealed /\ b # cur
  BY NewBlocks
<1>2. /\ then \in Ids(g0) /\ other \in Ids(g0) /\ IsOpen(g0, then)
      /\ ~g0[then].sealed /\ ~g0[other].sealed /\ then # cur
  BY <1>1
<1>3. StartBlock(g2, then, count) /\ TypeOK /\ count \in 0 .. Len(items)
  BY BodyFacts
<1>4. Made(g0, g0, {}, {}, {}) /\ {} \subseteq Ids(g0)
  BY <1>1, MadeNothing
<1>5. Made(g0, g1, {cur}, {}, {}) /\ {cur} \subseteq Ids(g0)
  BY <1>1, <1>2, <1>4, MadeCondBr
<1>6. g1[other].preds # <<>>
  BY <1>1, <1>2, CondBrEdits
<1> HIDE DEF g1
<1>7. Made(g0, g2, {cur}, {then}, {})
  BY <1>2, <1>5, MadeSeal
<1>8. Consistent(g1) /\ Ids(g1) = Ids(g0)
  BY <1>5, MadeFacts
<1>9. Made(g1, g2, {}, {then}, {}) /\ {} \subseteq Ids(g1)
  BY <1>2, <1>8, MadeNothing, MadeSeal
<1> HIDE DEF g2
<1>10. /\ Finished(g0, {cur}, {then}, {then}) /\ cur' = then /\ count' = count /\ Live'
  <2>1. then \notin {cur} /\ {then} = {} \cup {then}
    BY <1>2
  <2> QED
    BY <1>2, <1>3, <1>5, <1>7, <2>1, MadeStart
<1>11. Finished(g1, {}, {then}, {then})
  BY <1>2, <1>3, <1>8, <1>9, MadeStart
<1>12. blocks'[other].preds # <<>>
  BY <1>2, <1>6, <1>8, <1>11, EditsKeep DEF Finished
<1>13. AllOpen(blocks', new)
  BY <1>1, <1>10, EditsKeep DEF Finished, AllOpen
<1>14. Effect({cur}, {}, new)
  <2>1. /\ {cur} = {cur} \cap Ids(blocks)
        /\ ({then} \cup {then}) \cap Ids(blocks) \subseteq {}
        /\ \A b \in Ids(g0) \ Ids(blocks) : b \in new \/ b \in {cur} \/ b = cur'
        /\ new \subseteq Ids(g0) \ Ids(blocks) /\ new \cap {then} = {}
    BY <1>1, <1>10
  <2> QED
    BY <1>3, <1>10, <2>1, FinishedEffect
<1> QED
  BY <1>10, <1>12, <1>13, <1>14 DEF Forked

LEMMA LoopEffect ==
  ASSUME IInv, phase = "body", IsOpen(blocks, cur), NEW n \in Nat,
         NEW g0, g0 = WithBlocks(blocks, n),
         NEW begin, NEW body, NEW end,
         {begin, body, end} \subseteq Ids(g0) \ Ids(blocks),
         begin # body, begin # end, body # end,
         NEW new, new = (Ids(g0) \ Ids(blocks)) \ {body},
         StartBlock(WithLoopHead(g0, begin, body, end), body, count)
  PROVE  /\ Effect({cur}, {}, new) /\ cur' = body /\ cur' \notin Ids(blocks)
         /\ count' \in 0 .. Len(items) /\ Live'
         /\ ~IsOpen(blocks', begin)
         /\ AllOpen(blocks', new \ {begin})
<1> DEFINE g1 == Br(g0, cur, begin)
           g2 == TakenUp(g1, begin, Pending(count))
           g3 == CondBr(g2, begin, body, end)
           g4 == Seal(g3, body)
<1>1. /\ Consistent(g0) /\ cur \in Ids(g0) /\ cur \in Ids(blocks) /\ IsOpen(g0, cur)
      /\ Ids(blocks) \subseteq Ids(g0)
      /\ \A b \in Ids(g0) \ Ids(blocks) : IsOpen(g0, b) /\ ~g0[b].sealed /\ b # cur
  BY NewBlocks
<1>2. TypeOK /\ count \in 0 .. Len(items)
  BY BodyFacts
<1>3. StartBlock(g4, body, count)
  BY DEF WithLoopHead, TakenUp
<1>4. /\ begin \in Ids(g0) /\ body \in Ids(g0) /\ end \in Ids(g0)
      /\ IsOpen(g0, begin) /\ IsOpen(g0, body)
      /\ ~g0[begin].sealed /\ ~g0[body].sealed /\ ~g0[end].sealed
      /\ begin # cur /\ body # cur
  BY <1>1
<1>5. Made(g0, g0, {}, {}, {}) /\ {} \subseteq Ids(g0)
  BY <1>1, MadeNothing
<1>6. Made(g0, g1, {cur}, {}, {}) /\ {cur} \subseteq Ids(g0)
  BY <1>1, <1>4, <1>5, MadeBr
<1> HIDE DEF g1
<1>7. Made(g0, g2, {cur}, {}, {begin})
  BY <1>2, <1>4, <1>6, MadeTaken
<1> HIDE DEF g2
<1>8. Made(g0, g3, {cur, begin}, {}, {begin}) /\ {cur, begin} \subseteq Ids(g0)
  <2>1. {cur, begin} = {cur} \cup {begin} /\ begin \notin {cur}
    BY <1>4
  <2> QED
    BY <1>4, <1>6, <1>7, <2>1, MadeCondBr
<1> HIDE DEF g3
<1>9. Made(g0, g4, {cur, begin}, {body}, {begin})
  BY <1>4, <1>8, MadeSeal
<1> HIDE DEF g4
<1>10. /\ Finished(g0, {cur, begin}, {body}, {begin, body}) /\ cur' = body
       /\ count' = count /\ Live'
  <2>1. body \notin {cur, begin} /\ {begin, body} = {begin} \cup {body}
    BY <1>4
  <2> QED
    BY <1>2, <1>3, <1>4, <1>8, <1>9, <2>1, MadeStart
<1>11. Effect({cur}, {}, new)
  <2>1. /\ {cur} = {cur, begin} \cap Ids(blocks)
        /\ ({body} \cup {begin, body}) \cap Ids(blocks) \subseteq {}
        /\ \A b \in Ids(g0) \ Ids(blocks) : b \in new \/ b \in {cur, begin} \/ b = cur'
        /\ new \subseteq Ids(g0) \ Ids(blocks) /\ new \cap {body} = {}
    BY <1>1, <1>10
  <2> QED
    BY <1>2, <1>10, <2>1, FinishedEffect
<1>12. ~IsOpen(blocks', begin) /\ AllOpen(blocks', new \ {begin})
  BY <1>1, <1>10, EditsKeep DEF Finished, AllOpen
<1> QED
  BY <1>2, <1>10, <1>11, <1>12

LEMMA JoinEffect ==
  ASSUME TypeOK, cur \in Ids(blocks), NEW g, Made(blocks, g, {cur}, {}, {}),
         NEW end, end \in Ids(blocks), IsOpen(blocks, end), end \notin {cur},
         NEW n, n \in 0 .. Len(items),
         StartBlock(CloseUnreached(Seal(g, end), end), end, n)
  PROVE  /\ Effect({cur, end}, {end}, {}) /\ cur' = end /\ count' = n
         /\ blocks[end].preds # <<>> => Live'
<1>1. PICK D : D = {cur} \cup {end}
  OBVIOUS
<1>2. PICK R : R = {} \cup {end}
  OBVIOUS
<1>3. {cur} \subseteq Ids(blocks)
  OBVIOUS
<1>4. Finished(blocks, D, R, R) /\ cur' = end /\ count' = n
  BY <1>1, <1>2, <1>3, MadeJoin
<1>5. blocks[end].preds # <<>> => Live'
  BY <1>1, <1>2, <1>3, MadeJoin
<1>6. D = {cur, end} /\ R = {end} /\ D \subseteq Ids(blocks)
  BY <1>1, <1>2
<1>7. Effect(D, R, {})
  BY <1>4, <1>6, OldBlocksEffect
<1> QED
  BY <1>4, <1>5, <1>6, <1>7

\* A construct ends in its join, the last of its blocks.
LEMMA JoinStep ==
  ASSUME IInv, phase = "body", StmtFrame, open' = Pop, NEW end, end = Top.end,
         Held(Top) = {end}, Top.kind \notin {"fn", "array"},
         NEW g, Made(blocks, g, {cur}, {}, {}), NEW n \in {count, Top.mark},
         StartBlock(CloseUnreached(Seal(g, end), end), end, n)
  PROVE  IInv' /\ Kept
<1>1. /\ TypeOK /\ Nested /\ Consistent(blocks) /\ cur \in Ids(blocks)
      /\ n \in 0 .. Len(items)
      /\ \A b \in Held(Top) : b \in Ids(blocks)
      /\ \A b \in Awaits(Top) : IsOpen(blocks, b) /\ b # cur
      /\ Shape(Top) /\ Len(open) \in DOMAIN open /\ Top = open[Len(open)]
  BY BodyFacts, OpenFacts
<1>2. Top.begin = NoBlock
  BY <1>1 DEF Shape, Held
<1>3. end \in Ids(blocks) /\ end # NoBlock /\ Awaits(Top) = {end}
  BY <1>1, <1>2 DEF Held, Awaits
<1>4. IsOpen(blocks, end) /\ end \notin {cur}
  BY <1>1, <1>2, <1>3 DEF Awaits
<1>5. /\ Effect({cur, end}, {end}, {}) /\ cur' = end /\ count' = n
      /\ blocks[end].preds # <<>> => Live'
  BY <1>1, <1>3, <1>4, JoinEffect
<1>6. Top.kind = "short" => Live'
  BY <1>1, <1>5 DEF Nested
<1> QED
  BY <1>1, <1>3, <1>5, <1>6, PopStep

\* A body ends where its construct keeps no other block than the join.
LEMMA CloseToJoinStep ==
  ASSUME IInv, phase = "body", StmtFrame, open' = Pop,
         Top.kind \in {"then", "else", "default"}, Top.alt = NoBlock,
         StartBlock(Join(CloseBody(blocks, Top.end)), Top.end, Top.mark)
  PROVE  IInv' /\ Kept
<1> DEFINE end == Top.end
           g == CloseBody(blocks, end)
<1>1. /\ TypeOK /\ Consistent(blocks) /\ cur \in Ids(blocks) /\ Shape(Top)
      /\ \A b \in Held(Top) : b \in Ids(blocks) /\ ~blocks[b].sealed
  BY BodyFacts
<1>2. Held(Top) = {end}
  BY <1>1 DEF Shape, Held
<1>3. StartBlock(CloseUnreached(Seal(g, end), end), end, Top.mark)
  BY DEF Join
<1>4. end = Top.end /\ end \in Ids(blocks) /\ ~blocks[end].sealed
  BY <1>1, <1>2
<1> HIDE DEF end
<1>5. Made(blocks, g, {cur}, {}, {})
  <2>1. /\ Made(blocks, blocks, {}, {}, {}) /\ {} \subseteq Ids(blocks)
        /\ {cur} = {} \cup {cur} /\ end \notin {}
    BY <1>1, MadeNothing
  <2> QED
    BY <1>1, <1>4, <2>1, MadeClose
<1> HIDE DEF g
<1> QED
  BY <1>2, <1>3, <1>4, <1>5, JoinStep

\* The last block kept but the join is taken up.
LEMMA TakeAltStep ==
  ASSUME IInv, phase = "body", StmtFrame, Top.kind \in {"then", "head", "case"},
         NEW alt, alt = Top.alt, alt # NoBlock,
         NEW g, Made(blocks, g, {cur}, {}, {}), NEW n \in 0 .. Len(items),
         StartBlock(Seal(g, alt), alt, n),
         NEW f \in FrameType, f.mark <= Len(items), open' = Swap(f),
         f.begin = Top.begin, f.step = Top.step, f.end = Top.end, f.alt = NoBlock,
         Shape(f), f.kind \notin {"short", "fn"}
  PROVE  IInv' /\ Kept
<1> DEFINE h == Seal(g, alt)
<1>1. /\ TypeOK /\ Consistent(blocks) /\ cur \in Ids(blocks) /\ Shape(Top)
      /\ \A b \in Held(Top) : b \in Ids(blocks) /\ ~blocks[b].sealed
      /\ \A b \in Awaits(Top) : IsOpen(blocks, b) /\ b # cur
  BY BodyFacts
<1>2. /\ alt \in Held(Top) /\ alt \in Awaits(Top) /\ Held(f) = Held(Top) \ {alt}
      /\ Awaits(f) = Awaits(Top) \ {alt}
  BY <1>1 DEF Shape, Held, Awaits
<1>3. alt \in Ids(blocks) /\ IsOpen(blocks, alt) /\ alt # cur /\ {cur} \subseteq Ids(blocks)
  BY <1>1, <1>2
<1>4. Made(blocks, h, {cur}, {alt}, {}) /\ StartBlock(h, alt, n)
  <2>1. {alt} = {} \cup {alt}
    OBVIOUS
  <2> QED
    BY <1>3, <2>1, MadeSeal
<1> HIDE DEF h
<1>5. Finished(blocks, {cur}, {alt}, {alt}) /\ cur' = alt /\ count' = n /\ Live'
  <2>1. PICK C : C = {cur}
    OBVIOUS
  <2>2. PICK S : S = {alt}
    OBVIOUS
  <2>3. /\ Made(blocks, h, C, S, {}) /\ C \subseteq Ids(blocks) /\ S = {} \cup {alt}
        /\ alt \notin C
    BY <1>3, <1>4, <2>1, <2>2
  <2>4. Finished(blocks, C, S, S) /\ cur' = alt /\ count' = n /\ Live'
    BY <1>1, <1>3, <1>4, <2>3, MadeStart
  <2> QED
    BY <2>1, <2>2, <2>4
<1>6. Effect({cur}, {alt}, {})
  BY <1>1, <1>3, <1>5, OldBlocksEffect
<1>7. \A b \in Awaits(f) : IsOpen(blocks', b) /\ b # cur'
  <2>1. Edits(blocks, blocks', {cur}, {alt})
    BY <1>6 DEF Effect
  <2>2. \A b \in Awaits(f) :
          b \in Ids(blocks) /\ IsOpen(blocks, b) /\ b \notin {cur} /\ b # cur'
    BY <1>1, <1>2, <1>5 DEF Awaits, Held
  <2> QED
    BY <2>1, <2>2, EditsKeep
<1>8. PICK C : C = {cur}
  OBVIOUS
<1>9. PICK S : S = {alt}
  OBVIOUS
<1>10. PICK new : new = {}
  OBVIOUS
<1>11. /\ Held(f) \subseteq new \cup (Held(Top) \ S)
       /\ Awaits(Top) \subseteq C \cup {cur'} \cup Awaits(f)
       /\ C \subseteq {cur} \cup Held(Top) /\ S \subseteq Held(Top)
       /\ cur' \in Held(Top) /\ cur \in C
       /\ \A b \in new : IsOpen(blocks', b) => b = cur' \/ b \in Awaits(f)
       /\ Effect(C, S, new)
  BY <1>2, <1>5, <1>6, <1>8, <1>9, <1>10
<1>12. Top.kind \in {"then", "head", "switch", "case"} /\ count' \in 0 .. Len(items)
  BY <1>5
<1> QED
  BY <1>5, <1>7, <1>11, <1>12, SwapStep

\* A statement: the block is open and so is a body; all defers are due.
LEMMA StmtFacts ==
  ASSUME IInv, NEW s, Stmt(s)
  PROVE  /\ phase = "body" /\ Top.kind \in BodyKinds /\ IsOpen(blocks, cur)
         /\ TypeOK /\ cur \in Ids(blocks) /\ {cur} \subseteq Ids(blocks) /\ Owned
         /\ count \in 0 .. Len(items) /\ 0 \in 0 .. Len(items)
         /\ \A m \in Nat : Made(blocks, RunDefers(blocks, m), {}, {}, {})
<1>1. phase = "body" /\ Top.kind \in BodyKinds /\ IsOpen(blocks, cur)
  BY DEF Stmt, InBody, Live
<1>2. /\ TypeOK /\ cur \in Ids(blocks) /\ Consistent(blocks) /\ Owned
      /\ count \in 0 .. Len(items) /\ 0 \in 0 .. Len(items)
  BY <1>1, BodyFacts
<1>3. Made(blocks, blocks, {}, {}, {}) /\ {} \subseteq Ids(blocks)
  BY <1>2, MadeNothing
<1>4. \A m \in Nat : Made(blocks, RunDefers(blocks, m), {}, {}, {})
  BY <1>2, <1>3, MadeRun
<1> QED
  BY <1>1, <1>2, <1>4

LEMMA LeaveStep ==
  ASSUME IInv, phase = "body", StmtFrame, open' \in {open, Branched},
         Top.kind \in BodyKinds, NEW g, Made(blocks, g, {cur}, {}, {}),
         NEW m \in 0 .. Len(items), StartDeadBlock(g, m)
  PROVE  IInv' /\ Kept
<1>1. TypeOK /\ cur \in Ids(blocks) /\ blocks = WithBlocks(blocks, 0)
  BY BodyFacts, GrowNothing
<1>2. /\ {cur} \subseteq Ids(blocks) /\ {} \cup {} \subseteq Ids(blocks)
      /\ {} = Ids(blocks) \ Ids(blocks)
  BY <1>1
<1>3. Effect({cur}, {} \cup {}, {}) /\ cur' \notin Ids(blocks) /\ count' = m
  <2>1. Died({cur}, {} \cup {}, {}, m)
    BY <1>1, <1>2, DeadEffect
  <2> QED
    BY <2>1 DEF Died
<1>4. {} \cup {} = {} /\ Top.kind \notin NeedsOpen
  BY DEF BodyKinds, NeedsOpen
<1>5. Effect({cur}, {}, {})
  BY <1>3, <1>4
<1> QED
  BY <1>3, <1>4, <1>5, KeepStep

\* A nonempty set of indices has a last one.
LEMMA LastOf ==
  ASSUME NEW n \in Nat, NEW I, I # {}, I \subseteq 1 .. n
  PROVE  \E i \in I : \A j \in I : j <= i
<1> DEFINE D == {n - i : i \in I}
           R == OpToRel(<, Nat)
<1>1. D \subseteq Nat /\ D # {}
  <2>1. \A i \in I : n - i \in Nat
    OBVIOUS
  <2> QED
    BY <2>1
<1>2. IsWellFoundedOn(R, Nat)
  BY NatLessThanWellFounded
<1>3. \A x, y \in Nat : x < y => <<x, y>> \in R
  BY DEF OpToRel
<1> HIDE DEF D, R
<1>4. \E x \in D : \A y \in D : ~ (<<y, x>> \in R)
  BY <1>1, <1>2, WFMin
<1>5. \E x \in D : \A y \in D : x <= y
  <2>1. PICK x \in D : \A y \in D : ~ (<<y, x>> \in R)
    BY <1>4
  <2>2. \A y \in D : y \in Nat /\ x \in Nat
    BY <1>1
  <2>3. \A y \in D : ~(y < x)
    BY <1>3, <2>1, <2>2
  <2>4. \A y \in D : x <= y
    BY <2>2, <2>3
  <2> QED
    BY <2>4
<1> QED
  BY <1>5 DEF D

LEMMA LoopFacts ==
  ASSUME IInv, phase = "body", Loops # {}
  PROVE  /\ Loop.mark \in 0 .. Len(items)
         /\ \A b \in {Loop.end, Loop.step} : b \in Ids(blocks) /\ ~blocks[b].sealed
<1> DEFINE k == CHOOSE i \in Loops : \A j \in Loops : j <= i
<1>1. TypeOK /\ Owned
  BY BodyFacts
<1>2. Len(open) \in Nat /\ DOMAIN open = 1 .. Len(open)
  BY <1>1, OpenFacts
<1>3. \E i \in Loops : \A j \in Loops : j <= i
  BY <1>2, LastOf DEF Loops
<1>4. k \in Loops /\ Loop = open[k]
  BY <1>3 DEF Loop
<1> HIDE DEF k
<1>5. k \in DOMAIN open /\ Loop.kind \in {"while", "for"}
  BY <1>4 DEF Loops, LoopKinds
<1>6. Loop \in FrameType /\ Loop.mark <= Len(items) /\ Len(items) \in Nat
  BY <1>1, <1>4, <1>5, OpenFacts DEF TypeOK
<1>7. Loop.mark \in 0 .. Len(items)
  BY <1>6 DEF FrameType
<1>8. Loop.end \in Held(Loop) /\ Loop.step \in Held(Loop)
  <2>1. Shape(Loop)
    BY <1>1, <1>4, <1>5 DEF Owned
  <2> QED
    BY <1>5, <2>1 DEF Shape, Held
<1> QED
  BY <1>1, <1>4, <1>5, <1>7, <1>8 DEF Owned

-----------------------------------------------------------------------------
(* Labels and goto. *)

\* The block of a label, mentioned before or not.
LEMMA LabelFacts ==
  ASSUME IInv, phase = "body", NEW l \in Label,
         NEW b, b = LabelBlock(l), NEW g, g = WithLabelBlock(l)
  PROVE  /\ \E n \in Nat : g = WithBlocks(blocks, n)
         /\ Consistent(g) /\ cur \in Ids(g) /\ Ids(blocks) \subseteq Ids(g)
         /\ Live => IsOpen(g, cur)
         /\ b \in Ids(g) /\ ~g[b].sealed /\ b \in Nat \ {NoBlock}
         /\ \A i \in DOMAIN open : b \notin Held(open[i])
         /\ \A m \in Label : m # l => labels[m] # b
         /\ Ids(g) \ Ids(blocks) \subseteq {b}
         /\ \A x \in Ids(g) \ Ids(blocks) : ~g[x].sealed
         /\ b \in Ids(blocks) => labels[l] = b
         /\ labels[l] # NoBlock => labels[l] = b /\ g = blocks
<1>1. /\ TypeOK /\ Owned /\ LabelsOwned /\ Consistent(blocks) /\ cur \in Ids(blocks)
      /\ labels \in [Label -> Nat]
  BY BodyFacts DEF TypeOK
<1>2. CASE labels[l] = NoBlock
  <2>1. b = Len(blocks) + 1 /\ g = WithBlocks(blocks, 1) /\ 1 \in Nat
    BY <1>2 DEF LabelBlock, WithLabelBlock
  <2>2. /\ Consistent(g) /\ cur \in Ids(g) /\ Ids(blocks) \subseteq Ids(g)
        /\ IsOpen(blocks, cur) => IsOpen(g, cur)
        /\ \A x \in Ids(g) \ Ids(blocks) : ~g[x].sealed /\ x \in Nat \ {NoBlock}
        /\ Ids(g) \ Ids(blocks) = (Len(blocks) + 1) .. (Len(blocks) + 1)
        /\ Len(blocks) \in Nat
    BY <2>1, NewBlocks
  <2>3. Ids(g) \ Ids(blocks) = {b}
    BY <2>1, <2>2
  <2>4. \A i \in DOMAIN open : b \notin Held(open[i])
    BY <1>1, <2>3 DEF Owned
  <2>5. \A m \in Label : labels[m] # b
    BY <1>1, <2>2, <2>3 DEF LabelsOwned
  <2> QED
    BY <1>2, <2>1, <2>2, <2>3, <2>4, <2>5 DEF Live
<1>3. CASE labels[l] # NoBlock
  <2>1. b = labels[l] /\ g = blocks /\ 0 \in Nat /\ blocks = WithBlocks(blocks, 0)
    BY <1>1, <1>3, GrowNothing DEF LabelBlock, WithLabelBlock
  <2>2. /\ b \in Ids(blocks) /\ ~blocks[b].sealed /\ b \in Nat \ {NoBlock}
        /\ \A i \in DOMAIN open : b \notin Held(open[i])
        /\ \A m \in Label : m # l => labels[m] # b
    BY <1>1, <1>3, <2>1 DEF LabelsOwned
  <2>3. Ids(blocks) \ Ids(blocks) = {}
    OBVIOUS
  <2> QED
    BY <1>1, <2>1, <2>2, <2>3 DEF Live
<1> QED
  BY <1>2, <1>3

Named(C, S, new, l, b) ==
  /\ Effect(C, S, new) /\ Nested' /\ Owned' /\ LabelsOwned'
  /\ labels' \in [Label -> Nat] /\ labels'[l] = b
  /\ \A m \in Label : m # l => labels'[m] = labels[m] /\ labels[m] # b

\* Whichever step names a label: the label gets its block, the rest keep theirs.
LEMMA NamedStep ==
  ASSUME IInv, phase = "body", NEW l \in Label, NEW b, b = LabelBlock(l),
         labels' = [labels EXCEPT ![l] = b],
         NEW C, NEW S, S \subseteq {b}, NEW new, Effect(C, S, new), new \subseteq {b},
         ~blocks'[b].sealed, b \in Ids(blocks'), C \subseteq {cur},
         Len(open') = Len(open), DOMAIN open' = DOMAIN open,
         \A i \in DOMAIN open : Like(open'[i], open[i]),
         open' \in Seq(FrameType), Top.kind \in BodyKinds,
         cur' = b \/ cur' \notin Ids(blocks)
  PROVE  Named(C, S, new, l, b)
<1>1. TypeOK /\ Nested /\ Owned /\ LabelsOwned /\ labels \in [Label -> Nat]
  BY BodyFacts DEF TypeOK
<1>2. /\ \A i \in DOMAIN open : b \notin Held(open[i])
      /\ \A m \in Label : m # l => labels[m] # b
      /\ b \in Nat \ {NoBlock}
  BY LabelFacts
<1>3. /\ labels' \in [Label -> Nat] /\ labels'[l] = b
      /\ \A m \in Label : m # l => labels'[m] = labels[m]
  BY <1>1, <1>2
<1>4. 0 \notin DOMAIN open'
  BY <1>1, OpenFacts
<1>5. Others(0, C, S)
  <2>1. /\ \A i \in DOMAIN open : Awaits(open[i]) \subseteq Held(open[i])
        /\ \A i \in DOMAIN open : \A x \in Held(open[i]) : x \in Ids(blocks)
        /\ \A i \in DOMAIN open : \A x \in Awaits(open[i]) : x # cur
    BY <1>1 DEF Owned, Awaits, Held
  <2>2. \A i \in DOMAIN open :
          /\ Held(open[i]) \cap S = {} /\ Awaits(open[i]) \cap C = {}
          /\ cur' \notin Awaits(open[i])
    BY <1>2, <2>1
  <2> QED
    BY <2>2 DEF Others
<1>6. Nested'
  <2>1. Top.kind \notin NeedsOpen /\ Edits(blocks, blocks', C, S)
    BY DEF BodyKinds, NeedsOpen, Effect
  <2> QED
    BY <1>1, <2>1, NestedSame
<1>7. Owned'
  BY <1>1, <1>4, <1>5, OwnedStep
<1>8. LabelsOwned'
  <2>1. \A i \in DOMAIN open' : Held(open'[i]) = Held(open[i])
    BY FieldsSame
  <2>2. \A m \in Label : labels'[m] # NoBlock =>
           \/ labels'[m] = labels[m] /\ labels[m] \notin S
           \/ /\ labels'[m] \in Ids(blocks') /\ ~blocks'[labels'[m]].sealed
              /\ \A i \in DOMAIN open' : labels'[m] \notin Held(open'[i])
    BY <1>2, <1>3, <2>1
  <2>3. \A k, m \in Label : labels'[k] = labels'[m] /\ labels'[k] # NoBlock => k = m
    BY <1>1, <1>2, <1>3 DEF LabelsOwned
  <2> QED
    BY <1>1, <1>4, <1>5, <2>2, <2>3, LabelsStep
<1> QED
  BY <1>2, <1>3, <1>6, <1>7, <1>8 DEF Named

-----------------------------------------------------------------------------
(* Expressions that branch. *)

LEMMA BeginShortStep ==
  ASSUME IInv, BeginShort
  PROVE  IInv' /\ Kept
<1> DEFINE rhs == Len(blocks) + 1
           join == Len(blocks) + 2
           g0 == WithBlocks(blocks, 2)
           f == [Frame EXCEPT !.kind = "short", !.end = join]
<1>1. /\ phase = "body" /\ StmtFrame /\ open' = Append(open, f) /\ IsOpen(blocks, cur)
      /\ Top.kind \in BodyKinds \cup {"head", "short"}
      /\ StartBlock(Seal(CondBr(g0, cur, rhs, join), rhs), rhs, count)
  BY DEF BeginShort, InExpr, Live
<1>2. /\ Ids(g0) \ Ids(blocks) = {rhs, join} /\ rhs # join
      /\ join \in Nat \ {NoBlock}
  <2>1. /\ \A b \in Ids(g0) \ Ids(blocks) : b \in Nat \ {NoBlock}
        /\ Ids(g0) \ Ids(blocks) = (Len(blocks) + 1) .. (Len(blocks) + 2)
        /\ Len(blocks) \in Nat
    BY <1>1, NewBlocks
  <2>2. Ids(g0) \ Ids(blocks) = {rhs, join}
    BY <2>1
  <2> QED
    BY <2>1, <2>2
<1>3. 0 \in Nat /\ 0 <= Len(items) /\ count \in 0 .. Len(items)
  BY <1>1, BodyFacts
<1>4. g0 = WithBlocks(blocks, 2) /\ 2 \in Nat
  OBVIOUS
<1> HIDE DEF rhs, join, g0
<1>5. Forked(rhs, {join}) /\ blocks'[join].preds # <<>>
  <2>1. {join} = (Ids(g0) \ Ids(blocks)) \ {rhs}
    BY <1>2
  <2> QED
    BY <1>1, <1>2, <1>4, <2>1, ForkEffect
<1>6. /\ f \in FrameType /\ f.mark <= Len(items) /\ Shape(f) /\ f.kind = "short"
      /\ Held(f) = {join} /\ Awaits(f) = {join} /\ f.end = join
  BY <1>2, <1>3 DEF Frame, FrameType, Shape, Held, Awaits, NoBlock
<1>7. Top.kind # "array" /\ Top.kind # "switch"
  BY <1>1 DEF BodyKinds
<1> HIDE DEF f
<1>8. /\ Effect({cur}, {}, {join}) /\ cur' = rhs /\ cur' \notin Ids(blocks)
      /\ count' \in 0 .. Len(items) /\ Live' /\ IsOpen(blocks', join)
  BY <1>3, <1>5 DEF Forked, AllOpen
<1> QED
  BY <1>1, <1>2, <1>5, <1>6, <1>7, <1>8, PushStep

LEMMA EndShortStep ==
  ASSUME IInv, EndShort
  PROVE  IInv' /\ Kept
<1> DEFINE g == Br(blocks, cur, Top.end)
<1>1. phase = "body" /\ StmtFrame /\ open' = Pop /\ Top.kind = "short"
  BY DEF EndShort
<1>2. /\ Consistent(blocks) /\ cur \in Ids(blocks) /\ IsOpen(blocks, cur)
      /\ \A b \in Held(Top) : b \in Ids(blocks) /\ ~blocks[b].sealed
      /\ Shape(Top)
  BY <1>1, BodyFacts DEF NeedsOpen
<1>3. Held(Top) = {Top.end} /\ Top.end \in Ids(blocks) /\ ~blocks[Top.end].sealed
  <2>1. /\ Top.begin = NoBlock /\ Top.step = NoBlock /\ Top.alt = NoBlock
        /\ Top.end # NoBlock
    BY <1>1, <1>2 DEF Shape
  <2> QED
    BY <1>2, <2>1 DEF Held
<1>4. StartBlock(CloseUnreached(Seal(g, Top.end), Top.end), Top.end, count)
  BY <1>2 DEF EndShort, Live
<1>5. Made(blocks, g, {cur}, {}, {})
  BY <1>2, <1>3, MadeNothing, MadeBr
<1> HIDE DEF g
<1> QED
  BY <1>1, <1>3, <1>4, <1>5, JoinStep

LEMMA BoundsCheckStep ==
  ASSUME IInv, BoundsCheck
  PROVE  IInv' /\ Kept
<1> DEFINE fail == Len(blocks) + 1
           ok == Len(blocks) + 2
           g0 == WithBlocks(blocks, 2)
           g1 == CondBr(g0, cur, fail, ok)
           g2 == Seal(g1, fail)
           g3 == Unreachable(g2, fail)
           g4 == Seal(g3, ok)
<1>1. /\ phase = "body" /\ StmtFrame /\ open' = open /\ IsOpen(blocks, cur)
      /\ StartBlock(g4, ok, count)
  BY DEF BoundsCheck, InExpr, Live
<1>2. /\ Consistent(g0) /\ cur \in Ids(g0) /\ cur \in Ids(blocks) /\ IsOpen(g0, cur)
      /\ Ids(blocks) \subseteq Ids(g0)
      /\ \A b \in Ids(g0) \ Ids(blocks) : IsOpen(g0, b) /\ ~g0[b].sealed /\ b # cur
      /\ Ids(g0) \ Ids(blocks) = (Len(blocks) + 1) .. (Len(blocks) + 2)
      /\ Len(blocks) \in Nat
  BY <1>1, NewBlocks
<1>3. Ids(g0) \ Ids(blocks) = {fail, ok} /\ fail # ok
  BY <1>2
<1>4. TypeOK /\ count \in 0 .. Len(items)
  BY <1>1, BodyFacts
<1> HIDE DEF g0, fail, ok
<1>5. Made(g0, g0, {}, {}, {}) /\ {} \subseteq Ids(g0)
  BY <1>2, MadeNothing
<1>6. Made(g0, g1, {cur}, {}, {}) /\ {cur} \subseteq Ids(g0)
  BY <1>2, <1>3, <1>5, MadeCondBr
<1> HIDE DEF g1
<1>7. Made(g0, g2, {cur}, {fail}, {})
  BY <1>3, <1>6, MadeSeal
<1> HIDE DEF g2
<1>8. Made(g0, g3, {cur, fail}, {fail}, {}) /\ {cur, fail} \subseteq Ids(g0)
  <2>1. fail \in Ids(g0) /\ IsOpen(g0, fail) /\ fail \notin {cur}
    BY <1>2, <1>3
  <2>2. {cur, fail} = {cur} \cup {fail}
    OBVIOUS
  <2>3. g3 \in {Ret(g2, fail), Unreachable(g2, fail)}
    OBVIOUS
  <2> HIDE DEF g3
  <2> QED
    BY <1>6, <1>7, <2>1, <2>2, <2>3, MadeLeaf
<1> HIDE DEF g3
<1>9. Made(g0, g4, {cur, fail}, {fail, ok}, {})
  BY <1>3, <1>8, MadeSeal
<1> HIDE DEF g4
<1>10. /\ Finished(g0, {cur, fail}, {fail, ok}, {ok}) /\ cur' = ok /\ count' = count
       /\ Live'
  <2>1. ok \in Ids(g0) /\ IsOpen(g0, ok) /\ ok \notin {cur, fail} /\ {ok} = {} \cup {ok}
    BY <1>2, <1>3
  <2> QED
    BY <1>1, <1>4, <1>8, <1>9, <2>1, MadeStart
<1>11. Effect({cur}, {}, {})
  <2>1. /\ {cur} = {cur, fail} \cap Ids(blocks)
        /\ ({fail, ok} \cup {ok}) \cap Ids(blocks) \subseteq {}
        /\ \A b \in Ids(g0) \ Ids(blocks) : b \in {} \/ b \in {cur, fail} \/ b = cur'
        /\ {} \subseteq Ids(g0) \ Ids(blocks) /\ {} \cap {fail, ok} = {}
    BY <1>2, <1>3, <1>10
  <2> QED
    BY <1>4, <1>10, <2>1, FinishedEffect DEF g0
<1>12. cur' \notin Ids(blocks)
  BY <1>3, <1>10
<1> QED
  BY <1>1, <1>4, <1>10, <1>11, <1>12, KeepStep

LEMMA BeginArrayStep ==
  ASSUME IInv, BeginArray
  PROVE  IInv' /\ Kept
<1> DEFINE begin == Len(blocks) + 1
           body == Len(blocks) + 2
           end == Len(blocks) + 3
           g0 == WithBlocks(blocks, 3)
           f == [Frame EXCEPT !.kind = "array", !.begin = begin, !.end = end]
<1>1. /\ phase = "body" /\ StmtFrame /\ open' = Append(open, f) /\ IsOpen(blocks, cur)
      /\ StartBlock(WithLoopHead(g0, begin, body, end), body, count)
      /\ Top.kind \in BodyKinds \cup {"array"}
  BY DEF BeginArray, Live
<1>2. /\ Len(blocks) \in Nat
      /\ Ids(g0) \ Ids(blocks) = (Len(blocks) + 1) .. (Len(blocks) + 3)
      /\ \A b \in Ids(g0) \ Ids(blocks) : b \in Nat \ {NoBlock}
  BY <1>1, NewBlocks
<1>3. /\ Ids(g0) \ Ids(blocks) = {begin, body, end}
      /\ begin # body /\ begin # end /\ body # end
  BY <1>2
<1>4. 0 \in Nat /\ 0 <= Len(items)
  BY <1>1, BodyFacts
<1> HIDE DEF begin, body, end, g0
<1>5. {begin, end} = (Ids(g0) \ Ids(blocks)) \ {body}
  BY <1>3
<1>6. /\ Effect({cur}, {}, {begin, end}) /\ cur' = body /\ cur' \notin Ids(blocks)
      /\ count' \in 0 .. Len(items) /\ Live'
      /\ ~IsOpen(blocks', begin) /\ AllOpen(blocks', {begin, end} \ {begin})
  <2>1. g0 = WithBlocks(blocks, 3) /\ 3 \in Nat
    BY DEF g0
  <2>2. {begin, body, end} \subseteq Ids(g0) \ Ids(blocks)
    BY <1>3
  <2> DEFINE new == {begin, end}
  <2>3. new = (Ids(g0) \ Ids(blocks)) \ {body}
    BY <1>5
  <2> HIDE DEF new
  <2>4. /\ Effect({cur}, {}, new) /\ cur' = body /\ cur' \notin Ids(blocks)
        /\ count' \in 0 .. Len(items) /\ Live'
        /\ ~IsOpen(blocks', begin) /\ AllOpen(blocks', new \ {begin})
    BY <1>1, <1>3, <2>1, <2>2, <2>3, LoopEffect
  <2> QED
    BY <2>4 DEF new
<1>7. /\ f \in FrameType /\ f.mark <= Len(items) /\ Shape(f) /\ f.kind = "array"
      /\ Held(f) = {begin, end} /\ Awaits(f) = {end}
  BY <1>2, <1>3, <1>4 DEF Frame, FrameType, Shape, Held, Awaits, NoBlock
<1>8. Top.kind \notin {"head", "short", "switch"}
  BY <1>1 DEF BodyKinds
<1> HIDE DEF f
<1>9. \A b \in {begin, end} : IsOpen(blocks', b) => b = cur' \/ b \in Awaits(f)
  BY <1>6, <1>7
<1>10. \A b \in Awaits(f) : IsOpen(blocks', b) /\ b # cur'
  BY <1>3, <1>6, <1>7 DEF AllOpen
<1> QED
  BY <1>1, <1>6, <1>7, <1>8, <1>9, <1>10, PushStep

LEMMA EndArrayStep ==
  ASSUME IInv, EndArray
  PROVE  IInv' /\ Kept
<1> DEFINE begin == Top.begin
           end == Top.end
           g1 == Br(blocks, cur, begin)
           g2 == SealAll(g1, {begin, end})
<1>1. /\ phase = "body" /\ StmtFrame /\ open' = Pop /\ Top.kind = "array"
      /\ StartBlock(g2, end, count)
  BY DEF EndArray
<1>2. /\ TypeOK /\ Consistent(blocks) /\ cur \in Ids(blocks) /\ IsOpen(blocks, cur)
      /\ count \in 0 .. Len(items) /\ Shape(Top)
      /\ \A b \in Held(Top) : b \in Ids(blocks) /\ ~blocks[b].sealed
      /\ \A b \in Awaits(Top) : IsOpen(blocks, b) /\ b # cur
  BY <1>1, BodyFacts DEF NeedsOpen
<1>3. /\ Held(Top) = {begin, end} /\ Awaits(Top) = {end}
  <2>1. /\ Top.step = NoBlock /\ Top.alt = NoBlock /\ Top.begin # NoBlock
        /\ Top.end # NoBlock /\ Top.end # Top.begin
    BY <1>1, <1>2 DEF Shape
  <2> QED
    BY <2>1 DEF Held, Awaits
<1>4. /\ begin \in Ids(blocks) /\ ~blocks[begin].sealed
      /\ end \in Ids(blocks) /\ IsOpen(blocks, end) /\ end # cur
  BY <1>2, <1>3
<1> HIDE DEF begin, end
<1>5. Made(blocks, g1, {cur}, {}, {}) /\ {cur} \subseteq Ids(blocks)
  BY <1>2, <1>4, MadeNothing, MadeBr
<1> HIDE DEF g1
<1>6. Made(blocks, g2, {cur}, {begin, end}, {})
  BY <1>5, MadeSealAll
<1> HIDE DEF g2
<1>7. /\ Finished(blocks, {cur}, {begin, end}, {end}) /\ cur' = end /\ count' = count
      /\ Live'
  <2>1. end \notin {cur} /\ {end} = {} \cup {end}
    BY <1>4
  <2> QED
    BY <1>1, <1>2, <1>4, <1>5, <1>6, <2>1, MadeStart
<1>8. Effect({cur}, {begin, end}, {})
  BY <1>2, <1>7, OldBlocksEffect
<1> QED
  BY <1>1, <1>2, <1>3, <1>7, <1>8, PopStep

-----------------------------------------------------------------------------
(* Statements after which control does not come back, and defer. *)

LEMMA NoReturnCallStep ==
  ASSUME IInv, NoReturnCall
  PROVE  IInv' /\ Kept
<1> DEFINE g == RunDefers(blocks, 0)
           h == Unreachable(g, cur)
<1>1. Stmt("exit") /\ StartDeadBlock(h, 0) /\ open' = open /\ StmtFrame
  BY DEF NoReturnCall
<1>2. Made(blocks, g, {}, {}, {})
  BY <1>1, StmtFacts
<1>3. h \in {Ret(g, cur), Unreachable(g, cur)}
  OBVIOUS
<1> HIDE DEF g, h
<1>4. Made(blocks, h, {cur}, {}, {})
  BY <1>1, <1>2, <1>3, StmtFacts, MadeLeaf
<1> QED
  BY <1>1, <1>4, StmtFacts, LeaveStep

LEMMA ReturnStep ==
  ASSUME IInv, Return
  PROVE  IInv' /\ Kept
<1> DEFINE g == RunDefers(blocks, 0)
           h == Ret(g, cur)
<1>1. Stmt("return") /\ StartDeadBlock(h, 0) /\ open' = Branched /\ StmtFrame
  BY DEF Return
<1>2. Made(blocks, g, {}, {}, {})
  BY <1>1, StmtFacts
<1>3. h \in {Ret(g, cur), Unreachable(g, cur)}
  OBVIOUS
<1> HIDE DEF g, h
<1>4. Made(blocks, h, {cur}, {}, {})
  BY <1>1, <1>2, <1>3, StmtFacts, MadeLeaf
<1> QED
  BY <1>1, <1>4, StmtFacts, LeaveStep

LEMMA LoopExitStep ==
  ASSUME IInv, Stmt("loopexit"), Loops # {}, NEW to \in {Loop.end, Loop.step},
         LeaveLoop(to), open' = Branched, StmtFrame
  PROVE  IInv' /\ Kept
<1> DEFINE g == RunDefers(blocks, Loop.mark)
           h == Br(g, cur, to)
<1>1. /\ Loop.mark \in 0 .. Len(items) /\ Loop.mark \in Nat
      /\ to \in Ids(blocks) /\ ~blocks[to].sealed
  BY StmtFacts, LoopFacts
<1>2. StartDeadBlock(h, Loop.mark)
  BY DEF LeaveLoop
<1>3. Made(blocks, g, {}, {}, {})
  BY <1>1, StmtFacts
<1> HIDE DEF g
<1>4. Made(blocks, h, {cur}, {}, {})
  BY <1>1, <1>3, StmtFacts, MadeBr
<1> HIDE DEF h
<1> QED
  BY <1>1, <1>2, <1>4, StmtFacts, LeaveStep

LEMMA BreakStep ==
  ASSUME IInv, Break \/ Continue
  PROVE  IInv' /\ Kept
  BY LoopExitStep DEF Break, Continue

\* The function is refused: nobody asks any more where the block leads.
LEMMA LoopExitOutsideLoopStep ==
  ASSUME IInv, LoopExitOutsideLoop
  PROVE  IInv' /\ Kept
<1>1. /\ Stmt("loopexit") /\ errors' = TRUE /\ open' = Branched
      /\ UNCHANGED <<blocks, cur, items, count, labels, declared, depthOf, phase>>
  BY DEF LoopExitOutsideLoop
<1>2. /\ phase = "body" /\ TypeOK /\ Nested /\ Owned /\ LabelsOwned /\ Accounted
      /\ Consistent(blocks) /\ Top.kind \in BodyKinds
  BY <1>1, StmtFacts, BodyFacts
<1>3. /\ Edits(blocks, blocks', {}, {}) /\ Len(blocks') = Len(blocks)
      /\ open' \in {open, Branched}
  BY <1>1, <1>2, EditsNothing
<1>4. Consistent(blocks')
  BY <1>1, <1>2
<1>5. /\ Nested' /\ Owned' /\ LabelsOwned' /\ Accounted'
      /\ open' \in Seq(FrameType) /\ Len(open') >= 1
      /\ \A i \in DOMAIN open' : open'[i].mark <= Len(items)
      /\ cur' \in Ids(blocks')
  BY <1>1, <1>2, <1>3, <1>4, StackKept
<1>6. TypeOK'
  BY <1>1, <1>2, <1>4, <1>5 DEF TypeOK
<1>7. Kept
  BY <1>1 DEF Kept
<1> QED
  BY <1>1, <1>2, <1>5, <1>6, <1>7 DEF IInv, InBodyInv

LEMMA DeferStep ==
  ASSUME IInv, Defer
  PROVE  IInv' /\ Kept
<1> DEFINE d == Len(depthOf) + 1
           p == Append(blocks[cur].pend, d)
<1>1. /\ Stmt("defer") /\ items' = StoreDefer(items, count, d) /\ count' = count + 1
      /\ depthOf' = Append(depthOf, Depth)
      /\ open' = open /\ cur' = cur /\ labels' = labels /\ declared' = declared
      /\ errors' = errors /\ phase' = phase
      /\ blocks' = [blocks EXCEPT ![cur].pend = Append(@, d)]
  BY DEF Defer
<1>2. /\ phase = "body" /\ TypeOK /\ Nested /\ Owned /\ LabelsOwned /\ Accounted
      /\ Consistent(blocks) /\ cur \in Ids(blocks)
      /\ count \in 0 .. Len(items) /\ Len(items) \in Nat
      /\ items \in Seq(Nat) /\ depthOf \in Seq(Nat) /\ labels \in [Label -> Nat]
      /\ declared \subseteq Label
  <2>1. phase = "body" /\ IInv
    BY <1>1, StmtFacts
  <2>2. /\ TypeOK /\ Nested /\ Owned /\ LabelsOwned /\ Accounted
        /\ Consistent(blocks) /\ cur \in Ids(blocks)
    BY <2>1, BodyFacts
  <2> QED
    BY <2>1, <2>2 DEF TypeOK
<1>3. d \in Nat /\ p \in Seq(Nat)
  <2>1. blocks[cur] \in Block
    BY <1>2, GraphFacts
  <2>2. blocks[cur].pend \in Seq(Nat)
    BY <2>1 DEF Block
  <2> QED
    BY <1>2, <2>2
<1>4. blocks' = [blocks EXCEPT ![cur].pend = p]
  BY <1>1
<1> HIDE DEF p, d
<1>5. /\ Edits(blocks, blocks', {}, {}) /\ Len(blocks') = Len(blocks)
      /\ open' \in {open, Branched}
  <2> DEFINE h == [blocks EXCEPT ![cur].pend = p]
  <2>1. Edits(blocks, h, {}, {}) /\ Len(h) = Len(blocks)
    BY <1>2, <1>3, PendEdits
  <2>2. h = blocks'
    BY <1>4
  <2> HIDE DEF h
  <2> QED
    BY <1>1, <2>1, <2>2
<1>6. /\ Nested' /\ Owned' /\ LabelsOwned' /\ Accounted'
      /\ open' \in Seq(FrameType) /\ Len(open') >= 1
      /\ \A i \in DOMAIN open' : open'[i].mark <= Len(items)
      /\ cur' \in Ids(blocks')
  BY <1>1, <1>2, <1>5, StackKept
<1>7. /\ items' \in Seq(Nat) /\ count' \in 0 .. Len(items') /\ Len(items) <= Len(items')
      /\ Len(items') \in Nat
  <2>1. CASE count < Len(items)
    <3>1. items' = [items EXCEPT ![count + 1] = d]
      BY <1>1, <2>1 DEF StoreDefer
    <3>2. \A s \in Seq(Nat) : \A i \in 1 .. Len(s) :
            [s EXCEPT ![i] = d] \in Seq(Nat) /\ Len([s EXCEPT ![i] = d]) = Len(s)
      BY <1>3
    <3>3. count + 1 \in 1 .. Len(items)
      BY <1>2, <2>1
    <3>4. items' \in Seq(Nat) /\ Len(items') = Len(items)
      BY <1>2, <3>1, <3>2, <3>3
    <3> QED
      BY <1>1, <1>2, <2>1, <3>4
  <2>2. CASE count = Len(items)
    <3>1. items' = Append(items, d)
      BY <1>1, <1>2, <2>2 DEF StoreDefer
    <3>2. items' \in Seq(Nat) /\ Len(items') = Len(items) + 1
      BY <1>2, <1>3, <3>1
    <3> QED
      BY <1>1, <1>2, <2>2, <3>2
  <2> QED
    BY <1>2, <2>1, <2>2
<1>8. depthOf' \in Seq(Nat)
  <2> DEFINE D == DOMAIN open
  <2>1. IsFiniteSet(D)
    <3>1. D = 1 .. Len(open) /\ 1 \in Int /\ Len(open) \in Int
      BY <1>2, OpenFacts
    <3> QED
      BY <3>1, FS_Interval
  <2>2. Depth \in Nat
    BY <2>1, FS_Subset, FS_CardinalityType DEF Depth
  <2> QED
    BY <1>1, <1>2, <2>2
<1>9. \A i \in DOMAIN open' : open'[i].mark <= Len(items')
  <2>1. \A i \in DOMAIN open' : open'[i] \in FrameType
    BY <1>6
  <2>2. \A i \in DOMAIN open' : open'[i].mark \in Nat
    BY <2>1 DEF FrameType
  <2> QED
    BY <1>2, <1>6, <1>7, <2>2
<1>10. TypeOK'
  BY <1>1, <1>2, <1>5, <1>6, <1>7, <1>8, <1>9, EditsBounds DEF TypeOK
<1>11. Kept
  BY <1>5, EditsKept
<1> QED
  BY <1>1, <1>2, <1>6, <1>10, <1>11 DEF IInv, InBodyInv

-----------------------------------------------------------------------------
(* Labels and goto. *)

LEMMA PlaceLabelStep ==
  ASSUME IInv, NEW l \in Label, PlaceLabel(l)
  PROVE  IInv' /\ Kept
<1> DEFINE b == LabelBlock(l)
           g0 == WithLabelBlock(l)
           g1 == IF Live THEN Br(g0, cur, b) ELSE g0
           f == [Top EXCEPT !.tight = @ \cup {l}]
<1>1. /\ phase = "body" /\ Top.kind \in BodyKinds
      /\ StartBlock(g1, b, count) /\ labels' = [labels EXCEPT ![l] = b]
      /\ declared' = declared \cup {l} /\ open' = Swap(f)
      /\ items' = items /\ depthOf' = depthOf /\ errors' = errors /\ phase' = phase
  BY DEF PlaceLabel, InBody
<1>2. /\ TypeOK /\ Accounted /\ cur \in Ids(blocks) /\ Consistent(blocks)
      /\ count \in 0 .. Len(items) /\ Top \in FrameType
      /\ Len(open) \in DOMAIN open /\ Top = open[Len(open)] /\ Len(open) >= 1
  BY <1>1, BodyFacts, OpenFacts DEF TypeOK
<1>3. /\ Consistent(g0) /\ cur \in Ids(g0) /\ Ids(blocks) \subseteq Ids(g0)
      /\ Live => IsOpen(g0, cur)
      /\ b \in Ids(g0) /\ ~g0[b].sealed
      /\ Ids(g0) \ Ids(blocks) \subseteq {b}
      /\ b \in Ids(blocks) => labels[l] = b
  BY <1>1, LabelFacts
<1>4. PICK n \in Nat : g0 = WithBlocks(blocks, n)
  BY <1>1, LabelFacts
<1>5. /\ open' \in Seq(FrameType) /\ Len(open') = Len(open) /\ DOMAIN open' = DOMAIN open
      /\ \A i \in DOMAIN open : Like(open'[i], open[i])
  <2>1. f \in FrameType /\ Like(f, Top)
    BY <1>2 DEF FrameType, Like
  <2> HIDE DEF f
  <2>2. /\ open' \in Seq(FrameType) /\ Len(open') = Len(open)
        /\ DOMAIN open' = DOMAIN open /\ open'[Len(open)] = f
        /\ \A i \in DOMAIN open : i # Len(open) => open'[i] = open[i]
    BY <1>1, <1>2, <2>1, SwapFacts
  <2> QED
    BY <1>2, <2>1, <2>2 DEF Like
<1> HIDE DEF g0, f
<1>6. Made(g0, g0, {}, {}, {}) /\ {} \subseteq Ids(g0) /\ {cur} \subseteq Ids(g0)
  BY <1>3, MadeNothing
<1>7. PICK C : C \subseteq {cur} /\ Made(g0, g1, C, {}, {}) /\ (Live => C = {cur})
  <2>1. CASE Live
    <3>1. Made(g0, Br(g0, cur, b), {cur}, {}, {})
      BY <1>3, <1>6, <2>1, MadeBr
    <3> QED
      BY <2>1, <3>1
  <2>2. CASE ~Live
    <3>1. Made(g0, g1, {}, {}, {})
      BY <1>6, <2>2
    <3> QED
      BY <2>2, <3>1
  <2> QED
    BY <2>1, <2>2
<1> HIDE DEF g1
<1>8. Finished(g0, C, {}, {b}) /\ cur' = b /\ count' = count
  <2>1. C \subseteq Ids(g0) /\ {b} = {} \cup {b}
    BY <1>6, <1>7
  <2> HIDE DEF b
  <2> QED
    BY <1>1, <1>2, <1>3, <1>7, <2>1, MadeStart
<1> HIDE DEF b
<1>9. /\ Effect(C, {b}, {}) /\ Ids(blocks') = Ids(g0) /\ Consistent(blocks')
  <2>1. PICK S : S = {b}
    OBVIOUS
  <2>2. PICK none : none = {}
    OBVIOUS
  <2>3. /\ C = C \cap Ids(blocks) /\ (none \cup S) \cap Ids(blocks) \subseteq S
        /\ none \subseteq Ids(g0) \ Ids(blocks) /\ none \cap none = {}
        /\ \A x \in Ids(g0) \ Ids(blocks) : x \in none \/ x \in C \/ x = cur'
        /\ Finished(g0, C, none, S)
    BY <1>2, <1>3, <1>7, <1>8, <2>1, <2>2
  <2>4. Effect(C, S, none) /\ Ids(blocks') = Ids(g0) /\ Consistent(blocks')
    BY <1>2, <1>4, <2>3, FinishedEffect
  <2> QED
    BY <2>1, <2>2, <2>4
<1>10. /\ ~blocks'[b].sealed /\ b \in Ids(blocks') /\ C \subseteq {cur}
       /\ {b} \subseteq {b} /\ {} \subseteq {b} /\ b = LabelBlock(l)
  BY <1>3, <1>7, <1>8, <1>9 DEF Finished, b
<1>11. /\ Nested' /\ Owned' /\ LabelsOwned'
       /\ labels' \in [Label -> Nat] /\ labels'[l] = b
       /\ \A m \in Label : m # l => labels'[m] = labels[m] /\ labels[m] # b
  <2>1. Named(C, {b}, {}, l, b)
    BY <1>1, <1>5, <1>8, <1>9, <1>10, NamedStep
  <2> QED
    BY <2>1 DEF Named
<1>12. /\ Edits(blocks, blocks', C, {b})
       /\ \A x \in Ids(blocks) : x # b => blocks'[x].lowered = blocks[x].lowered
  BY <1>9, EditsKeep DEF Effect
<1>13. Accounted'
  <2>1. \A x \in Label \ declared' : labels'[x] # NoBlock => ~blocks'[labels'[x]].lowered
    <3>1. \A x \in Label : labels[x] # NoBlock => labels[x] \in Ids(blocks)
      BY <1>1, BodyFacts DEF LabelsOwned
    <3> QED
      BY <1>1, <1>2, <1>11, <1>12, <3>1 DEF Accounted
  <2>2. ASSUME ~errors', NEW x \in Ids(blocks'), IsOpen(blocks', x), x # cur'
        PROVE  \/ \E i \in DOMAIN open' : x \in Awaits(open'[i])
               \/ \E m \in Label : labels'[m] = x /\ (m \notin declared' \/ ~blocks'[x].lowered)
    <3>1. x \in Ids(blocks) /\ x # b
      BY <1>3, <1>8, <1>9, <2>2
    <3>2. x # cur
      BY <1>2, <1>7, <1>8, <1>12, <2>2, <3>1, EditsKeep DEF Finished, Live
    <3>3. IsOpen(blocks, x)
      BY <1>7, <1>12, <2>2, <3>1, <3>2, EditsKeep
    <3>4. \/ \E i \in DOMAIN open : x \in Awaits(open[i])
          \/ \E m \in Label : labels[m] = x /\ (m \notin declared \/ ~blocks[x].lowered)
      BY <1>1, <1>2, <2>2, <3>1, <3>2, <3>3 DEF Accounted
    <3>5. CASE \E i \in DOMAIN open : x \in Awaits(open[i])
      BY <1>5, <3>5, FieldsSame
    <3>6. CASE \E m \in Label : labels[m] = x /\ (m \notin declared \/ ~blocks[x].lowered)
      <4>1. PICK m \in Label : labels[m] = x /\ (m \notin declared \/ ~blocks[x].lowered)
        BY <3>6
      <4>2. m # l
        <5>1. x \in Nat \ {NoBlock}
          BY <3>1 DEF Ids, NoBlock
        <5>2. labels[l] # NoBlock => labels[l] = b
          BY <1>1, LabelFacts DEF b
        <5> QED
          BY <3>1, <4>1, <5>1, <5>2
      <4> QED
        BY <1>1, <1>11, <1>12, <3>1, <4>1, <4>2
    <3> QED
      BY <3>4, <3>5, <3>6
  <2> QED
    BY <2>1, <2>2 DEF Accounted
<1>14. \A i \in DOMAIN open' : open'[i].mark <= Len(items)
  BY <1>2, <1>5 DEF TypeOK, Like
<1>15. TypeOK'
  BY <1>1, <1>2, <1>5, <1>8, <1>9, <1>11, <1>14 DEF TypeOK, Effect
<1>16. Kept
  BY <1>9, EffectKeeps
<1> QED
  BY <1>1, <1>11, <1>13, <1>15, <1>16 DEF IInv, InBodyInv

LEMMA GotoStep ==
  ASSUME IInv, NEW l \in Label, Goto(l)
  PROVE  IInv' /\ Kept
<1> DEFINE b == LabelBlock(l)
           g0 == WithLabelBlock(l)
           g1 == RunDefers(g0, 0)
           g2 == Br(g1, cur, b)
           new == Ids(g0) \ Ids(blocks)
<1>1. /\ Stmt("jump") /\ StartDeadBlock(g2, 0) /\ labels' = [labels EXCEPT ![l] = b]
      /\ declared' = declared /\ open' = open
      /\ items' = items /\ depthOf' = depthOf /\ errors' = errors /\ phase' = phase
  BY DEF Goto
<1>2. /\ phase = "body" /\ Top.kind \in BodyKinds /\ TypeOK /\ Accounted /\ Live
      /\ cur \in Ids(blocks) /\ 0 \in 0 .. Len(items) /\ 0 \in Nat /\ Len(open) >= 1
      /\ open \in Seq(FrameType)
  BY <1>1, StmtFacts, BodyFacts DEF TypeOK, Live
<1>3. /\ Consistent(g0) /\ cur \in Ids(g0) /\ Ids(blocks) \subseteq Ids(g0)
      /\ IsOpen(g0, cur)
      /\ b \in Ids(g0) /\ ~g0[b].sealed
      /\ Ids(g0) \ Ids(blocks) \subseteq {b}
      /\ b \in Ids(blocks) => labels[l] = b
      /\ b \in Nat \ {NoBlock}
      /\ labels[l] # NoBlock => labels[l] = b /\ g0 = blocks
  BY <1>2, LabelFacts
<1>4. PICK n \in Nat : g0 = WithBlocks(blocks, n)
  BY <1>2, LabelFacts
<1> HIDE DEF g0, b
<1>5. Made(g0, g0, {}, {}, {}) /\ {} \subseteq Ids(g0)
  BY <1>3, MadeNothing
<1>6. Made(g0, g1, {}, {}, {})
  BY <1>2, <1>3, <1>5, MadeRun
<1> HIDE DEF g1
<1>7. Made(g0, g2, {cur}, {}, {})
  BY <1>3, <1>5, <1>6, MadeBr
<1> HIDE DEF g2
<1>8. /\ Effect({cur}, {} \cup {}, new)
      /\ cur' \notin Ids(blocks) /\ cur' \notin new /\ count' = 0
      /\ ~IsOpen(blocks', cur') /\ Consistent(blocks')
      /\ \A x \in new : IsOpen(blocks', x) /\ ~blocks'[x].lowered
  <2>1. {cur} \subseteq Ids(blocks) /\ {} \cup {} \subseteq Ids(blocks)
    BY <1>2
  <2>2. new = Ids(g0) \ Ids(blocks)
    OBVIOUS
  <2> HIDE DEF new
  <2> QED
    <3>1. Died({cur}, {} \cup {}, new, 0)
      BY <1>1, <1>2, <1>4, <1>7, <2>1, <2>2, DeadEffect
    <3> QED
      BY <3>1 DEF Died
<1>9. /\ Edits(blocks, blocks', {cur}, {}) /\ Effect({cur}, {}, new)
      /\ \A x \in Ids(blocks) : /\ x \in Ids(blocks')
                                /\ blocks'[x].lowered = blocks[x].lowered
                                /\ ~blocks[x].sealed => ~blocks'[x].sealed
                                /\ ~IsOpen(blocks, x) => ~IsOpen(blocks', x)
  <2>1. {} \cup {} = {}
    OBVIOUS
  <2>2. Effect({cur}, {}, new)
    BY <1>8, <2>1
  <2> QED
    BY <2>2, EditsKeep DEF Effect
<1>10. /\ b \in Ids(blocks') /\ ~blocks'[b].sealed /\ new \subseteq {b}
       /\ {} \subseteq {b} /\ {cur} \subseteq {cur} /\ b = LabelBlock(l)
  <2>1. CASE b \in new
    BY <1>3, <1>9, <2>1 DEF Effect, b
  <2>2. CASE b \notin new
    <3>1. b \in Ids(blocks) /\ labels[l] = b
      BY <1>3, <2>2
    <3>2. g0 = blocks
      BY <1>3, <3>1
    <3> QED
      BY <1>3, <1>9, <3>1, <3>2 DEF b
  <2> QED
    BY <2>1, <2>2
<1>11. /\ open' \in Seq(FrameType) /\ Len(open') = Len(open) /\ DOMAIN open' = DOMAIN open
       /\ \A i \in DOMAIN open : Like(open'[i], open[i])
  BY <1>1, <1>2 DEF Like
<1>12. /\ Nested' /\ Owned' /\ LabelsOwned'
       /\ labels' \in [Label -> Nat] /\ labels'[l] = b
       /\ \A m \in Label : m # l => labels'[m] = labels[m] /\ labels[m] # b
  <2>1. Named({cur}, {}, new, l, b)
    BY <1>1, <1>2, <1>8, <1>9, <1>10, <1>11, NamedStep
  <2> QED
    BY <2>1 DEF Named
<1>13. Accounted'
  <2>1. \A x \in Label \ declared' : labels'[x] # NoBlock => ~blocks'[labels'[x]].lowered
    <3>1. \A x \in Label : labels[x] # NoBlock => labels[x] \in Ids(blocks)
      BY <1>2, BodyFacts DEF LabelsOwned
    <3>2. \A x \in Label \ declared : labels[x] # NoBlock => ~blocks[labels[x]].lowered
      BY <1>2 DEF Accounted
    <3>3. \A x \in Label \ declared : x # l /\ labels[x] # NoBlock =>
            ~blocks'[labels'[x]].lowered
      BY <1>9, <1>12, <3>1, <3>2
    <3>4. l \notin declared => ~blocks'[b].lowered
      BY <1>3, <1>8, <1>9, <3>2
    <3> QED
      BY <1>1, <1>12, <3>3, <3>4
  <2>2. ASSUME ~errors', NEW x \in Ids(blocks'), IsOpen(blocks', x), x # cur'
        PROVE  \/ \E i \in DOMAIN open' : x \in Awaits(open'[i])
               \/ \E m \in Label : labels'[m] = x /\ (m \notin declared' \/ ~blocks'[x].lowered)
    <3>1. CASE x \notin Ids(blocks)
      <4>1. x \in new
        BY <1>9, <2>2, <3>1 DEF Effect
      <4> QED
        BY <1>8, <1>10, <1>12, <4>1
    <3>2. CASE x \in Ids(blocks)
      <4>1. x # cur
        BY <1>9, <2>2 DEF Effect
      <4>2. IsOpen(blocks, x)
        BY <1>9, <2>2, <3>2
      <4>3. \/ \E i \in DOMAIN open : x \in Awaits(open[i])
            \/ \E m \in Label : labels[m] = x /\ (m \notin declared \/ ~blocks[x].lowered)
        BY <1>1, <1>2, <2>2, <3>2, <4>1, <4>2 DEF Accounted
      <4>4. \A m \in Label : labels[m] = x => labels'[m] = x
        <5>1. x \in Nat \ {NoBlock}
          BY <3>2 DEF Ids, NoBlock
        <5> QED
          BY <1>3, <1>12, <5>1
      <4> QED
        BY <1>1, <1>9, <3>2, <4>3, <4>4
    <3> QED
      BY <3>1, <3>2
  <2> QED
    BY <2>1, <2>2 DEF Accounted
<1>14. TypeOK'
  BY <1>1, <1>2, <1>8, <1>9, <1>12 DEF TypeOK, Effect
<1>15. Kept
  BY <1>9, EffectKeeps
<1> QED
  BY <1>1, <1>2, <1>12, <1>13, <1>14, <1>15 DEF IInv, InBodyInv

\* The label of a construct that is skipped may have been named before.
LEMMA SkipConstructStep ==
  ASSUME IInv, NEW l \in Label, SkipConstruct(l)
  PROVE  IInv' /\ Kept
<1>1. /\ phase = "body" /\ declared' = declared \cup {l} /\ open' = Branched
      /\ UNCHANGED <<blocks, cur, items, count, labels, depthOf, errors, phase>>
      /\ l \notin declared
  BY DEF SkipConstruct, InBody
<1>2. /\ TypeOK /\ Nested /\ Owned /\ LabelsOwned /\ Accounted /\ Consistent(blocks)
  BY <1>1, BodyFacts
<1>3. /\ Edits(blocks, blocks', {}, {}) /\ Len(blocks') = Len(blocks)
      /\ open' \in {open, Branched}
  BY <1>1, <1>2, EditsNothing
<1>4. /\ Nested' /\ Owned' /\ LabelsOwned'
      /\ open' \in Seq(FrameType) /\ Len(open') >= 1
      /\ \A i \in DOMAIN open' : open'[i].mark <= Len(items)
      /\ cur' \in Ids(blocks')
  BY <1>1, <1>2, <1>3, StackKept
<1>5. Accounted'
  <2>1. DOMAIN open' = DOMAIN open /\ \A i \in DOMAIN open : Awaits(open'[i]) = Awaits(open[i])
    BY <1>2, <1>3, BranchedFacts, FieldsSame
  <2>2. \A x \in Label \ declared' : labels'[x] # NoBlock => ~blocks'[labels'[x]].lowered
    BY <1>1, <1>2 DEF Accounted
  <2>3. ASSUME ~errors', NEW x \in Ids(blocks'), IsOpen(blocks', x), x # cur'
        PROVE  \/ \E i \in DOMAIN open' : x \in Awaits(open'[i])
               \/ \E m \in Label : labels'[m] = x /\ (m \notin declared' \/ ~blocks'[x].lowered)
    <3>1. \/ \E i \in DOMAIN open : x \in Awaits(open[i])
          \/ \E m \in Label : labels[m] = x /\ (m \notin declared \/ ~blocks[x].lowered)
      BY <1>1, <1>2, <2>3 DEF Accounted
    <3>2. x # NoBlock
      BY DEF Ids, NoBlock
    <3>3. \A m \in Label : labels[m] = x /\ m \notin declared => ~blocks[x].lowered
      BY <1>2, <3>2 DEF Accounted
    <3> QED
      BY <1>1, <2>1, <3>1, <3>3
  <2> QED
    BY <2>2, <2>3 DEF Accounted
<1>6. TypeOK'
  BY <1>1, <1>2, <1>4 DEF TypeOK
<1>7. Kept
  BY <1>3, EditsKept
<1> QED
  BY <1>1, <1>4, <1>5, <1>6, <1>7 DEF IInv, InBodyInv

-----------------------------------------------------------------------------
(* if. *)

LEMMA BeginIfStep ==
  ASSUME IInv, NEW hasElse \in BOOLEAN, BeginIf(hasElse)
  PROVE  IInv' /\ Kept
<1> DEFINE then == Len(blocks) + 1
           els == IF hasElse THEN Len(blocks) + 2 ELSE NoBlock
           join == Len(blocks) + (IF hasElse THEN 3 ELSE 2)
           other == IF hasElse THEN els ELSE join
           n == join - Len(blocks)
           new == IF hasElse THEN {els, join} ELSE {join}
           g0 == WithBlocks(blocks, n)
           f == [Frame EXCEPT !.kind = "then", !.mark = count, !.end = join, !.alt = els]
<1>1. /\ Stmt("if") /\ StmtFrame /\ open' = Append(Branched, f)
      /\ StartBlock(Seal(CondBr(g0, cur, then, other), then), then, count)
  BY DEF BeginIf, Opens
<1>2. /\ phase = "body" /\ Top.kind \in BodyKinds /\ IsOpen(blocks, cur)
      /\ count \in 0 .. Len(items) /\ Len(items) \in Nat
  BY <1>1, StmtFacts, BodyFacts
<1>3. Len(blocks) \in Nat
  BY <1>2, BodyFacts, GraphFacts
<1>4. /\ n \in Nat /\ then \notin new /\ other \in new /\ join \in new
      /\ (Len(blocks) + 1) .. (Len(blocks) + n) = new \cup {then}
      /\ \A b \in new : b \in Nat \ {NoBlock}
      /\ hasElse => els # join /\ els \in new
      /\ new = {join, els} \ {NoBlock}
  BY <1>3 DEF NoBlock
<1>5. els \in Nat
  BY <1>3 DEF NoBlock
<1>6. ~hasElse => els = NoBlock
  OBVIOUS
<1>7. g0 = WithBlocks(blocks, n)
  OBVIOUS
<1> HIDE DEF then, els, join, other, n, new, g0
<1>8. Ids(g0) \ Ids(blocks) = new \cup {then}
  BY <1>2, <1>4, <1>7, NewBlocks
<1>9. Forked(then, new)
  <2>1. /\ new = (Ids(g0) \ Ids(blocks)) \ {then} /\ then # other
        /\ then \in Ids(g0) \ Ids(blocks) /\ other \in Ids(g0) \ Ids(blocks)
    BY <1>4, <1>8
  <2> QED
    BY <1>1, <1>2, <1>4, <1>7, <2>1, ForkEffect
<1>10. /\ Effect({cur}, {}, new) /\ cur' = then /\ cur' \notin Ids(blocks)
       /\ count' \in 0 .. Len(items) /\ Live'
       /\ \A b \in new : IsOpen(blocks', b) /\ b # cur'
  BY <1>2, <1>4, <1>9 DEF Forked, AllOpen
<1>11. /\ f.kind = "then" /\ f.mark = count /\ f.begin = NoBlock /\ f.step = NoBlock
       /\ f.end = join /\ f.alt = els /\ f \in FrameType
  <2>1. count \in Nat /\ join \in Nat /\ NoBlock \in Nat /\ 0 \in Nat
    BY <1>2, <1>4 DEF NoBlock
  <2>2. /\ f.kind = "then" /\ f.mark = count /\ f.begin = NoBlock /\ f.step = NoBlock
        /\ f.end = join /\ f.alt = els
    BY DEF Frame
  <2>3. f \in FrameType
    BY <1>5, <2>1 DEF Frame, FrameType, BodyKinds
  <2> QED
    BY <2>2, <2>3
<1> HIDE DEF f
<1>12. /\ f.mark <= Len(items) /\ Held(f) = new /\ Awaits(f) = new
  BY <1>2, <1>4, <1>11 DEF Held, Awaits
<1>13. Shape(f)
  BY <1>4, <1>6, <1>11 DEF Shape
<1>14. Top.kind \notin {"head", "short", "array", "switch"}
  BY <1>2 DEF BodyKinds
<1> QED
  BY <1>1, <1>2, <1>10, <1>11, <1>12, <1>13, <1>14, PushStep

LEMMA EndThenStep ==
  ASSUME IInv, EndThen
  PROVE  IInv' /\ Kept
<1> DEFINE g == CloseBody(blocks, Top.end)
           f == [Top EXCEPT !.kind = "else", !.alt = NoBlock, !.tight = {}]
<1>1. phase = "body" /\ StmtFrame /\ Top.kind = "then"
  BY DEF EndThen, InBody
<1>2. CASE Top.alt = NoBlock
  BY <1>1, <1>2, CloseToJoinStep DEF EndThen
<1>3. CASE Top.alt # NoBlock
  <2>1. StartBlock(Seal(g, Top.alt), Top.alt, Top.mark) /\ open' = Swap(f)
    BY <1>3 DEF EndThen
  <2>2. /\ TypeOK /\ Consistent(blocks) /\ cur \in Ids(blocks) /\ Shape(Top)
        /\ Top \in FrameType /\ Top.mark \in 0 .. Len(items) /\ Top.mark <= Len(items)
        /\ \A b \in Held(Top) : b \in Ids(blocks) /\ ~blocks[b].sealed
    BY <1>1, BodyFacts
  <2>3. Top.end \in Ids(blocks) /\ ~blocks[Top.end].sealed
    BY <1>1, <2>2 DEF Shape, Held
  <2>4. Made(blocks, g, {cur}, {}, {})
    <3>1. /\ Made(blocks, blocks, {}, {}, {}) /\ {} \subseteq Ids(blocks)
          /\ {cur} = {} \cup {cur} /\ Top.end \notin {}
      BY <2>2, MadeNothing
    <3> QED
      BY <2>2, <2>3, <3>1, MadeClose
  <2>5. /\ f \in FrameType /\ f.mark = Top.mark /\ f.begin = Top.begin /\ f.step = Top.step
        /\ f.end = Top.end /\ f.alt = NoBlock /\ f.kind = "else"
    BY <2>2 DEF FrameType, BodyKinds, NoBlock
  <2> HIDE DEF f, g
  <2>6. Shape(f)
    BY <1>1, <2>2, <2>5 DEF Shape
  <2> QED
    BY <1>1, <1>3, <2>1, <2>2, <2>4, <2>5, <2>6, TakeAltStep
<1> QED
  BY <1>2, <1>3

LEMMA EndElseStep ==
  ASSUME IInv, EndElse
  PROVE  IInv' /\ Kept
<1>1. /\ phase = "body" /\ StmtFrame /\ Top.kind = "else" /\ open' = Pop
      /\ StartBlock(Join(CloseBody(blocks, Top.end)), Top.end, Top.mark)
  BY DEF EndElse, InBody
<1>2. Top.alt = NoBlock
  BY <1>1, BodyFacts DEF Shape
<1> QED
  BY <1>1, <1>2, CloseToJoinStep

-----------------------------------------------------------------------------
(* Loops. *)

LEMMA BeginWhileStep ==
  ASSUME IInv, BeginWhile
  PROVE  IInv' /\ Kept
<1> DEFINE begin == Len(blocks) + 1
           body == Len(blocks) + 2
           end == Len(blocks) + 3
           new == {begin, body, end}
           g0 == WithBlocks(blocks, 3)
           g1 == Br(g0, cur, begin)
           f == [Frame EXCEPT !.kind = "head", !.begin = begin, !.step = begin,
                              !.end = end, !.alt = body]
<1>1. /\ Stmt("while") /\ StmtFrame /\ open' = Append(Branched, f)
      /\ StartBlock(g1, begin, count)
  BY DEF BeginWhile, Opens
<1>2. /\ phase = "body" /\ Top.kind \in BodyKinds /\ IsOpen(blocks, cur) /\ TypeOK
      /\ count \in 0 .. Len(items) /\ Len(items) \in Nat
  BY <1>1, StmtFacts, BodyFacts
<1>3. /\ Consistent(g0) /\ cur \in Ids(g0) /\ cur \in Ids(blocks) /\ IsOpen(g0, cur)
      /\ Ids(blocks) \subseteq Ids(g0)
      /\ \A b \in Ids(g0) \ Ids(blocks) :
              IsOpen(g0, b) /\ ~g0[b].sealed /\ b # cur /\ b \in Nat \ {NoBlock}
      /\ Ids(g0) \ Ids(blocks) = (Len(blocks) + 1) .. (Len(blocks) + 3)
      /\ Len(blocks) \in Nat
  BY <1>2, NewBlocks
<1>4. /\ Ids(g0) \ Ids(blocks) = new /\ begin \in new /\ body \in new /\ end \in new
      /\ begin # body /\ begin # end /\ body # end
  BY <1>3
<1>5. new = {begin, body, end} /\ g0 = WithBlocks(blocks, 3) /\ 3 \in Nat
  OBVIOUS
<1> HIDE DEF begin, body, end, new, g0
<1>6. Made(g0, g1, {cur}, {}, {}) /\ {cur} \subseteq Ids(g0)
  BY <1>3, <1>4, MadeNothing, MadeBr
<1> HIDE DEF g1
<1>7. Finished(g0, {cur}, {}, {begin}) /\ cur' = begin /\ count' = count /\ Live'
  <2>1. /\ begin \notin {cur} /\ {begin} = {} \cup {begin} /\ begin \in Ids(g0)
        /\ IsOpen(g0, begin)
    BY <1>3, <1>4
  <2> QED
    BY <1>1, <1>2, <1>6, <2>1, MadeStart
<1>8. Effect({cur}, {}, new)
  <2>1. /\ {cur} = {cur} \cap Ids(blocks) /\ ({} \cup {begin}) \cap Ids(blocks) \subseteq {}
        /\ \A b \in Ids(g0) \ Ids(blocks) : b \in new \/ b \in {cur} \/ b = cur'
        /\ new \subseteq Ids(g0) \ Ids(blocks) /\ new \cap {} = {}
    BY <1>3, <1>4
  <2> QED
    BY <1>2, <1>5, <1>7, <2>1, FinishedEffect
<1>9. /\ f.kind = "head" /\ f.mark = 0 /\ f.begin = begin /\ f.step = begin
      /\ f.end = end /\ f.alt = body
  BY DEF Frame
<1>10. f \in FrameType /\ f.mark <= Len(items)
  <2>1. begin \in Nat /\ body \in Nat /\ end \in Nat /\ 0 <= Len(items)
    BY <1>2, <1>3, <1>4
  <2>2. f \in FrameType
    BY <2>1 DEF Frame, FrameType, NoBlock
  <2> QED
    BY <1>9, <2>1, <2>2
<1> HIDE DEF f
<1>11. Held(f) = new /\ Awaits(f) = {body, end} /\ Shape(f)
  BY <1>3, <1>4, <1>5, <1>9 DEF Held, Awaits, Shape
<1>12. \A b \in {body, end} : IsOpen(blocks', b) /\ b # cur'
  BY <1>3, <1>4, <1>7, EditsKeep DEF Finished
<1>13. \A b \in new : IsOpen(blocks', b) => b = cur' \/ b \in Awaits(f)
  BY <1>5, <1>7, <1>11
<1>14. Top.kind \notin {"head", "short", "array", "switch"}
  BY <1>2 DEF BodyKinds
<1>15. cur' \notin Ids(blocks)
  BY <1>4, <1>7
<1> QED
  BY <1>1, <1>2, <1>7, <1>8, <1>9, <1>10, <1>11, <1>12, <1>13, <1>14, <1>15, PushStep

LEMMA EnterWhileStep ==
  ASSUME IInv, EnterWhile
  PROVE  IInv' /\ Kept
<1> DEFINE body == Top.alt
           g == CondBr(blocks, cur, body, Top.end)
           f == [Top EXCEPT !.kind = "while", !.mark = count, !.alt = NoBlock]
<1>1. /\ phase = "body" /\ StmtFrame /\ Top.kind = "head" /\ open' = Swap(f)
      /\ StartBlock(Seal(g, body), body, count)
  BY DEF EnterWhile
<1>2. /\ Consistent(blocks) /\ cur \in Ids(blocks) /\ Shape(Top) /\ IsOpen(blocks, cur)
      /\ Top \in FrameType /\ count \in 0 .. Len(items) /\ Len(items) \in Nat
      /\ \A b \in Held(Top) : b \in Ids(blocks) /\ ~blocks[b].sealed
  BY <1>1, BodyFacts DEF NeedsOpen
<1>3. body # NoBlock /\ Top.end # NoBlock /\ Top.end # body
  BY <1>1, <1>2 DEF Shape
<1>4. body \in Held(Top) /\ Top.end \in Held(Top)
  BY <1>3 DEF Held
<1>5. Made(blocks, g, {cur}, {}, {})
  <2>1. Made(blocks, blocks, {}, {}, {}) /\ {} \subseteq Ids(blocks)
    BY <1>2, MadeNothing
  <2> QED
    BY <1>2, <1>3, <1>4, <2>1, MadeCondBr
<1>6. /\ f \in FrameType /\ f.mark = count /\ f.begin = Top.begin /\ f.step = Top.step
      /\ f.end = Top.end /\ f.alt = NoBlock /\ f.kind = "while"
  <2>1. Top \in FrameType /\ count \in Nat /\ NoBlock \in Nat
    BY <1>2 DEF NoBlock
  <2>2. f \in FrameType
    BY <2>1 DEF FrameType, BodyKinds
  <2> QED
    BY <2>1, <2>2 DEF FrameType
<1>7. f.mark <= Len(items)
  BY <1>2, <1>6
<1> HIDE DEF f, g
<1>8. Shape(f)
  BY <1>1, <1>2, <1>6 DEF Shape
<1> QED
  BY <1>1, <1>2, <1>3, <1>5, <1>6, <1>7, <1>8, TakeAltStep

LEMMA EndWhileStep ==
  ASSUME IInv, EndWhile
  PROVE  IInv' /\ Kept
<1> DEFINE begin == Top.begin
           end == Top.end
           g1 == CloseBody(blocks, begin)
           g2 == SealAll(g1, {begin, end})
<1>1. /\ phase = "body" /\ StmtFrame /\ open' = Pop /\ Top.kind = "while"
      /\ StartBlock(g2, end, Top.mark)
  BY DEF EndWhile, InBody
<1>2. /\ TypeOK /\ Consistent(blocks) /\ cur \in Ids(blocks)
      /\ Top.mark \in 0 .. Len(items) /\ Shape(Top)
      /\ \A b \in Held(Top) : b \in Ids(blocks) /\ ~blocks[b].sealed
      /\ \A b \in Awaits(Top) : IsOpen(blocks, b) /\ b # cur
  BY <1>1, BodyFacts
<1>3. /\ Held(Top) = {begin, end} /\ Awaits(Top) = {end}
  <2>1. /\ Top.step = Top.begin /\ Top.alt = NoBlock /\ Top.begin # NoBlock
        /\ Top.end # NoBlock /\ Top.end # Top.begin
    BY <1>1, <1>2 DEF Shape
  <2> QED
    BY <2>1 DEF Held, Awaits
<1>4. /\ begin \in Ids(blocks) /\ ~blocks[begin].sealed
      /\ end \in Ids(blocks) /\ IsOpen(blocks, end) /\ end # cur
  BY <1>2, <1>3
<1> HIDE DEF begin, end
<1>5. Made(blocks, g1, {cur}, {}, {}) /\ {cur} \subseteq Ids(blocks)
  <2>1. /\ Made(blocks, blocks, {}, {}, {}) /\ {} \subseteq Ids(blocks)
        /\ {cur} = {} \cup {cur} /\ begin \notin {}
    BY <1>2, MadeNothing
  <2> QED
    BY <1>2, <1>4, <2>1, MadeClose
<1> HIDE DEF g1
<1>6. Made(blocks, g2, {cur}, {begin, end}, {})
  BY <1>5, MadeSealAll
<1> HIDE DEF g2
<1>7. /\ Finished(blocks, {cur}, {begin, end}, {end}) /\ cur' = end /\ count' = Top.mark
      /\ Live'
  <2>1. end \notin {cur} /\ {end} = {} \cup {end}
    BY <1>4
  <2> QED
    BY <1>1, <1>2, <1>4, <1>5, <1>6, <2>1, MadeStart
<1>8. Effect({cur}, {begin, end}, {})
  BY <1>2, <1>7, OldBlocksEffect
<1> QED
  BY <1>1, <1>2, <1>3, <1>7, <1>8, PopStep

LEMMA BeginForStep ==
  ASSUME IInv, BeginFor
  PROVE  IInv' /\ Kept
<1> DEFINE begin == Len(blocks) + 1
           body == Len(blocks) + 2
           step == Len(blocks) + 3
           end == Len(blocks) + 4
           new == {begin, step, end}
           g0 == WithBlocks(blocks, 4)
           f == [Frame EXCEPT !.kind = "for", !.mark = count, !.begin = begin,
                              !.step = step, !.end = end]
<1>1. /\ Stmt("for") /\ StmtFrame /\ open' = Append(Branched, f)
      /\ StartBlock(WithLoopHead(g0, begin, body, end), body, count)
  BY DEF BeginFor, Opens
<1>2. /\ phase = "body" /\ Top.kind \in BodyKinds /\ IsOpen(blocks, cur)
      /\ count \in 0 .. Len(items) /\ Len(items) \in Nat
  BY <1>1, StmtFacts, BodyFacts
<1>3. /\ Len(blocks) \in Nat
      /\ Ids(g0) \ Ids(blocks) = (Len(blocks) + 1) .. (Len(blocks) + 4)
      /\ \A b \in Ids(g0) \ Ids(blocks) : b \in Nat \ {NoBlock}
  BY <1>2, NewBlocks
<1>4. /\ Ids(g0) \ Ids(blocks) = new \cup {body} /\ body \notin new
      /\ begin # body /\ begin # end /\ body # end /\ step # begin /\ step # end
  BY <1>3
<1>5. new = {begin, step, end} /\ g0 = WithBlocks(blocks, 4) /\ 4 \in Nat
  OBVIOUS
<1> HIDE DEF begin, body, step, end, new, g0
<1>6. /\ Effect({cur}, {}, new) /\ cur' = body /\ cur' \notin Ids(blocks)
      /\ count' \in 0 .. Len(items) /\ Live'
      /\ ~IsOpen(blocks', begin) /\ AllOpen(blocks', new \ {begin})
  <2>1. {begin, body, end} \subseteq Ids(g0) \ Ids(blocks)
    BY <1>4, <1>5
  <2>2. new = (Ids(g0) \ Ids(blocks)) \ {body}
    BY <1>4
  <2> QED
    BY <1>1, <1>2, <1>4, <1>5, <2>1, <2>2, LoopEffect
<1>7. /\ f.kind = "for" /\ f.mark = count /\ f.begin = begin /\ f.step = step
      /\ f.end = end /\ f.alt = NoBlock
  BY DEF Frame
<1>8. f \in FrameType /\ f.mark <= Len(items)
  <2>1. begin \in Nat /\ step \in Nat /\ end \in Nat /\ count \in Nat
    BY <1>2, <1>3, <1>4, <1>5
  <2>2. f \in FrameType
    BY <2>1 DEF Frame, FrameType, BodyKinds, NoBlock
  <2> QED
    BY <1>2, <1>7, <2>2
<1> HIDE DEF f
<1>9. Held(f) = new /\ Awaits(f) = {step, end}
  BY <1>3, <1>4, <1>5, <1>7 DEF Held, Awaits
<1>10. Shape(f)
  BY <1>3, <1>4, <1>5, <1>7 DEF Shape
<1>11. \A b \in Awaits(f) : IsOpen(blocks', b) /\ b # cur'
  BY <1>4, <1>5, <1>6, <1>9 DEF AllOpen
<1>12. \A b \in new : IsOpen(blocks', b) => b = cur' \/ b \in Awaits(f)
  BY <1>5, <1>6, <1>9
<1>13. Top.kind \notin {"head", "short", "array", "switch"}
  BY <1>2 DEF BodyKinds
<1> QED
  BY <1>1, <1>2, <1>6, <1>7, <1>8, <1>9, <1>10, <1>11, <1>12, <1>13, PushStep

LEMMA EndForStep ==
  ASSUME IInv, EndFor
  PROVE  IInv' /\ Kept
<1> DEFINE begin == Top.begin
           step == Top.step
           end == Top.end
           g1 == CloseBody(blocks, step)
           g2 == Seal(g1, step)
           g3 == TakenUp(g2, step, Pending(Top.mark))
           g4 == Br(g3, step, begin)
           g5 == SealAll(g4, {begin, end})
<1>1. /\ phase = "body" /\ StmtFrame /\ open' = Pop /\ Top.kind = "for"
      /\ StartBlock(g5, end, Top.mark)
  BY DEF EndFor, InBody, TakenUp
<1>2. /\ TypeOK /\ Consistent(blocks) /\ cur \in Ids(blocks)
      /\ Top.mark \in 0 .. Len(items) /\ Shape(Top)
      /\ \A b \in Held(Top) : b \in Ids(blocks) /\ ~blocks[b].sealed
      /\ \A b \in Awaits(Top) : IsOpen(blocks, b) /\ b # cur
  BY <1>1, BodyFacts
<1>3. /\ Top.alt = NoBlock /\ Top.begin # NoBlock /\ Top.step # NoBlock
      /\ Top.end # NoBlock /\ Top.end # Top.begin /\ Top.end # Top.step
      /\ Top.step # Top.begin
  BY <1>1, <1>2 DEF Shape
<1>4. Held(Top) = {begin, step, end} /\ Awaits(Top) = {step, end}
  BY <1>3 DEF Held, Awaits
<1>5. /\ begin \in Ids(blocks) /\ ~blocks[begin].sealed
      /\ step \in Ids(blocks) /\ ~blocks[step].sealed
      /\ IsOpen(blocks, step) /\ step # cur /\ step # begin
      /\ end \in Ids(blocks) /\ IsOpen(blocks, end) /\ end # cur /\ end # step
  BY <1>2, <1>3, <1>4
<1> HIDE DEF begin, step, end
<1>6. Made(blocks, g1, {cur}, {}, {}) /\ {cur} \subseteq Ids(blocks)
  <2>1. /\ Made(blocks, blocks, {}, {}, {}) /\ {} \subseteq Ids(blocks)
        /\ {cur} = {} \cup {cur} /\ step \notin {}
    BY <1>2, MadeNothing
  <2> QED
    BY <1>2, <1>5, <2>1, MadeClose
<1> HIDE DEF g1
<1>7. Made(blocks, g2, {cur}, {step}, {})
  BY <1>5, <1>6, MadeSeal
<1> HIDE DEF g2
<1>8. Made(blocks, g3, {cur}, {step}, {step})
  BY <1>2, <1>5, <1>6, <1>7, MadeTaken
<1> HIDE DEF g3
<1>9. Made(blocks, g4, {cur, step}, {step}, {step}) /\ {cur, step} \subseteq Ids(blocks)
  <2>1. {cur, step} = {cur} \cup {step} /\ step \notin {cur} /\ begin \notin {step}
    BY <1>5
  <2> QED
    BY <1>5, <1>6, <1>8, <2>1, MadeBr
<1> HIDE DEF g4
<1>10. Made(blocks, g5, {cur, step}, {step, begin, end}, {step})
  <2>1. {step, begin, end} = {step} \cup {begin, end}
    OBVIOUS
  <2> QED
    BY <1>9, <2>1, MadeSealAll
<1> HIDE DEF g5
<1>11. /\ Finished(blocks, {cur, step}, {step, begin, end}, {step, end}) /\ cur' = end
       /\ count' = Top.mark /\ Live'
  <2>1. PICK C : C = {cur, step}
    OBVIOUS
  <2>2. PICK S : S = {step, begin, end}
    OBVIOUS
  <2>3. PICK T : T = {step}
    OBVIOUS
  <2>4. PICK Q : Q = {step, end}
    OBVIOUS
  <2>5. /\ Made(blocks, g5, C, S, T) /\ C \subseteq Ids(blocks) /\ end \notin C
        /\ Q = T \cup {end}
    BY <1>5, <1>9, <1>10, <2>1, <2>2, <2>3, <2>4
  <2>6. Finished(blocks, C, S, Q) /\ cur' = end /\ count' = Top.mark /\ Live'
    BY <1>1, <1>2, <1>5, <2>5, MadeStart
  <2> QED
    BY <2>1, <2>2, <2>4, <2>6
<1>12. Effect({cur, step}, {step, begin, end}, {})
  <2>1. {step, end} \subseteq {step, begin, end}
    OBVIOUS
  <2> QED
    BY <1>2, <1>9, <1>11, <2>1, OldBlocksEffect
<1> QED
  BY <1>1, <1>2, <1>4, <1>11, <1>12, PopStep

-----------------------------------------------------------------------------
(* switch and the bare block. *)

LEMMA BeginSwitchStep ==
  ASSUME IInv, BeginSwitch
  PROVE  IInv' /\ Kept
<1> DEFINE end == Len(blocks) + 1
           g0 == WithBlocks(blocks, 1)
           f == [Frame EXCEPT !.kind = "switch", !.mark = count, !.end = end]
<1>1. /\ Stmt("switch") /\ StmtFrame /\ open' = Append(Branched, f)
      /\ blocks' = g0 /\ cur' = cur /\ count' = count
  BY DEF BeginSwitch, Opens
<1>2. /\ phase = "body" /\ Top.kind \in BodyKinds /\ IsOpen(blocks, cur) /\ TypeOK
      /\ count \in 0 .. Len(items) /\ Len(items) \in Nat
  BY <1>1, StmtFacts, BodyFacts
<1>3. /\ Consistent(g0) /\ cur \in Ids(g0) /\ IsOpen(g0, cur)
      /\ \A b \in Ids(g0) \ Ids(blocks) :
              IsOpen(g0, b) /\ ~g0[b].sealed /\ b # cur /\ b \in Nat \ {NoBlock}
      /\ Ids(g0) \ Ids(blocks) = (Len(blocks) + 1) .. (Len(blocks) + 1)
      /\ Len(blocks) \in Nat
  BY <1>2, NewBlocks
<1>4. Ids(g0) \ Ids(blocks) = {end}
  BY <1>3
<1>5. g0 = WithBlocks(blocks, 1) /\ 1 \in Nat
  OBVIOUS
<1>6. Edits(blocks, g0, {}, {})
  BY <1>2, GrowEdits DEF TypeOK
<1> HIDE DEF end, g0
<1>7. Effect({}, {}, {end}) /\ Live'
  BY <1>1, <1>3, <1>4, <1>6 DEF Effect, Live
<1>8. f.kind = "switch" /\ f.mark = count /\ f.begin = NoBlock /\ f.step = NoBlock
      /\ f.end = end /\ f.alt = NoBlock
  BY DEF Frame
<1>9. f \in FrameType /\ f.mark <= Len(items)
  <2>1. count \in Nat /\ end \in Nat
    BY <1>2, <1>3, <1>4
  <2>2. f \in FrameType
    BY <2>1 DEF Frame, FrameType, NoBlock
  <2> QED
    BY <1>2, <1>8, <2>2
<1> HIDE DEF f
<1>10. Held(f) = {end} /\ Awaits(f) = {end} /\ Shape(f)
  BY <1>3, <1>4, <1>8 DEF Held, Awaits, Shape
<1>11. \A b \in Awaits(f) : IsOpen(blocks', b) /\ b # cur'
  BY <1>1, <1>3, <1>4, <1>10
<1>12. Top.kind \notin {"head", "short", "array", "switch"}
  BY <1>2 DEF BodyKinds
<1> QED
  BY <1>1, <1>2, <1>7, <1>8, <1>9, <1>10, <1>11, <1>12, PushStep

LEMMA BeginCaseStep ==
  ASSUME IInv, BeginCase
  PROVE  IInv' /\ Kept
<1> DEFINE body == Len(blocks) + 1
           next == Len(blocks) + 2
           g0 == WithBlocks(blocks, 2)
           f == [Top EXCEPT !.kind = "case", !.alt = next]
<1>1. /\ phase = "body" /\ StmtFrame /\ Top.kind = "switch" /\ open' = Swap(f)
      /\ StartBlock(Seal(CondBr(g0, cur, body, next), body), body, count)
  BY DEF BeginCase
<1>2. /\ IsOpen(blocks, cur) /\ Shape(Top) /\ Top \in FrameType /\ Top.mark <= Len(items)
      /\ count \in 0 .. Len(items) /\ cur \in Ids(blocks)
      /\ \A b \in Held(Top) : b \in Ids(blocks)
      /\ \A b \in Awaits(Top) : IsOpen(blocks, b) /\ b # cur
  BY <1>1, BodyFacts DEF NeedsOpen
<1>3. /\ Len(blocks) \in Nat
      /\ Ids(g0) \ Ids(blocks) = (Len(blocks) + 1) .. (Len(blocks) + 2)
      /\ \A b \in Ids(g0) \ Ids(blocks) : b \in Nat \ {NoBlock}
  BY <1>1, NewBlocks
<1>4. Ids(g0) \ Ids(blocks) = {body, next} /\ body # next
  BY <1>3
<1>5. g0 = WithBlocks(blocks, 2) /\ 2 \in Nat
  OBVIOUS
<1> HIDE DEF body, next, g0
<1>6. Forked(body, {next})
  <2>1. {next} = (Ids(g0) \ Ids(blocks)) \ {body}
    BY <1>4
  <2> QED
    BY <1>1, <1>2, <1>4, <1>5, <2>1, ForkEffect
<1>7. /\ Effect({cur}, {}, {next}) /\ cur' = body /\ cur' \notin Ids(blocks)
      /\ count' \in 0 .. Len(items) /\ IsOpen(blocks', next)
  BY <1>2, <1>6 DEF Forked, AllOpen
<1>8. /\ f.begin = Top.begin /\ f.step = Top.step /\ f.mark = Top.mark
      /\ f.end = Top.end /\ f.alt = next /\ f.kind = "case" /\ f \in FrameType
  <2>1. next \in Nat
    BY <1>3, <1>4
  <2>2. f \in FrameType
    BY <1>2, <2>1 DEF FrameType, BodyKinds
  <2> QED
    BY <1>2, <2>2 DEF FrameType
<1> HIDE DEF f
<1>9. /\ Top.begin = NoBlock /\ Top.step = NoBlock /\ Top.alt = NoBlock
      /\ Top.end # NoBlock
  BY <1>1, <1>2 DEF Shape
<1>10. Held(Top) = {Top.end} /\ Awaits(Top) = {Top.end}
  BY <1>9 DEF Held, Awaits
<1>11. next # Top.end /\ next # NoBlock
  BY <1>2, <1>3, <1>4, <1>10
<1>12. /\ Held(f) = {Top.end, next} /\ Awaits(f) = {Top.end, next}
  BY <1>8, <1>9, <1>11 DEF Held, Awaits
<1>13. Shape(f)
  BY <1>8, <1>9, <1>11 DEF Shape
<1>14. IsOpen(blocks', Top.end) /\ Top.end # cur'
  BY <1>2, <1>7, <1>10, EditsKeep DEF Effect
<1>15. \A b \in Awaits(f) : IsOpen(blocks', b) /\ b # cur'
  BY <1>4, <1>7, <1>12, <1>14
<1>16. PICK new : new = {next}
  OBVIOUS
<1>17. PICK C : C = {cur}
  OBVIOUS
<1>18. PICK S : S = {}
  OBVIOUS
<1>19. /\ Effect(C, S, new) /\ Held(f) \subseteq new \cup (Held(Top) \ S)
       /\ \A b \in new : IsOpen(blocks', b) => b = cur' \/ b \in Awaits(f)
       /\ Awaits(Top) \subseteq C \cup {cur'} \cup Awaits(f)
       /\ C \subseteq {cur} \cup Held(Top) /\ S \subseteq Held(Top) /\ cur \in C
  BY <1>7, <1>10, <1>12, <1>16, <1>17, <1>18
<1>20. /\ f.mark <= Len(items) /\ Top.kind \in {"then", "head", "switch", "case"}
       /\ f.kind \notin {"short", "fn"} /\ f.kind \notin NeedsOpen
  BY <1>1, <1>2, <1>8 DEF NeedsOpen
<1> QED
  BY <1>1, <1>7, <1>8, <1>13, <1>15, <1>19, <1>20, SwapStep

LEMMA EndCaseStep ==
  ASSUME IInv, EndCase
  PROVE  IInv' /\ Kept
<1> DEFINE g == CloseBody(blocks, Top.end)
           f == [Top EXCEPT !.kind = "switch", !.alt = NoBlock, !.tight = {}]
<1>1. /\ phase = "body" /\ StmtFrame /\ Top.kind = "case" /\ open' = Swap(f)
      /\ StartBlock(Seal(g, Top.alt), Top.alt, Top.mark)
  BY DEF EndCase, InBody
<1>2. /\ TypeOK /\ Consistent(blocks) /\ cur \in Ids(blocks) /\ Shape(Top)
      /\ Top \in FrameType /\ Top.mark \in 0 .. Len(items) /\ Top.mark <= Len(items)
      /\ \A b \in Held(Top) : b \in Ids(blocks) /\ ~blocks[b].sealed
  BY <1>1, BodyFacts
<1>3. Top.alt # NoBlock /\ Top.end \in Ids(blocks) /\ ~blocks[Top.end].sealed
  BY <1>1, <1>2 DEF Shape, Held
<1>4. Made(blocks, g, {cur}, {}, {})
  <2>1. /\ Made(blocks, blocks, {}, {}, {}) /\ {} \subseteq Ids(blocks)
        /\ {cur} = {} \cup {cur} /\ Top.end \notin {}
    BY <1>2, MadeNothing
  <2> QED
    BY <1>2, <1>3, <2>1, MadeClose
<1>5. /\ f \in FrameType /\ f.mark = Top.mark /\ f.begin = Top.begin /\ f.step = Top.step
      /\ f.end = Top.end /\ f.alt = NoBlock /\ f.kind = "switch"
  BY <1>2 DEF FrameType, BodyKinds, NoBlock
<1> HIDE DEF f, g
<1>6. Shape(f)
  BY <1>1, <1>2, <1>5 DEF Shape
<1> QED
  BY <1>1, <1>2, <1>3, <1>4, <1>5, <1>6, TakeAltStep

LEMMA BeginDefaultStep ==
  ASSUME IInv, BeginDefault
  PROVE  IInv' /\ Kept
<1> DEFINE f == [Top EXCEPT !.kind = "default"]
<1>1. /\ phase = "body" /\ StmtFrame /\ Top.kind = "switch" /\ open' = Swap(f)
      /\ blocks' = blocks /\ cur' = cur /\ count' = count
  BY DEF BeginDefault
<1>2. /\ Consistent(blocks) /\ cur \in Ids(blocks) /\ Shape(Top) /\ Top \in FrameType
      /\ Top.mark <= Len(items) /\ count \in 0 .. Len(items)
      /\ \A b \in Awaits(Top) : IsOpen(blocks, b) /\ b # cur
  BY <1>1, BodyFacts
<1>3. /\ f \in FrameType /\ f.mark = Top.mark /\ f.begin = Top.begin /\ f.step = Top.step
      /\ f.end = Top.end /\ f.alt = Top.alt /\ f.kind = "default"
  BY <1>2 DEF FrameType, BodyKinds
<1> HIDE DEF f
<1>4. Held(f) = Held(Top) /\ Awaits(f) = Awaits(Top)
  BY <1>3 DEF Held, Awaits
<1>5. Shape(f)
  BY <1>1, <1>2, <1>3 DEF Shape
<1>6. \A b \in Awaits(f) : IsOpen(blocks', b) /\ b # cur'
  BY <1>1, <1>2, <1>4
<1>7. PICK none : none = {}
  OBVIOUS
<1>8. Effect(none, none, none)
  BY <1>1, <1>2, <1>7, EditsNothing DEF Effect
<1>9. /\ Held(f) \subseteq none \cup (Held(Top) \ none)
      /\ \A b \in none : IsOpen(blocks', b) => b = cur' \/ b \in Awaits(f)
      /\ Awaits(Top) \subseteq none \cup {cur'} \cup Awaits(f)
      /\ none \subseteq {cur} \cup Held(Top) /\ none \subseteq Held(Top)
  BY <1>4, <1>7
<1>10. /\ f.mark <= Len(items) /\ Top.kind \in {"then", "head", "switch", "case"}
       /\ f.kind \notin {"short", "fn"} /\ f.kind \notin NeedsOpen
       /\ count' \in 0 .. Len(items)
  BY <1>1, <1>2, <1>3 DEF NeedsOpen
<1> QED
  BY <1>1, <1>3, <1>5, <1>6, <1>8, <1>9, <1>10, SwapStep

LEMMA EndSwitchStep ==
  ASSUME IInv, EndSwitch
  PROVE  IInv' /\ Kept
<1> DEFINE end == Top.end
           g == Br(blocks, cur, end)
<1>1. phase = "body" /\ StmtFrame /\ Top.kind \in {"switch", "default"} /\ open' = Pop
  BY DEF EndSwitch
<1>2. /\ Consistent(blocks) /\ cur \in Ids(blocks) /\ Shape(Top)
      /\ Top.kind \in NeedsOpen => IsOpen(blocks, cur)
      /\ \A b \in Held(Top) : b \in Ids(blocks) /\ ~blocks[b].sealed
  BY <1>1, BodyFacts
<1>3. Held(Top) = {end} /\ Top.alt = NoBlock
  BY <1>1, <1>2 DEF Shape, Held
<1>4. CASE Top.kind = "default"
  <2>1. StartBlock(Join(CloseBody(blocks, Top.end)), Top.end, Top.mark)
    BY <1>4 DEF EndSwitch
  <2> QED
    BY <1>1, <1>3, <1>4, <2>1, CloseToJoinStep
<1>5. CASE Top.kind = "switch"
  <2>1. IsOpen(blocks, cur)
    BY <1>2, <1>5 DEF NeedsOpen
  <2>2. StartBlock(CloseUnreached(Seal(g, end), end), end, Top.mark)
    BY <1>5, <2>1 DEF EndSwitch, Join, Live
  <2>3. end = Top.end /\ end \in Ids(blocks) /\ ~blocks[end].sealed
    BY <1>2, <1>3
  <2> HIDE DEF end
  <2>4. Made(blocks, g, {cur}, {}, {})
    BY <1>2, <2>1, <2>3, MadeNothing, MadeBr
  <2> HIDE DEF g
  <2> QED
    BY <1>1, <1>3, <1>5, <2>2, <2>3, <2>4, JoinStep
<1> QED
  BY <1>1, <1>4, <1>5

LEMMA BeginBlockStep ==
  ASSUME IInv, BeginBlock
  PROVE  IInv' /\ Kept
<1> DEFINE f == [Frame EXCEPT !.kind = "block", !.mark = count]
<1>1. /\ Stmt("block") /\ StmtFrame /\ open' = Append(open, f)
      /\ blocks' = blocks /\ cur' = cur /\ count' = count
  BY DEF BeginBlock, Opens
<1>2. /\ phase = "body" /\ Top.kind \in BodyKinds /\ Consistent(blocks)
      /\ cur \in Ids(blocks) /\ count \in 0 .. Len(items) /\ Len(items) \in Nat
  BY <1>1, StmtFacts, BodyFacts
<1>3. f.kind = "block" /\ f.mark = count /\ f.begin = NoBlock /\ f.step = NoBlock
      /\ f.end = NoBlock /\ f.alt = NoBlock
  BY DEF Frame
<1>4. f \in FrameType /\ f.mark <= Len(items)
  <2>1. count \in Nat
    BY <1>2
  <2>2. f \in FrameType
    BY <2>1 DEF Frame, FrameType, BodyKinds, NoBlock
  <2> QED
    BY <1>2, <1>3, <2>2
<1> HIDE DEF f
<1>5. Held(f) = {} /\ Awaits(f) = {} /\ Shape(f)
  BY <1>3 DEF Held, Awaits, Shape
<1>6. PICK none : none = {}
  OBVIOUS
<1>7. Effect(none, {}, none)
  BY <1>1, <1>2, <1>6, EditsNothing DEF Effect
<1>8. /\ none \subseteq {cur} /\ Held(f) \subseteq none
      /\ \A b \in none : IsOpen(blocks', b) => b = cur' \/ b \in Awaits(f)
      /\ \A b \in Awaits(f) : IsOpen(blocks', b) /\ b # cur'
  BY <1>5, <1>6
<1>9. Top.kind \notin {"head", "short", "array", "switch"} /\ f.kind \notin NeedsOpen
  BY <1>2, <1>3 DEF BodyKinds, NeedsOpen
<1> QED
  BY <1>1, <1>2, <1>3, <1>4, <1>5, <1>7, <1>8, <1>9, PushStep

LEMMA EndBlockStep ==
  ASSUME IInv, EndBlock
  PROVE  IInv' /\ Kept
<1>1. /\ phase = "body" /\ StmtFrame /\ Top.kind = "block" /\ open' = Pop
      /\ blocks' = blocks /\ cur' = cur /\ count' = count
  BY DEF EndBlock, InBody
<1>2. /\ Consistent(blocks) /\ cur \in Ids(blocks) /\ Shape(Top)
      /\ count \in 0 .. Len(items)
  BY <1>1, BodyFacts
<1>3. Awaits(Top) = {}
  BY <1>1, <1>2 DEF Shape, Awaits
<1>4. PICK none : none = {}
  OBVIOUS
<1>5. Effect(none, none, {})
  BY <1>1, <1>2, <1>4, EditsNothing DEF Effect
<1>6. /\ none \subseteq {cur} \cup Held(Top) /\ none \subseteq Held(Top)
      /\ Awaits(Top) \subseteq none \cup {cur'}
  BY <1>3, <1>4
<1> QED
  BY <1>1, <1>2, <1>5, <1>6, PopStep

-----------------------------------------------------------------------------
(* The end of the function: nobody is left to take a block up. *)

LEMMA EndFnEffect ==
  ASSUME IInv, EndFn
  PROVE  /\ Edits(blocks, blocks', {cur}, LabelBlocks) /\ Len(blocks') = Len(blocks)
         /\ count' \in 0 .. Len(items)
         /\ \A b \in Ids(blocks) : blocks'[b].lowered = blocks[b].lowered
         /\ Live /\ fnKind = "void" => ~IsOpen(blocks', cur)
<1> DEFINE g == SealAll(blocks, LabelBlocks)
           h == RunDefers(g, 0)
           k == Ret(h, cur)
<1>1. /\ TypeOK /\ Consistent(blocks) /\ cur \in Ids(blocks) /\ count \in 0 .. Len(items)
      /\ 0 \in 0 .. Len(items)
  BY BodyFacts DEF EndFn
<1>2. /\ Edits(blocks, g, {}, LabelBlocks) /\ Len(g) = Len(blocks)
      /\ \A b \in Ids(blocks) : g[b].lowered = blocks[b].lowered
  BY <1>1, SealAllEdits
<1>3. CASE ~(Live /\ fnKind = "void")
  <2>1. blocks' = g /\ count' = count
    BY <1>3 DEF EndFn
  <2> HIDE DEF g
  <2>2. Edits(blocks, g, {cur}, LabelBlocks)
    BY <1>2, EditsWithin
  <2> QED
    BY <1>1, <1>2, <1>3, <2>1, <2>2
<1>4. CASE Live /\ fnKind = "void"
  <2>1. blocks' = k /\ count' = 0
    BY <1>4 DEF EndFn
  <2> HIDE DEF g
  <2>2. Consistent(g) /\ Ids(g) = Ids(blocks) /\ IsOpen(g, cur)
    BY <1>1, <1>2, <1>4, EditsKeep, EditsBounds DEF Live, Ids
  <2>3. Edits(g, h, {}, {}) /\ Len(h) = Len(g)
    BY <1>1, <2>2, RunDefersEdits
  <2> HIDE DEF h
  <2>4. Consistent(h) /\ Ids(h) = Ids(blocks) /\ IsOpen(h, cur)
    BY <1>1, <2>2, <2>3, EditsKeep, EditsBounds DEF Ids
  <2>5. Edits(h, k, {cur}, {}) /\ Len(k) = Len(h) /\ ~IsOpen(k, cur)
    BY <1>1, <2>4, LeafEdits
  <2> HIDE DEF k
  <2>6. Edits(blocks, h, {}, LabelBlocks)
    BY <1>2, <2>3, EditsThen
  <2>7. Edits(blocks, k, {cur}, LabelBlocks)
    BY <2>5, <2>6, EditsThen
  <2>8. \A b \in Ids(blocks) : k[b].lowered = blocks[b].lowered
    BY <1>2, <2>2, <2>3, <2>4, <2>5, EditsKeep
  <2> QED
    BY <1>1, <1>2, <2>1, <2>3, <2>5, <2>7, <2>8
<1> QED
  BY <1>3, <1>4

LEMMA EndFnStep ==
  ASSUME IInv, EndFn
  PROVE  IInv' /\ Kept
<1>1. /\ phase = "body" /\ Top.kind = "fn" /\ phase' = "done"
      /\ \A l \in Label : labels[l] # NoBlock => l \in declared
      /\ errors' = (errors \/ (Live /\ fnKind # "void"))
      /\ cur' = cur /\ items' = items /\ open' = open /\ labels' = labels
      /\ declared' = declared /\ depthOf' = depthOf
  BY DEF EndFn
<1>2. TypeOK /\ Nested /\ Owned /\ Accounted /\ labels \in [Label -> Nat]
  BY <1>1, BodyFacts DEF TypeOK
<1>3. /\ Edits(blocks, blocks', {cur}, LabelBlocks) /\ Len(blocks') = Len(blocks)
      /\ count' \in 0 .. Len(items)
      /\ \A b \in Ids(blocks) : blocks'[b].lowered = blocks[b].lowered
      /\ Live /\ fnKind = "void" => ~IsOpen(blocks', cur)
  BY EndFnEffect
<1>4. TypeOK'
  BY <1>1, <1>2, <1>3, EditsBounds DEF TypeOK, Ids
<1>5. \A i \in DOMAIN open : Awaits(open[i]) = {}
  <2>1. Len(open) = 1 /\ DOMAIN open = {1} /\ open[1].kind = "fn" /\ Shape(open[1])
    BY <1>1, <1>2, OpenFacts DEF Nested, Owned
  <2> QED
    BY <2>1 DEF Shape, Awaits
<1>6. OpenBlocksAccounted'
  <2>1. DOMAIN blocks' = Ids(blocks) /\ 0 \notin Ids(blocks)
    BY <1>3, EditsBounds, GraphFacts DEF Ids
  <2> SUFFICES ASSUME ~errors', NEW b \in Ids(blocks), IsOpen(blocks', b)
               PROVE  b \in SkippedLabels'
    BY <2>1 DEF OpenBlocksAccounted
  <2>2. ~errors /\ (Live => fnKind = "void") /\ IsOpen(blocks, b)
    BY <1>1, <1>3, EditsKeep
  <2>3. b # cur
    BY <1>3, <2>2 DEF Live
  <2>4. PICK l \in Label : labels[l] = b /\ (l \notin declared \/ ~blocks[b].lowered)
    BY <1>2, <1>5, <2>2, <2>3 DEF Accounted
  <2>5. labels[l] # NoBlock /\ l \in declared /\ ~blocks'[b].lowered
    BY <1>1, <1>3, <2>1, <2>4 DEF NoBlock
  <2> QED
    BY <1>1, <2>4, <2>5 DEF SkippedLabels
<1>7. Kept
  BY <1>3, EditsKept
<1> QED
  BY <1>1, <1>4, <1>6, <1>7 DEF IInv

-----------------------------------------------------------------------------
(* The invariant, and what follows from it. *)

LEMMA InitInv == Init => IInv
<1> SUFFICES ASSUME Init PROVE IInv
  OBVIOUS
<1> DEFINE entry == [FreshBlock EXCEPT !.sealed = TRUE, !.lowered = TRUE]
<1>1. /\ blocks = <<entry>> /\ cur = 1 /\ items = <<>> /\ count = 0 /\ depthOf = <<>>
      /\ open = <<Frame>> /\ labels = [l \in Label |-> NoBlock] /\ declared = {}
      /\ errors = FALSE /\ phase = "body"
  BY DEF Init
<1>2. entry \in Block /\ entry.preds = <<>> /\ entry.term = NoTerm
  <2>1. FreshBlock \in Block /\ FreshBlock.preds = <<>> /\ FreshBlock.term = NoTerm
    BY DEF FreshBlock, NoTerm, Block, TermKinds
  <2> QED
    BY <2>1 DEF Block
<1> HIDE DEF entry
<1>3. /\ blocks \in Seq(Block) /\ Len(blocks) = 1 /\ Ids(blocks) = {1}
      /\ blocks[1] = entry
  BY <1>1, <1>2 DEF Ids
<1>4. Consistent(blocks) /\ IsOpen(blocks, 1)
  <2>1. blocks[1].preds = <<>> /\ blocks[1].term.to = <<>> /\ IsOpen(blocks, 1)
    BY <1>2, <1>3 DEF NoTerm, IsOpen
  <2>2. Targets(blocks, 1) = {} /\ Preds(blocks, 1) = {}
    BY <2>1 DEF Targets, Preds
  <2>3. Once(blocks[1].preds)
    BY <2>1 DEF Once
  <2> QED
    BY <1>3, <2>1, <2>2, <2>3 DEF Consistent
<1>5. /\ Frame \in FrameType /\ Frame.kind = "fn" /\ Frame.mark = 0
      /\ Frame.begin = NoBlock /\ Frame.step = NoBlock
      /\ Frame.end = NoBlock /\ Frame.alt = NoBlock
  BY DEF Frame, FrameType, BodyKinds, NoBlock
<1>6. /\ open \in Seq(FrameType) /\ Len(open) = 1 /\ DOMAIN open = {1} /\ open[1] = Frame
      /\ Top = Frame
  BY <1>1, <1>5 DEF Top
<1>7. TypeOK
  <2>1. items \in Seq(Nat) /\ Len(items) = 0 /\ depthOf \in Seq(Nat)
    BY <1>1
  <2>2. labels \in [Label -> Nat]
    BY <1>1 DEF NoBlock
  <2> QED
    BY <1>1, <1>3, <1>4, <1>5, <1>6, <2>1, <2>2 DEF TypeOK
<1>8. Nested
  BY <1>5, <1>6 DEF Nested, NeedsOpen
<1>9. Held(Frame) = {} /\ Awaits(Frame) = {} /\ Shape(Frame)
  BY <1>5 DEF Held, Awaits, Shape
<1>10. Owned
  BY <1>6, <1>9 DEF Owned
<1>11. LabelsOwned /\ Accounted
  BY <1>1, <1>3 DEF LabelsOwned, Accounted
<1> QED
  BY <1>1, <1>7, <1>8, <1>10, <1>11 DEF IInv, InBodyInv

LEMMA StutterStep ==
  ASSUME IInv, UNCHANGED vars
  PROVE  IInv' /\ Kept
<1>1. IInv'
  BY DEF vars, IInv, TypeOK, InBodyInv, Nested, Owned, LabelsOwned, Accounted, Top, Live,
         OpenBlocksAccounted, Awaited, AheadLabels, SkippedLabels
<1>2. Kept
  BY DEF vars, Kept
<1> QED
  BY <1>1, <1>2

LEMMA NextKeeps ==
  ASSUME IInv, [Next]_vars
  PROVE  IInv' /\ Kept
<1>1. CASE Expression
  BY <1>1, BeginShortStep, EndShortStep, BoundsCheckStep, BeginArrayStep, EndArrayStep
     DEF Expression
<1>2. CASE Leaving
  BY <1>2, NoReturnCallStep, ReturnStep, BreakStep, LoopExitOutsideLoopStep DEF Leaving
<1>3. CASE Defer
  BY <1>3, DeferStep
<1>4. CASE Jump
  BY <1>4, PlaceLabelStep, GotoStep, SkipConstructStep DEF Jump
<1>5. CASE If
  BY <1>5, BeginIfStep, EndThenStep, EndElseStep DEF If
<1>6. CASE While
  BY <1>6, BeginWhileStep, EnterWhileStep, EndWhileStep DEF While
<1>7. CASE For
  BY <1>7, BeginForStep, EndForStep DEF For
<1>8. CASE Switch
  BY <1>8, BeginSwitchStep, BeginCaseStep, EndCaseStep, BeginDefaultStep, EndSwitchStep
     DEF Switch
<1>9. CASE BareBlock
  BY <1>9, BeginBlockStep, EndBlockStep DEF BareBlock
<1>10. CASE EndFn
  BY <1>10, EndFnStep
<1>11. CASE UNCHANGED vars
  BY <1>11, StutterStep
<1> QED
  BY <1>1, <1>2, <1>3, <1>4, <1>5, <1>6, <1>7, <1>8, <1>9, <1>10, <1>11 DEF Next

\* The inductive invariant holds throughout.
THEOREM Invariance == Spec => []IInv
<1>1. IInv /\ [Next]_vars => IInv'
  BY NextKeeps
<1> QED
  BY <1>1, InitInv, PTL DEF Spec

\* The two records of an edge agree, whatever function is lowered: the
\* terminator of its source and the predecessor list of its target, which has
\* each source once.
THEOREM EdgeRecordsAgree == Spec => []EdgesMatchTerminators
<1>1. IInv => EdgesMatchTerminators
  <2> SUFFICES ASSUME IInv PROVE EdgesMatchTerminators
    OBVIOUS
  <2>1. Consistent(blocks) /\ DOMAIN blocks = Ids(blocks)
    BY GraphFacts DEF IInv, TypeOK
  <2>2. \A b \in Ids(blocks) : Cardinality(Preds(blocks, b)) = Len(blocks[b].preds)
    BY <2>1, PredsCounted
  <2> QED
    BY <2>1, <2>2 DEF EdgesMatchTerminators, Consistent
<1> QED
  BY <1>1, Invariance, PTL

\* No block is lost without a terminator: every open block of a function
\* accepted so far is the current one, one that an open construct will take
\* up, or that of a label still ahead or skipped as dead code.
THEOREM NoBlockIsLost == Spec => []OpenBlocksAccounted
<1>1. IInv => OpenBlocksAccounted
  BY AccountedSays DEF IInv, InBodyInv, TypeOK
<1> QED
  BY <1>1, Invariance, PTL

\* A block that ST_ir_block_seal has sealed gains no predecessor, so its phis
\* never miss an operand.
THEOREM SealedIsFinal == Spec => SealedKeepPreds
<1>1. IInv /\ [Next]_vars =>
        [\A b \in DOMAIN blocks : blocks[b].sealed => blocks'[b].preds = blocks[b].preds]_vars
  BY NextKeeps DEF Kept
<1> QED
  BY <1>1, Invariance, PTL DEF Spec, SealedKeepPreds

\* A terminator is written once: the assertions of ST_ir_term_br, condbr and
\* ret never fail, and ST_ir_term_unreachable, which has none, needs none.
THEOREM TerminatedOnce == Spec => TerminatorsFinal
<1>1. IInv /\ [Next]_vars =>
        [\A b \in DOMAIN blocks : ~IsOpen(blocks, b) => blocks'[b].term = blocks[b].term]_vars
  BY NextKeeps DEF Kept
<1> QED
  BY <1>1, Invariance, PTL DEF Spec, TerminatorsFinal

-----------------------------------------------------------------------------
(***************************************************************************)
(* Deferred statements along the paths of the lowered function, in one     *)
(* that does not both defer and jump: no deferred statement outlives its   *)
(* construct, each path runs what it registered, and each once, newest     *)
(* first.  And, in functions without goto, what the lowering takes for     *)
(* reachable can be reached.                                               *)
(*                                                                         *)
(* The first invariant is about the list alone: what each open construct   *)
(* has found on it was registered outside of that construct.  The second   *)
(* gives every block of the function one list, with which each of its      *)
(* predecessors leaves and with which it is lowered; the blocks that open  *)
(* constructs keep are for the list as it was at their opening.  A step is *)
(* followed call by call through the graphs it builds.  The third is about *)
(* every set of blocks that holds the entry and is closed under the edges. *)
(***************************************************************************)
-----------------------------------------------------------------------------
(* Deferred statements and their scopes. *)

\* No function both defers statements and jumps.
Unmixed == ~Uses("defer") \/ ~Uses("jump")

\* Constructs within an expression: lowering it registers nothing, so that they
\* keep the list as it is now, the others the list as it was at their opening.
ExprKinds == {"head", "short", "array"}
Due(f, n)     == IF f.kind \in ExprKinds THEN n ELSE f.mark

\* The constructs that end the life of what is registered in them, below the
\* n-th; and that the first n of the list were registered within S.
Scopes(st, n) == {i \in 1 .. n : st[i].kind # "block"}
Within(list, depths, n, S) ==
  \A j \in 1 .. n : list[j] \in DOMAIN depths /\ depths[list[j]] <= Cardinality(S)

\* What a construct has found on the list was registered around it, the marks
\* grow with the depth, and what is on the list now was registered around here.
ScopeInv ==
  /\ \A i \in DOMAIN open : Within(items, depthOf, Due(open[i], count), Scopes(open, i - 1))
  /\ \A i, j \in DOMAIN open : i <= j => Due(open[i], count) <= Due(open[j], count)
  /\ Live => /\ Due(Top, count) <= count
             /\ Within(items, depthOf, count, Scopes(open, Len(open)))
  /\ Top.kind = "switch" => Top.mark = count

\* The invariant of the list, for functions of either sort.
DefersInv ==
  /\ ~Uses("defer") => items = <<>>
  /\ ~Uses("jump") /\ phase = "body" => ScopeInv

-----------------------------------------------------------------------------
\* A construct within an expression has only such constructs above it.
LEMMA NoExprBelow ==
  ASSUME TypeOK, Nested, Top.kind \notin ExprKinds
  PROVE  \A i \in DOMAIN open : open[i].kind \notin ExprKinds
<1> DEFINE I == {i \in DOMAIN open : open[i].kind \in ExprKinds}
<1> SUFFICES ASSUME I # {} PROVE FALSE
  OBVIOUS
<1>1. Len(open) \in Nat /\ DOMAIN open = 1 .. Len(open) /\ Top = open[Len(open)]
  BY OpenFacts
<1>2. PICK i \in I : \A j \in I : j <= i
  BY <1>1, LastOf
<1>3. i # Len(open)
  BY <1>1, <1>2
<1>4. i \in 1 .. (Len(open) - 1) /\ i + 1 \in DOMAIN open /\ open[i].kind \in ExprKinds
  BY <1>1, <1>2, <1>3
<1>5. open[i + 1].kind \in {"short", "array"}
  BY <1>4 DEF Nested, ExprKinds
<1>6. i + 1 \in I
  BY <1>4, <1>5 DEF ExprKinds
<1> QED
  BY <1>1, <1>2, <1>4, <1>6

\* The constructs around a place are finitely many.
LEMMA ScopesFinite ==
  ASSUME NEW st, NEW n \in Nat
  PROVE  IsFiniteSet(Scopes(st, n))
<1>1. IsFiniteSet(1 .. n) /\ Scopes(st, n) \subseteq 1 .. n
  BY FS_Interval DEF Scopes
<1> QED
  BY <1>1, FS_Subset

\* What lies within a scope lies within a larger one.
LEMMA WithinMore ==
  ASSUME NEW list, NEW depths \in Seq(Nat), NEW S, NEW T, IsFiniteSet(T), S \subseteq T,
         NEW n, Within(list, depths, n, S)
  PROVE  Within(list, depths, n, T)
<1>1. Cardinality(S) <= Cardinality(T) /\ Cardinality(S) \in Nat /\ Cardinality(T) \in Nat
  BY FS_Subset, FS_CardinalityType
<1> SUFFICES ASSUME NEW j \in 1 .. n
             PROVE  list[j] \in DOMAIN depths /\ depths[list[j]] <= Cardinality(T)
  BY DEF Within
<1>2. list[j] \in DOMAIN depths /\ depths[list[j]] <= Cardinality(S)
  BY DEF Within
<1>3. depths[list[j]] \in Nat
  BY <1>2
<1> QED
  BY <1>1, <1>2, <1>3

\* The mark of a construct is a length of the list.
LEMMA DueFacts ==
  ASSUME TypeOK
  PROVE  /\ \A i \in DOMAIN open : /\ Due(open[i], count) \in 0 .. Len(items)
                                   /\ open[i].mark \in Nat
         /\ Due(Top, count) \in 0 .. Len(items)
         /\ count \in 0 .. Len(items) /\ Len(items) \in Nat
<1>1. /\ Len(open) \in DOMAIN open /\ Top = open[Len(open)]
      /\ \A i \in DOMAIN open : open[i] \in FrameType
  BY OpenFacts
<1>2. \A i \in DOMAIN open : open[i].mark \in Nat /\ open[i].mark <= Len(items)
  BY <1>1 DEF TypeOK, FrameType
<1>3. count \in 0 .. Len(items) /\ Len(items) \in Nat
  BY DEF TypeOK
<1> QED
  BY <1>1, <1>2, <1>3 DEF Due

\* With an empty list there is nothing to show.
LEMMA ScopesNone == TypeOK /\ items = <<>> => ScopeInv
<1> SUFFICES ASSUME TypeOK, items = <<>> PROVE ScopeInv
  OBVIOUS
<1>1. /\ count = 0 /\ Len(open) \in DOMAIN open /\ Top = open[Len(open)]
      /\ \A i \in DOMAIN open : Due(open[i], count) = 0 /\ open[i].mark = 0
  <2>1. Len(items) = 0
    OBVIOUS
  <2>2. \A i \in DOMAIN open : open[i].mark \in Nat /\ open[i].mark <= 0
    BY <2>1, DueFacts DEF TypeOK
  <2> QED
    BY <2>1, <2>2, DueFacts, OpenFacts
<1>2. \A S : Within(items, depthOf, 0, S)
  BY DEF Within
<1> QED
  BY <1>1, <1>2 DEF ScopeInv

-----------------------------------------------------------------------------
\* Four kinds of step: the stack of constructs is the same, one is opened, the
\* one on top is replaced, and the one on top is closed.
LEMMA ScopesKeep ==
  ASSUME IInv, IInv', ScopeInv, phase = "body", phase' = "body",
         items' = items, depthOf' = depthOf, open' \in {open, Branched},
         \/ count' = count /\ (Live' => Live)
         \/ Top.kind \in BodyKinds /\ ~Live'
  PROVE  ScopeInv'
<1>1. /\ TypeOK /\ Nested /\ TypeOK'
  BY DEF IInv, InBodyInv
<1>2. /\ Len(open') = Len(open) /\ DOMAIN open' = DOMAIN open
      /\ Top = open[Len(open)] /\ Top' = open'[Len(open)] /\ Len(open) \in DOMAIN open
      /\ DOMAIN open = 1 .. Len(open) /\ Len(open) \in Nat
      /\ \A i \in DOMAIN open : open'[i].kind = open[i].kind /\ open'[i].mark = open[i].mark
  <2>1. /\ Len(open') = Len(open) /\ DOMAIN open' = DOMAIN open
        /\ \A i \in DOMAIN open : Like(open'[i], open[i])
    BY <1>1, BranchedFacts
  <2> QED
    BY <1>1, <2>1, OpenFacts DEF Like, Top
<1>3. \A i \in DOMAIN open : Due(open'[i], count') = Due(open[i], count)
  <2>1. CASE count' = count
    BY <1>2, <2>1 DEF Due
  <2>2. CASE Top.kind \in BodyKinds
    <3>1. \A i \in DOMAIN open : open[i].kind \notin ExprKinds
      BY <1>1, <2>2, NoExprBelow DEF BodyKinds, ExprKinds
    <3> QED
      BY <1>2, <3>1 DEF Due
  <2> QED
    BY <2>1, <2>2
<1>4. \A n \in 0 .. Len(open) : Scopes(open', n) = Scopes(open, n)
  BY <1>2 DEF Scopes
<1>5. \A i \in DOMAIN open :
        Within(items', depthOf', Due(open'[i], count'), Scopes(open', i - 1))
  BY <1>2, <1>3, <1>4 DEF ScopeInv
<1>6. \A i, j \in DOMAIN open : i <= j => Due(open'[i], count') <= Due(open'[j], count')
  BY <1>3 DEF ScopeInv
<1>7. Live' => /\ Due(Top', count') <= count'
               /\ Within(items', depthOf', count', Scopes(open', Len(open')))
  BY <1>2, <1>3, <1>4 DEF ScopeInv
<1>8. Top'.kind = "switch" => Top'.mark = count'
  BY <1>2 DEF ScopeInv, BodyKinds
<1> QED
  BY <1>2, <1>5, <1>6, <1>7, <1>8 DEF ScopeInv

LEMMA ScopesPush ==
  ASSUME IInv, IInv', ScopeInv, phase = "body", phase' = "body",
         items' = items, depthOf' = depthOf, count' = count, Live,
         NEW f \in FrameType, f.kind \in ExprKinds \/ f.mark = count,
         open' \in {Append(open, f), Append(Branched, f)}
  PROVE  ScopeInv'
<1> DEFINE n == Len(open)
<1>1. TypeOK /\ TypeOK'
  BY DEF IInv
<1>2. /\ Len(open') = n + 1 /\ DOMAIN open' = 1 .. (n + 1) /\ open'[n + 1] = f
      /\ Top = open[n] /\ Top' = f /\ n \in DOMAIN open
      /\ DOMAIN open = 1 .. n /\ n \in Nat
      /\ \A i \in DOMAIN open : open'[i].kind = open[i].kind /\ open'[i].mark = open[i].mark
  BY <1>1, PushFacts, OpenFacts DEF Like, Top
<1>3. /\ \A i \in 1 .. n : Due(open'[i], count') = Due(open[i], count)
      /\ Due(f, count') = count
  BY <1>2 DEF Due
<1>4. \A k \in 0 .. n : Scopes(open', k) = Scopes(open, k)
  BY <1>2 DEF Scopes
<1>5. /\ \A i \in 1 .. n : Due(open[i], count) <= Due(Top, count)
      /\ Due(Top, count) <= count /\ Within(items, depthOf, count, Scopes(open, n))
      /\ \A i \in 1 .. n : Within(items, depthOf, Due(open[i], count), Scopes(open, i - 1))
      /\ \A i, j \in 1 .. n : i <= j => Due(open[i], count) <= Due(open[j], count)
  BY <1>2 DEF ScopeInv
<1>6. \A i \in 1 .. n : Due(open[i], count) \in Int /\ Due(Top, count) \in Int /\ count \in Int
  BY <1>1, <1>2, DueFacts
<1>7. Within(items, depthOf, count, Scopes(open', n + 1))
  <2>1. Scopes(open', n) \subseteq Scopes(open', n + 1)
    BY <1>2 DEF Scopes
  <2>2. IsFiniteSet(Scopes(open', n + 1))
    BY <1>2, ScopesFinite
  <2>3. n \in 0 .. n /\ depthOf \in Seq(Nat)
    BY <1>1, <1>2 DEF TypeOK
  <2> QED
    BY <1>4, <1>5, <2>1, <2>2, <2>3, WithinMore
<1> HIDE DEF n
<1>8. ASSUME NEW i \in 1 .. (n + 1)
      PROVE  Within(items', depthOf', Due(open'[i], count'), Scopes(open', i - 1))
  <2>1. CASE i \in 1 .. n
    <3>1. i - 1 \in 0 .. n
      BY <1>2, <2>1
    <3> QED
      BY <1>3, <1>4, <1>5, <2>1, <3>1
  <2>2. CASE i = n + 1
    <3>1. i - 1 = n /\ n \in 0 .. n
      BY <1>2, <2>2
    <3> QED
      BY <1>2, <1>3, <1>4, <1>5, <2>2, <3>1
  <2> QED
    BY <1>2, <2>1, <2>2
<1>9. ASSUME NEW i \in 1 .. (n + 1), NEW j \in 1 .. (n + 1), i <= j
      PROVE  Due(open'[i], count') <= Due(open'[j], count')
  <2>1. CASE j \in 1 .. n
    BY <1>2, <1>3, <1>5, <1>9, <2>1
  <2>2. CASE j = n + 1 /\ i \in 1 .. n
    BY <1>2, <1>3, <1>5, <1>6, <2>2
  <2>3. CASE j = n + 1 /\ i = n + 1
    BY <1>2, <1>3, <1>6, <2>3
  <2> QED
    BY <1>2, <2>1, <2>2, <2>3
<1>10. /\ Due(Top', count') <= count'
       /\ Within(items', depthOf', count', Scopes(open', Len(open')))
  BY <1>2, <1>3, <1>6, <1>7
<1>11. Top'.kind = "switch" => Top'.mark = count'
  BY <1>2 DEF ExprKinds
<1> QED
  BY <1>2, <1>8, <1>9, <1>10, <1>11 DEF ScopeInv

\* The list is cut to what was on it when the construct on top was opened.
LEMMA DueKept ==
  ASSUME TypeOK, Nested, NEW i \in DOMAIN open, NEW n, n = Due(Top, count)
  PROVE  Due(open[i], n) = Due(open[i], count)
<1>1. CASE Top.kind \in ExprKinds
  BY <1>1 DEF Due
<1>2. CASE Top.kind \notin ExprKinds
  BY <1>2, NoExprBelow DEF Due
<1> QED
  BY <1>1, <1>2

LEMMA ScopesSwap ==
  ASSUME IInv, IInv', ScopeInv, phase = "body", phase' = "body",
         items' = items, depthOf' = depthOf, count' = Due(Top, count), Top.kind # "block",
         NEW f \in FrameType, f.kind \notin ExprKinds \cup {"block"}, f.mark = count',
         open' = Swap(f)
  PROVE  ScopeInv'
<1> DEFINE n == Len(open)
<1>1. TypeOK /\ TypeOK' /\ Nested
  BY DEF IInv, InBodyInv
<1>2. /\ Len(open') = n /\ DOMAIN open' = 1 .. n /\ open'[n] = f
      /\ Top = open[n] /\ Top' = f /\ n \in DOMAIN open
      /\ DOMAIN open = 1 .. n /\ n \in Nat \ {0}
      /\ \A i \in 1 .. n : i # n => open'[i] = open[i]
  <2>1. /\ Len(open') = Len(open) /\ DOMAIN open' = DOMAIN open /\ open'[Len(open)] = f
        /\ \A i \in DOMAIN open : i # Len(open) => open'[i] = open[i]
    BY <1>1, SwapFacts
  <2>2. Top' = open'[Len(open')]
    BY DEF Top
  <2> QED
    BY <1>1, <2>1, <2>2, OpenFacts
<1> HIDE DEF n
<1>3. \A i \in 1 .. n : Due(open'[i], count') = Due(open[i], count)
  <2>1. Due(f, count') = count'
    BY DEF Due
  <2> QED
    BY <1>1, <1>2, <2>1, DueKept
<1>4. \A k \in 0 .. n : Scopes(open', k) = Scopes(open, k)
  <2>1. \A i \in 1 .. n : open'[i].kind # "block" <=> open[i].kind # "block"
    BY <1>2
  <2> QED
    BY <1>2, <2>1 DEF Scopes
<1>5. \A i \in 1 .. n :
        Within(items', depthOf', Due(open'[i], count'), Scopes(open', i - 1))
  <2> SUFFICES ASSUME NEW i \in 1 .. n
               PROVE  Within(items', depthOf', Due(open'[i], count'), Scopes(open', i - 1))
    OBVIOUS
  <2>1. i \in DOMAIN open /\ i - 1 \in 0 .. n
    BY <1>2
  <2> QED
    BY <1>3, <1>4, <2>1 DEF ScopeInv
<1>6. \A i, j \in 1 .. n : i <= j => Due(open'[i], count') <= Due(open'[j], count')
  BY <1>2, <1>3 DEF ScopeInv
<1>7. Due(Top', count') <= count' /\ Within(items', depthOf', count', Scopes(open', n))
  <2>1. Due(Top', count') = count' /\ count' \in Int
    <3>1. count' \in Int
      BY <1>1, DueFacts
    <3> QED
      BY <1>2, <3>1 DEF Due
  <2>2. Within(items', depthOf', count', Scopes(open', n - 1))
    BY <1>2, <1>3, <1>5, <2>1
  <2>3. Scopes(open', n - 1) \subseteq Scopes(open', n) /\ IsFiniteSet(Scopes(open', n))
    <3>1. IsFiniteSet(Scopes(open', n))
      BY <1>2, ScopesFinite
    <3>2. 1 .. (n - 1) \subseteq 1 .. n
      BY <1>2
    <3> QED
      BY <3>1, <3>2 DEF Scopes
  <2>4. depthOf' \in Seq(Nat)
    BY <1>1 DEF TypeOK
  <2>5. Within(items', depthOf', count', Scopes(open', n))
    BY <2>2, <2>3, <2>4, WithinMore
  <2> QED
    BY <2>1, <2>5
<1>8. Top'.kind = "switch" => Top'.mark = count'
  BY <1>2
<1> QED
  BY <1>2, <1>5, <1>6, <1>7, <1>8 DEF ScopeInv

LEMMA ScopesPop ==
  ASSUME IInv, IInv', ScopeInv, phase = "body", phase' = "body",
         items' = items, depthOf' = depthOf, Len(open) >= 2, open' = Pop,
         \/ count' = Due(Top, count)
         \/ Top.kind = "block" /\ count' = count /\ (Live' => Live)
  PROVE  ScopeInv'
<1> DEFINE n == Len(open)
           m == n - 1
<1>1. TypeOK /\ TypeOK' /\ Nested
  BY DEF IInv, InBodyInv
<1>2. /\ Len(open') = m /\ DOMAIN open' = 1 .. m
      /\ Top = open[n] /\ Top' = open[m] /\ n \in DOMAIN open /\ m \in DOMAIN open
      /\ DOMAIN open = 1 .. n /\ n \in Nat \ {0} /\ m \in Nat \ {0} /\ n = m + 1 /\ m < n
      /\ \A i \in 1 .. m : open'[i] = open[i] /\ i \in 1 .. n
  BY <1>1, PopFacts, OpenFacts DEF Top
<1> HIDE DEF n, m
<1>3. \A i \in 1 .. m : Due(open'[i], count') = Due(open[i], count)
  <2>1. CASE count' = count
    BY <1>2, <2>1
  <2>2. CASE count' = Due(Top, count)
    BY <1>1, <1>2, <2>2, DueKept
  <2> QED
    BY <2>1, <2>2
<1>4. \A k \in 0 .. m : Scopes(open', k) = Scopes(open, k)
  BY <1>2 DEF Scopes
<1>5. \A i \in 1 .. m :
        Within(items', depthOf', Due(open'[i], count'), Scopes(open', i - 1))
  <2> SUFFICES ASSUME NEW i \in 1 .. m
               PROVE  Within(items', depthOf', Due(open'[i], count'), Scopes(open', i - 1))
    OBVIOUS
  <2>1. i \in DOMAIN open /\ i - 1 \in 0 .. m
    BY <1>2
  <2> QED
    BY <1>3, <1>4, <2>1 DEF ScopeInv
<1>6. \A i, j \in 1 .. m : i <= j => Due(open'[i], count') <= Due(open'[j], count')
  BY <1>2, <1>3 DEF ScopeInv
<1>7. Live' => Due(Top', count') <= count' /\ Within(items', depthOf', count', Scopes(open', m))
  <2>1. /\ Due(Top', count') = Due(open[m], count) /\ Due(open[m], count) <= Due(Top, count)
        /\ Scopes(open', m) = Scopes(open, m)
    BY <1>2, <1>3, <1>4 DEF ScopeInv
  <2>2. CASE count' = Due(Top, count)
    <3>1. Within(items, depthOf, Due(Top, count), Scopes(open, m))
      BY <1>2 DEF ScopeInv
    <3> QED
      BY <2>1, <2>2, <3>1
  <2>3. CASE Top.kind = "block" /\ count' = count /\ (Live' => Live)
    <3>1. Scopes(open, n) = Scopes(open, m)
      BY <1>2, <2>3 DEF Scopes
    <3>2. /\ Due(Top, count) \in Int /\ Due(open[m], count) \in Int /\ count \in Int
      BY <1>1, <1>2, DueFacts
    <3>3. Live' => Due(Top, count) <= count /\ Within(items, depthOf, count, Scopes(open, n))
      BY <2>3 DEF ScopeInv, n
    <3>4. Live' => Within(items', depthOf', count', Scopes(open', m))
      BY <2>1, <2>3, <3>1, <3>3
    <3> QED
      BY <2>1, <2>3, <3>2, <3>3, <3>4
  <2> QED
    BY <2>2, <2>3
<1>8. Top'.kind # "switch"
  <2>1. m \in 1 .. (Len(open) - 1)
    BY <1>2 DEF n
  <2> QED
    BY <1>1, <1>2, <2>1 DEF Nested
<1> QED
  BY <1>2, <1>5, <1>6, <1>7, <1>8 DEF ScopeInv

\* What a defer statement does to the list: nothing below the mark of any
\* construct around it, and what it adds belongs to the innermost.
LEMMA StoreFacts ==
  ASSUME TypeOK, NEW d \in Nat
  PROVE  /\ StoreDefer(items, count, d) \in Seq(Nat)
         /\ Len(StoreDefer(items, count, d)) >= count + 1
         /\ StoreDefer(items, count, d)[count + 1] = d
         /\ \A j \in 1 .. count : StoreDefer(items, count, d)[j] = items[j]
<1>1. items \in Seq(Nat) /\ count \in 0 .. Len(items) /\ Len(items) \in Nat
  BY DEF TypeOK
<1>2. CASE count < Len(items)
  <2> DEFINE s == [items EXCEPT ![count + 1] = d]
  <2>1. StoreDefer(items, count, d) = s
    BY <1>2 DEF StoreDefer
  <2>2. count + 1 \in 1 .. Len(items)
    BY <1>1, <1>2
  <2>3. /\ s \in Seq(Nat) /\ Len(s) = Len(items) /\ s[count + 1] = d
        /\ \A j \in 1 .. count : s[j] = items[j]
    BY <1>1, <2>2
  <2> QED
    BY <1>1, <1>2, <2>1, <2>3
<1>3. CASE count = Len(items)
  <2> DEFINE s == Append(items, d)
  <2>1. StoreDefer(items, count, d) = s
    BY <1>1, <1>3 DEF StoreDefer
  <2>2. /\ s \in Seq(Nat) /\ Len(s) = count + 1 /\ s[count + 1] = d
        /\ \A j \in 1 .. count : s[j] = items[j]
    BY <1>1, <1>3
  <2> QED
    BY <1>1, <2>1, <2>2
<1> QED
  BY <1>1, <1>2, <1>3

LEMMA ScopesDefer ==
  ASSUME IInv, IInv', ScopeInv, Defer
  PROVE  ScopeInv'
<1> DEFINE n == Len(open)
           d == Len(depthOf) + 1
<1>1. /\ TypeOK /\ TypeOK' /\ Nested /\ phase = "body" /\ Live /\ Top.kind \in BodyKinds
      /\ items' = StoreDefer(items, count, d) /\ count' = count + 1
      /\ depthOf' = Append(depthOf, Depth) /\ open' = open
  BY DEF IInv, InBodyInv, Defer, Stmt, InBody
<1>2. /\ n \in DOMAIN open /\ DOMAIN open = 1 .. n /\ n \in Nat /\ Top = open[n]
  BY <1>1, OpenFacts
<1>3. /\ depthOf \in Seq(Nat) /\ depthOf' \in Seq(Nat) /\ d \in Nat
      /\ count \in Nat
  BY <1>1 DEF TypeOK
<1>4. /\ Len(depthOf') = d /\ depthOf'[d] = Depth
      /\ \A j \in DOMAIN depthOf : j \in DOMAIN depthOf' /\ depthOf'[j] = depthOf[j]
      /\ d \in DOMAIN depthOf'
  <2>1. Depth \in Nat
    <3>1. /\ IsFiniteSet(Scopes(open, n))
          /\ {i \in DOMAIN open : open[i].kind # "block"} = Scopes(open, n)
      BY <1>2, ScopesFinite DEF Scopes
    <3> QED
      BY <3>1, FS_CardinalityType DEF Depth
  <2> QED
    BY <1>1, <1>3, <2>1
<1>5. items'[count + 1] = d /\ \A j \in 1 .. count : items'[j] = items[j]
  BY <1>1, <1>3, StoreFacts
<1> HIDE DEF d
<1>6. \A i \in 1 .. n : /\ Due(open[i], count') = Due(open[i], count)
                        /\ Due(open[i], count) <= count /\ Due(open[i], count) \in Nat
  <2>1. \A i \in 1 .. n : Due(open[i], count') = Due(open[i], count)
    <3>1. Top.kind \notin ExprKinds
      BY <1>1 DEF BodyKinds, ExprKinds
    <3>2. \A i \in 1 .. n : open[i].kind \notin ExprKinds
      BY <1>1, <1>2, <3>1, NoExprBelow
    <3> QED
      BY <3>2 DEF Due
  <2>2. \A i \in 1 .. n : Due(open[i], count) \in Nat
    BY <1>1, <1>2, DueFacts
  <2>3. \A i \in 1 .. n : Due(open[i], count) <= count
    <3>1. Due(open[n], count) \in Nat /\ Due(open[n], count) <= count
      BY <1>1, <1>2, <2>2 DEF ScopeInv
    <3>2. ASSUME NEW i \in 1 .. n
          PROVE  Due(open[i], count) <= Due(open[n], count)
      BY <1>2 DEF ScopeInv
    <3> QED
      BY <1>3, <2>2, <3>1, <3>2
  <2> QED
    BY <2>1, <2>2, <2>3
<1>7. ASSUME NEW k \in 0 .. count, NEW S, Within(items, depthOf, k, S)
      PROVE  Within(items', depthOf', k, S)
  <2>1. \A j \in 1 .. k : j \in 1 .. count
    BY <1>3
  <2> QED
    BY <1>4, <1>5, <1>7, <2>1 DEF Within
<1>8. \A i \in 1 .. n : Within(items', depthOf', Due(open[i], count'), Scopes(open, i - 1))
  <2> SUFFICES ASSUME NEW i \in 1 .. n
               PROVE  Within(items', depthOf', Due(open[i], count'), Scopes(open, i - 1))
    OBVIOUS
  <2>1. Within(items, depthOf, Due(open[i], count), Scopes(open, i - 1))
    BY <1>2 DEF ScopeInv
  <2>2. Due(open[i], count) \in 0 .. count
    BY <1>3, <1>6
  <2> QED
    BY <1>6, <1>7, <2>1, <2>2
<1>9. Within(items', depthOf', count', Scopes(open, n))
  <2>1. Depth = Cardinality(Scopes(open, n))
    BY <1>2 DEF Depth, Scopes
  <2>2. Within(items, depthOf, count, Scopes(open, n))
    BY <1>1 DEF ScopeInv
  <2>3. Within(items', depthOf', count, Scopes(open, n))
    BY <1>3, <1>7, <2>2
  <2>4. Depth <= Depth
    <3>1. Depth \in Nat
      BY <1>2, <2>1, ScopesFinite, FS_CardinalityType
    <3> QED
      BY <3>1
  <2> SUFFICES ASSUME NEW j \in 1 .. (count + 1)
               PROVE  /\ items'[j] \in DOMAIN depthOf'
                      /\ depthOf'[items'[j]] <= Cardinality(Scopes(open, n))
    BY <1>1 DEF Within
  <2>5. CASE j = count + 1
    BY <1>4, <1>5, <2>1, <2>4, <2>5
  <2>6. CASE j \in 1 .. count
    BY <2>3, <2>6 DEF Within
  <2> QED
    BY <1>3, <2>5, <2>6
<1>10. \A i, j \in 1 .. n : i <= j => Due(open[i], count') <= Due(open[j], count')
  BY <1>2, <1>6 DEF ScopeInv
<1>11. Top' = Top /\ Due(Top, count') <= count'
  BY <1>1, <1>2, <1>3, <1>6 DEF Top
<1> QED
  BY <1>1, <1>2, <1>8, <1>9, <1>10, <1>11 DEF ScopeInv, BodyKinds

-----------------------------------------------------------------------------
(* Each action is one of these steps. *)

\* The depth of a place is a number.
LEMMA Deep ==
  ASSUME TypeOK, Nested, Top.kind # "fn"
  PROVE  Len(open) >= 2
  BY OpenFacts DEF Nested

LEMMA LeftDead ==
  ASSUME IInv, NEW s, Stmt(s), NEW g, Made(blocks, g, {cur}, {}, {}),
         NEW m \in 0 .. Len(items), StartDeadBlock(g, m)
  PROVE  ~Live'
<1>1. TypeOK /\ Consistent(g)
  BY MadeFacts DEF IInv
<1> QED
  BY <1>1, DeadEdits DEF Live

LEMMA ScopesExpression ==
  ASSUME IInv, IInv', ScopeInv, Expression
  PROVE  ScopeInv'
<1>0. /\ phase = "body" /\ phase' = "body" /\ items' = items /\ depthOf' = depthOf
      /\ TypeOK /\ Nested
  <2>1. phase = "body" /\ StmtFrame
    BY DEF Expression, BeginShort, EndShort, BoundsCheck, BeginArray, EndArray, InExpr
  <2> QED
    BY <2>1 DEF StmtFrame, IInv, InBodyInv
<1>1. Len(blocks) \in Nat
  BY <1>0, GraphFacts DEF TypeOK
<1>2. CASE BeginShort
  <2> DEFINE join == Len(blocks) + 2
             f == [Frame EXCEPT !.kind = "short", !.end = join]
  <2>2. Live /\ count' = count /\ open' = Append(open, f) /\ join \in Nat
    BY <1>1, <1>2 DEF BeginShort, StartBlock
  <2> HIDE DEF join
  <2>1. f \in FrameType /\ f.kind \in ExprKinds
    BY <2>2 DEF Frame, FrameType, ExprKinds, NoBlock
  <2> QED
    BY <1>0, <2>1, <2>2, ScopesPush
<1>3. CASE BeginArray
  <2> DEFINE begin == Len(blocks) + 1
             end == Len(blocks) + 3
             f == [Frame EXCEPT !.kind = "array", !.begin = begin, !.end = end]
  <2>2. /\ Live /\ count' = count /\ open' = Append(open, f)
        /\ begin \in Nat /\ end \in Nat
    BY <1>1, <1>3 DEF BeginArray, StartBlock
  <2> HIDE DEF begin, end
  <2>1. f \in FrameType /\ f.kind \in ExprKinds
    BY <2>2 DEF Frame, FrameType, ExprKinds, NoBlock
  <2> QED
    BY <1>0, <2>1, <2>2, ScopesPush
<1>4. CASE EndShort \/ EndArray
  <2>1. count' = count /\ open' = Pop /\ Top.kind \in {"short", "array"}
    BY <1>4 DEF EndShort, EndArray, StartBlock
  <2>2. Due(Top, count) = count /\ Top.kind # "fn"
    BY <2>1 DEF Due, ExprKinds
  <2> QED
    BY <1>0, <2>1, <2>2, Deep, ScopesPop
<1>5. CASE BoundsCheck
  <2>1. count' = count /\ open' = open /\ Live
    BY <1>5 DEF BoundsCheck, StartBlock
  <2> QED
    BY <1>0, <2>1, ScopesKeep
<1> QED
  BY <1>2, <1>3, <1>4, <1>5 DEF Expression

\* Control has left for good: what follows is lowered into a closed block.
LEMMA LeftForGood ==
  ASSUME IInv, NoReturnCall \/ Return \/ Break \/ Continue
  PROVE  ~Live'
<1>1. PICK s \in {"exit", "return", "loopexit"} : Stmt(s)
  BY DEF NoReturnCall, Return, Break, Continue
<1>2. phase = "body"
  BY <1>1, StmtFacts
<1>3. CASE NoReturnCall \/ Return
  <2> DEFINE g == RunDefers(blocks, 0)
  <2>1. PICK h \in {Ret(g, cur), Unreachable(g, cur)} : StartDeadBlock(h, 0)
    BY <1>3 DEF NoReturnCall, Return
  <2>2. Made(blocks, g, {}, {}, {}) /\ 0 \in 0 .. Len(items)
    BY <1>1, StmtFacts
  <2> HIDE DEF g
  <2>3. Made(blocks, h, {cur}, {}, {})
    BY <1>1, <2>2, StmtFacts, MadeLeaf
  <2> QED
    BY <1>1, <2>1, <2>2, <2>3, LeftDead
<1>4. CASE Break \/ Continue
  <2> DEFINE g == RunDefers(blocks, Loop.mark)
  <2>1. PICK to \in {Loop.end, Loop.step} : LeaveLoop(to) /\ Loops # {}
    BY <1>4 DEF Break, Continue
  <2>2. /\ Loop.mark \in 0 .. Len(items) /\ Loop.mark \in Nat
        /\ to \in Ids(blocks) /\ ~blocks[to].sealed
    BY <1>2, <2>1, LoopFacts
  <2>3. StartDeadBlock(Br(g, cur, to), Loop.mark)
    BY <2>1 DEF LeaveLoop
  <2>4. Made(blocks, g, {}, {}, {})
    BY <1>1, <2>2, StmtFacts
  <2> HIDE DEF g
  <2>5. Made(blocks, Br(g, cur, to), {cur}, {}, {})
    BY <1>1, <2>2, <2>4, StmtFacts, MadeBr
  <2> QED
    BY <1>1, <2>2, <2>3, <2>5, LeftDead
<1> QED
  BY <1>3, <1>4

LEMMA ScopesLeaving ==
  ASSUME IInv, IInv', ScopeInv, Leaving
  PROVE  ScopeInv'
<1>1. PICK s \in {"exit", "return", "loopexit"} : Stmt(s)
  BY DEF Leaving, NoReturnCall, Return, Break, Continue, LoopExitOutsideLoop
<1>2. /\ phase = "body" /\ phase' = "body" /\ items' = items /\ depthOf' = depthOf
      /\ Top.kind \in BodyKinds /\ open' \in {open, Branched} /\ Live
  BY <1>1 DEF Leaving, NoReturnCall, Return, Break, Continue, LoopExitOutsideLoop, StmtFrame,
              Stmt, InBody
<1>3. CASE LoopExitOutsideLoop
  <2>1. count' = count
    BY <1>3 DEF LoopExitOutsideLoop
  <2> QED
    BY <1>2, <2>1, ScopesKeep
<1>4. CASE NoReturnCall \/ Return \/ Break \/ Continue
  BY <1>2, <1>4, LeftForGood, ScopesKeep
<1> QED
  BY <1>3, <1>4 DEF Leaving

\* The frame of a construct met while statements are lowered.
LEMMA ScopesOpen ==
  ASSUME IInv, IInv', ScopeInv,
         BeginWhile \/ BeginFor \/ BeginSwitch \/ BeginBlock
           \/ \E hasElse \in BOOLEAN : BeginIf(hasElse)
  PROVE  ScopeInv'
<1>1. /\ phase = "body" /\ phase' = "body" /\ items' = items /\ depthOf' = depthOf
      /\ Live /\ count' = count
  BY DEF BeginWhile, BeginFor, BeginSwitch, BeginBlock, BeginIf, Opens, Stmt, InBody,
         StmtFrame, StartBlock
<1>2. Len(blocks) \in Nat /\ count \in Nat
  BY GraphFacts DEF IInv, TypeOK
<1>3. CASE BeginWhile
  <2> DEFINE begin == Len(blocks) + 1
             body == Len(blocks) + 2
             end == Len(blocks) + 3
             f == [Frame EXCEPT !.kind = "head", !.begin = begin, !.step = begin,
                                !.end = end, !.alt = body]
  <2>2. open' = Append(Branched, f) /\ begin \in Nat /\ body \in Nat /\ end \in Nat
    BY <1>2, <1>3 DEF BeginWhile
  <2> HIDE DEF begin, body, end
  <2>1. f \in FrameType /\ f.kind \in ExprKinds
    BY <2>2 DEF Frame, FrameType, ExprKinds, NoBlock
  <2> QED
    BY <1>1, <2>1, <2>2, ScopesPush
<1>4. CASE BeginFor
  <2> DEFINE begin == Len(blocks) + 1
             step == Len(blocks) + 3
             end == Len(blocks) + 4
             f == [Frame EXCEPT !.kind = "for", !.mark = count, !.begin = begin,
                                !.step = step, !.end = end]
  <2>2. open' = Append(Branched, f) /\ begin \in Nat /\ step \in Nat /\ end \in Nat
    BY <1>2, <1>4 DEF BeginFor
  <2> HIDE DEF begin, step, end
  <2>1. f \in FrameType /\ f.mark = count
    BY <1>2, <2>2 DEF Frame, FrameType, BodyKinds, NoBlock
  <2> QED
    BY <1>1, <2>1, <2>2, ScopesPush
<1>5. CASE BeginSwitch
  <2> DEFINE end == Len(blocks) + 1
             f == [Frame EXCEPT !.kind = "switch", !.mark = count, !.end = end]
  <2>2. open' = Append(Branched, f) /\ end \in Nat
    BY <1>2, <1>5 DEF BeginSwitch
  <2> HIDE DEF end
  <2>1. f \in FrameType /\ f.mark = count
    BY <1>2, <2>2 DEF Frame, FrameType, NoBlock
  <2> QED
    BY <1>1, <2>1, <2>2, ScopesPush
<1>6. CASE BeginBlock
  <2> DEFINE f == [Frame EXCEPT !.kind = "block", !.mark = count]
  <2>1. f \in FrameType /\ f.mark = count
    BY <1>2 DEF Frame, FrameType, BodyKinds, NoBlock
  <2>2. open' = Append(open, f)
    BY <1>6 DEF BeginBlock
  <2> QED
    BY <1>1, <2>1, <2>2, ScopesPush
<1>7. CASE \E hasElse \in BOOLEAN : BeginIf(hasElse)
  <2> PICK hasElse \in BOOLEAN : BeginIf(hasElse)
    BY <1>7
  <2> DEFINE els == IF hasElse THEN Len(blocks) + 2 ELSE NoBlock
             join == Len(blocks) + (IF hasElse THEN 3 ELSE 2)
             f == [Frame EXCEPT !.kind = "then", !.mark = count, !.end = join, !.alt = els]
  <2>1. els \in Nat /\ join \in Nat
    BY <1>2 DEF NoBlock
  <2>2. open' = Append(Branched, f)
    BY DEF BeginIf
  <2> HIDE DEF els, join
  <2>3. f \in FrameType /\ f.mark = count
    BY <1>2, <2>1 DEF Frame, FrameType, BodyKinds, NoBlock
  <2> QED
    BY <1>1, <2>2, <2>3, ScopesPush
<1> QED
  BY <1>3, <1>4, <1>5, <1>6, <1>7

LEMMA ScopesPart ==
  ASSUME IInv, IInv', ScopeInv,
         (EndThen /\ Top.alt # NoBlock) \/ EnterWhile \/ BeginCase \/ EndCase \/ BeginDefault
  PROVE  ScopeInv'
<1>1. /\ phase = "body" /\ phase' = "body" /\ items' = items /\ depthOf' = depthOf
      /\ TypeOK /\ Top \in FrameType /\ Len(blocks) \in Nat /\ count \in Nat
  <2>1. phase = "body" /\ StmtFrame
    BY DEF EndThen, EnterWhile, BeginCase, EndCase, BeginDefault, InBody
  <2>2. TypeOK
    BY DEF IInv
  <2> QED
    BY <2>1, <2>2, OpenFacts, GraphFacts DEF StmtFrame, TypeOK
<1>2. CASE EndThen /\ Top.alt # NoBlock
  <2> DEFINE f == [Top EXCEPT !.kind = "else", !.alt = NoBlock, !.tight = {}]
  <2>1. Top.kind = "then" /\ count' = Top.mark /\ open' = Swap(f)
    BY <1>2 DEF EndThen, StartBlock
  <2>2. f \in FrameType /\ f.kind = "else" /\ f.mark = Top.mark
    BY <1>1 DEF FrameType, BodyKinds, NoBlock
  <2>3. count' = Due(Top, count) /\ f.kind \notin ExprKinds \cup {"block"}
    BY <2>1, <2>2 DEF Due, ExprKinds
  <2> QED
    BY <1>1, <2>1, <2>2, <2>3, ScopesSwap
<1>3. CASE EnterWhile
  <2> DEFINE f == [Top EXCEPT !.kind = "while", !.mark = count, !.alt = NoBlock]
  <2>1. Top.kind = "head" /\ count' = count /\ open' = Swap(f)
    BY <1>3 DEF EnterWhile, StartBlock
  <2>2. f \in FrameType /\ f.kind = "while" /\ f.mark = count
    BY <1>1 DEF FrameType, BodyKinds, NoBlock
  <2>3. count' = Due(Top, count) /\ f.kind \notin ExprKinds \cup {"block"}
    BY <2>1, <2>2 DEF Due, ExprKinds
  <2> QED
    BY <1>1, <2>1, <2>2, <2>3, ScopesSwap
<1>4. CASE BeginCase
  <2> DEFINE next == Len(blocks) + 2
             f == [Top EXCEPT !.kind = "case", !.alt = next]
  <2>1. Top.kind = "switch" /\ count' = count /\ open' = Swap(f) /\ next \in Nat
    BY <1>1, <1>4 DEF BeginCase, StartBlock
  <2> HIDE DEF next
  <2>2. f \in FrameType /\ f.kind = "case" /\ f.mark = Top.mark
    BY <1>1, <2>1 DEF FrameType, BodyKinds
  <2>3. count' = Due(Top, count) /\ f.kind \notin ExprKinds \cup {"block"} /\ Top.mark = count
    BY <2>1, <2>2 DEF Due, ExprKinds, ScopeInv
  <2> QED
    BY <1>1, <2>1, <2>2, <2>3, ScopesSwap
<1>5. CASE EndCase
  <2> DEFINE f == [Top EXCEPT !.kind = "switch", !.alt = NoBlock, !.tight = {}]
  <2>1. Top.kind = "case" /\ count' = Top.mark /\ open' = Swap(f)
    BY <1>5 DEF EndCase, StartBlock
  <2>2. f \in FrameType /\ f.kind = "switch" /\ f.mark = Top.mark
    BY <1>1 DEF FrameType, NoBlock
  <2>3. count' = Due(Top, count) /\ f.kind \notin ExprKinds \cup {"block"}
    BY <2>1, <2>2 DEF Due, ExprKinds
  <2> QED
    BY <1>1, <2>1, <2>2, <2>3, ScopesSwap
<1>6. CASE BeginDefault
  <2> DEFINE f == [Top EXCEPT !.kind = "default"]
  <2>1. Top.kind = "switch" /\ count' = count /\ open' = Swap(f)
    BY <1>6 DEF BeginDefault
  <2>2. f \in FrameType /\ f.kind = "default" /\ f.mark = Top.mark
    BY <1>1 DEF FrameType, BodyKinds
  <2>3. count' = Due(Top, count) /\ f.kind \notin ExprKinds \cup {"block"} /\ Top.mark = count
    BY <2>1, <2>2 DEF Due, ExprKinds, ScopeInv
  <2> QED
    BY <1>1, <2>1, <2>2, <2>3, ScopesSwap
<1> QED
  BY <1>2, <1>3, <1>4, <1>5, <1>6

LEMMA ScopesClose ==
  ASSUME IInv, IInv', ScopeInv,
         (EndThen /\ Top.alt = NoBlock) \/ EndElse \/ EndWhile \/ EndFor \/ EndSwitch \/ EndBlock
  PROVE  ScopeInv'
<1>1. phase = "body" /\ StmtFrame /\ open' = Pop
  BY DEF EndThen, EndElse, EndWhile, EndFor, EndSwitch, EndBlock, InBody
<1>2. /\ phase' = "body" /\ items' = items /\ depthOf' = depthOf /\ TypeOK /\ Nested
  BY <1>1 DEF StmtFrame, IInv, InBodyInv
<1>3. CASE EndBlock
  <2>1. Top.kind = "block" /\ count' = count /\ blocks' = blocks /\ cur' = cur
    BY <1>3 DEF EndBlock
  <2>2. Live' => Live
    BY <2>1 DEF Live
  <2> QED
    BY <1>1, <1>2, <2>1, <2>2, Deep, ScopesPop
<1>4. CASE (EndThen /\ Top.alt = NoBlock) \/ EndElse \/ EndWhile \/ EndFor \/ EndSwitch
  <2>1. /\ Top.kind \in {"then", "else", "while", "for", "switch", "default"}
        /\ count' = Top.mark
    BY <1>4 DEF EndThen, EndElse, EndWhile, EndFor, EndSwitch, StartBlock
  <2>2. count' = Due(Top, count) /\ Top.kind # "fn"
    BY <2>1 DEF Due, ExprKinds
  <2> QED
    BY <1>1, <1>2, <2>2, Deep, ScopesPop
<1> QED
  BY <1>3, <1>4

LEMMA ScopesNext ==
  ASSUME IInv, IInv', ScopeInv, Next, ~Jump, ~EndFn
  PROVE  ScopeInv'
<1>1. CASE Expression \/ Leaving \/ Defer
  BY <1>1, ScopesExpression, ScopesLeaving, ScopesDefer
<1>2. CASE If \/ While \/ For \/ Switch \/ BareBlock
  <2>1. \/ BeginWhile \/ BeginFor \/ BeginSwitch \/ BeginBlock
             \/ \E hasElse \in BOOLEAN : BeginIf(hasElse)
        \/ (EndThen /\ Top.alt # NoBlock) \/ EnterWhile \/ BeginCase \/ EndCase \/ BeginDefault
        \/ (EndThen /\ Top.alt = NoBlock) \/ EndElse \/ EndWhile \/ EndFor \/ EndSwitch \/ EndBlock
    BY <1>2 DEF If, While, For, Switch, BareBlock
  <2> QED
    BY <2>1, ScopesOpen, ScopesPart, ScopesClose
<1> QED
  BY <1>1, <1>2 DEF Next

\* The invariant of the list holds of a function not begun and is kept.
LEMMA DefersInit == Init => DefersInv
<1> SUFFICES ASSUME Init PROVE DefersInv
  OBVIOUS
<1>1. IInv
  BY InitInv
<1>2. items = <<>>
  BY DEF Init
<1> QED
  BY <1>1, <1>2, ScopesNone DEF DefersInv, IInv

LEMMA DefersKept ==
  ASSUME IInv, DefersInv, [Next]_vars
  PROVE  DefersInv'
<1>1. IInv' /\ TypeOK'
  BY NextKeeps DEF IInv
<1>2. profile' = profile
  BY DEF vars, Next, Expression, Leaving, Jump, If, While, For, Switch, BareBlock,
         BeginShort, EndShort, BoundsCheck, BeginArray, EndArray, NoReturnCall, Return, Break,
         Continue, LoopExitOutsideLoop, Defer, PlaceLabel, Goto, SkipConstruct, BeginIf, EndThen,
         EndElse, BeginWhile, EnterWhile, EndWhile, BeginFor, EndFor, BeginSwitch, BeginCase,
         EndCase, BeginDefault, EndSwitch, BeginBlock, EndBlock, EndFn, StmtFrame
<1>3. items' = items \/ Defer
  BY DEF vars, Next, Expression, Leaving, Jump, If, While, For, Switch, BareBlock,
         BeginShort, EndShort, BoundsCheck, BeginArray, EndArray, NoReturnCall, Return, Break,
         Continue, LoopExitOutsideLoop, PlaceLabel, Goto, SkipConstruct, BeginIf, EndThen,
         EndElse, BeginWhile, EnterWhile, EndWhile, BeginFor, EndFor, BeginSwitch, BeginCase,
         EndCase, BeginDefault, EndSwitch, BeginBlock, EndBlock, EndFn, StmtFrame
<1>4. (~Uses("defer"))' => items' = <<>>
  BY <1>2, <1>3 DEF DefersInv, Uses, Defer, Stmt
<1>5. ASSUME ~Uses("jump"), phase' = "body"
      PROVE  ScopeInv'
  <2>1. CASE UNCHANGED vars
    <3>1. ScopeInv
      BY <1>5, <2>1 DEF DefersInv, vars
    <3> QED
      BY <2>1, <3>1 DEF vars, ScopeInv, Top, Live
  <2>2. CASE Next
    <3>1. ~EndFn /\ ~Jump
      BY <1>5 DEF EndFn, Jump, PlaceLabel, Goto, SkipConstruct, Stmt
    <3>2. phase = "body"
      BY <2>2, <3>1 DEF Next, Expression, Leaving, Defer, If, While, For, Switch, BareBlock,
         BeginShort, EndShort, BoundsCheck, BeginArray, EndArray, NoReturnCall, Return, Break,
         Continue, LoopExitOutsideLoop, BeginIf, EndThen,
         EndElse, BeginWhile, EnterWhile, EndWhile, BeginFor, EndFor, BeginSwitch, BeginCase,
         EndCase, BeginDefault, EndSwitch, BeginBlock, EndBlock, Opens, Stmt, InBody, InExpr
    <3>3. ScopeInv
      BY <1>5, <3>2 DEF DefersInv
    <3> QED
      BY <1>1, <2>2, <3>1, <3>3, ScopesNext
  <2> QED
    BY <2>1, <2>2
<1> QED
  BY <1>2, <1>4, <1>5 DEF DefersInv, Uses

\* Functions that do not both defer and jump keep to the scopes.
LEMMA ScopesHold ==
  ASSUME IInv, DefersInv, Unmixed, phase = "body"
  PROVE  ScopeInv
  BY ScopesNone DEF DefersInv, Unmixed, IInv

\* In a function that does not both defer and jump, no deferred statement is on
\* the list once the construct it was registered in has been lowered: wherever
\* ST_lower_stmt lowers code, c->defers holds those of the constructs around it.
THEOREM DefersEndWithScope == Spec => [](Unmixed => DefersDieWithScope)
<1>1. IInv /\ DefersInv => (Unmixed => DefersDieWithScope)
  <2> SUFFICES ASSUME IInv, DefersInv, Unmixed, phase = "body", Live, NEW i \in 1 .. count
               PROVE  depthOf[items[i]] <= Depth
    BY DEF DefersDieWithScope
  <2>1. ScopeInv /\ DOMAIN open = 1 .. Len(open)
    BY ScopesHold, OpenFacts DEF IInv
  <2>2. Depth = Cardinality(Scopes(open, Len(open)))
    BY <2>1 DEF Depth, Scopes
  <2>3. Within(items, depthOf, count, Scopes(open, Len(open)))
    BY <2>1 DEF ScopeInv
  <2> QED
    BY <2>2, <2>3 DEF Within
<1>2. IInv /\ DefersInv /\ [Next]_vars => DefersInv'
  BY DefersKept
<1> QED
  BY <1>1, <1>2, Invariance, DefersInit, PTL DEF Spec
-----------------------------------------------------------------------------
(* What the calls of a step do to the lists the edges carry. *)

\* The blocks of a graph are a set of numbers.
IdSets == SUBSET Nat

\* A list for every block, empty as long as nothing has been deferred.
Tables == {E \in [Nat -> Seq(Nat)] : items = <<>> => \A b \in Nat : E[b] = <<>>}

\* A graph a step has come to: every edge carries the list E gives its target,
\* which is also the list the target is lowered with, and a return has run all.
\* I are blocks nobody leaves yet; other than these, only those of A have been
\* given a terminator since the step began.
Flow(g, D, E, I, A) ==
  /\ D \in IdSets /\ g \in [D -> Block]
  /\ \A b \in D : \A t \in Targets(g, b) : g[b].pend = E[t]
  /\ \A b \in D : g[b].term.kind = "ret" => g[b].pend = <<>>
  /\ \A b \in D : g[b].lowered => g[b].enter = E[b]
  /\ \A b \in I : b \in D /\ g[b].term.to = <<>> /\ g[b].term.kind # "ret"
  /\ \A b \in D : \/ b \in A \/ b \in I
                  \/ b \in Ids(blocks) /\ g[b].term = blocks[b].term

\* Two graphs whose blocks of D have the same deferred statements pending.
SamePends(g, h, D) == \A b \in D : h[b].pend = g[b].pend

\* A graph with another terminator or other predecessors for one block.
WithTerm(g, b, x)  == [g EXCEPT ![b].term = x]
WithPreds(g, b, x) == [g EXCEPT ![b].preds = x]

\* What updating one field of one block does.
LEMMA TermUpdate ==
  ASSUME NEW D, NEW g \in [D -> Block], NEW b \in D,
         NEW x \in [kind : TermKinds, to : Seq(Nat)]
  PROVE  /\ WithTerm(g, b, x) \in [D -> Block] /\ WithTerm(g, b, x)[b].term = x
         /\ WithTerm(g, b, x)[b].pend = g[b].pend
         /\ WithTerm(g, b, x)[b].lowered = g[b].lowered
         /\ WithTerm(g, b, x)[b].enter = g[b].enter
         /\ \A a \in D : a # b => WithTerm(g, b, x)[a] = g[a]
<1> DEFINE h == WithTerm(g, b, x)
           r == [g[b] EXCEPT !.term = x]
<1>1. /\ r \in Block /\ r.term = x /\ r.pend = g[b].pend
      /\ r.lowered = g[b].lowered /\ r.enter = g[b].enter
  <2>1. g[b] \in Block
    OBVIOUS
  <2> QED
    BY <2>1 DEF Block
<1>2. h = [g EXCEPT ![b] = r]
  BY DEF WithTerm
<1> HIDE DEF r, h
<1>3. /\ h \in [D -> Block] /\ h[b] = r
      /\ \A a \in D : a # b => h[a] = g[a]
  BY <1>1, <1>2
<1> QED
  BY <1>1, <1>3 DEF h

LEMMA PredsUpdate ==
  ASSUME NEW D, NEW g \in [D -> Block], NEW b \in D, NEW x \in Seq(Nat)
  PROVE  /\ WithPreds(g, b, x) \in [D -> Block] /\ WithPreds(g, b, x)[b].term = g[b].term
         /\ WithPreds(g, b, x)[b].pend = g[b].pend
         /\ WithPreds(g, b, x)[b].lowered = g[b].lowered
         /\ WithPreds(g, b, x)[b].enter = g[b].enter
         /\ \A a \in D : a # b => WithPreds(g, b, x)[a] = g[a]
<1> DEFINE h == WithPreds(g, b, x)
           r == [g[b] EXCEPT !.preds = x]
<1>1. /\ r \in Block /\ r.term = g[b].term /\ r.pend = g[b].pend
      /\ r.lowered = g[b].lowered /\ r.enter = g[b].enter
  <2>1. g[b] \in Block
    OBVIOUS
  <2> QED
    BY <2>1 DEF Block
<1>2. h = [g EXCEPT ![b] = r]
  BY DEF WithPreds
<1> HIDE DEF r, h
<1>3. /\ h \in [D -> Block] /\ h[b] = r
      /\ \A a \in D : a # b => h[a] = g[a]
  BY <1>1, <1>2
<1> QED
  BY <1>1, <1>3 DEF h

LEMMA SealUpdate ==
  ASSUME NEW D, NEW g \in [D -> Block], NEW b \in D
  PROVE  /\ Seal(g, b) \in [D -> Block]
         /\ \A a \in D : /\ Seal(g, b)[a].term = g[a].term /\ Seal(g, b)[a].pend = g[a].pend
                         /\ Seal(g, b)[a].lowered = g[a].lowered
                         /\ Seal(g, b)[a].enter = g[a].enter
<1> DEFINE r == [g[b] EXCEPT !.sealed = TRUE]
           h == Seal(g, b)
<1>1. /\ r \in Block /\ r.term = g[b].term /\ r.pend = g[b].pend
      /\ r.lowered = g[b].lowered /\ r.enter = g[b].enter
  <2>1. g[b] \in Block
    OBVIOUS
  <2> QED
    BY <2>1 DEF Block
<1>2. h = [g EXCEPT ![b] = r]
  BY DEF Seal
<1> HIDE DEF r, h
<1>3. /\ h \in [D -> Block]
      /\ \A a \in D : /\ h[a].term = g[a].term /\ h[a].pend = g[a].pend
                      /\ h[a].lowered = g[a].lowered /\ h[a].enter = g[a].enter
  BY <1>1, <1>2
<1> QED
  BY <1>3 DEF h

\* h is g but for the terminator of b.
Terminated(g, h, D, b, x) ==
  /\ h \in [D -> Block] /\ h[b].term = x
  /\ \A a \in D : /\ h[a].pend = g[a].pend /\ h[a].lowered = g[a].lowered
                  /\ h[a].enter = g[a].enter
                  /\ a # b => h[a].term = g[a].term

\* A terminator for a block of A: it goes where its list is expected.
LEMMA FlowTerm ==
  ASSUME NEW g, NEW D, NEW E, NEW I, NEW A, Flow(g, D, E, I, A),
         NEW b \in D, b \in A, NEW J, J = I \ {b}, NEW x \in [kind : TermKinds, to : Seq(Nat)],
         \A i \in DOMAIN x.to : g[b].pend = E[x.to[i]],
         x.kind = "ret" => g[b].pend = <<>>,
         NEW h, Terminated(g, h, D, b, x)
  PROVE  Flow(h, D, E, J, A) /\ SamePends(g, h, D)
<1>1. \A a \in D : a # b => Targets(h, a) = Targets(g, a)
  BY DEF Targets, Terminated
<1>2. Targets(h, b) = {x.to[i] : i \in DOMAIN x.to}
  BY DEF Targets, Terminated
<1>3. \A a \in D : \A t \in Targets(h, a) : h[a].pend = E[t]
  BY <1>1, <1>2 DEF Flow, Terminated
<1>4. \A a \in D : h[a].term.kind = "ret" => h[a].pend = <<>>
  BY DEF Flow, Terminated
<1>5. \A a \in D : h[a].lowered => h[a].enter = E[a]
  BY DEF Flow, Terminated
<1>6. \A a \in J : a \in D /\ h[a].term.to = <<>> /\ h[a].term.kind # "ret"
  BY DEF Flow, Terminated
<1>7. \A a \in D : a \in A \/ a \in J \/ (a \in Ids(blocks) /\ h[a].term = blocks[a].term)
  BY DEF Flow, Terminated
<1> QED
  BY <1>3, <1>4, <1>5, <1>6, <1>7 DEF Flow, SamePends, Terminated

\* The terminators: a branch, a branch on a condition, none, and a return.
LEMMA FlowBr ==
  ASSUME NEW g, NEW D, NEW E, NEW I, NEW A, Flow(g, D, E, I, A),
         NEW from \in D, from \in A, NEW to \in D, g[from].pend = E[to],
         NEW J, J = I \ {from}
  PROVE  /\ Flow(Br(g, from, to), D, E, J, A) /\ SamePends(g, Br(g, from, to), D)
         /\ Targets(Br(g, from, to), from) = {to}
         /\ \A a \in D : a # from => Br(g, from, to)[a].term = g[a].term
<1> DEFINE x == [kind |-> "br", to |-> <<to>>]
           p == Append(g[to].preds, from)
           g1 == WithTerm(g, from, x)
           g2 == WithPreds(g1, to, p)
<1>1. g \in [D -> Block]
  BY DEF Flow
<1>2. x.to = <<to>> /\ x.kind = "br"
  OBVIOUS
<1>a. x \in [kind : TermKinds, to : Seq(Nat)]
  BY DEF Flow, IdSets, TermKinds
<1>b. p \in Seq(Nat)
  <2>1. from \in Nat
    BY DEF Flow, IdSets
  <2>2. g[to].preds \in Seq(Nat)
    BY <1>1 DEF Block
  <2> QED
    BY <2>1, <2>2
<1>3. Br(g, from, to) = g2
  BY DEF Br, WithTerm, WithPreds
<1> HIDE DEF x, p
<1>4. /\ g1 \in [D -> Block] /\ g1[from].term = x
      /\ g1[from].pend = g[from].pend /\ g1[from].lowered = g[from].lowered
      /\ g1[from].enter = g[from].enter
      /\ \A a \in D : a # from => g1[a] = g[a]
  BY <1>1, <1>a, TermUpdate
<1> HIDE DEF g1
<1>5. /\ g2 \in [D -> Block] /\ g2[to].term = g1[to].term
      /\ g2[to].pend = g1[to].pend /\ g2[to].lowered = g1[to].lowered
      /\ g2[to].enter = g1[to].enter
      /\ \A a \in D : a # to => g2[a] = g1[a]
  BY <1>b, <1>4, PredsUpdate
<1> HIDE DEF g2
<1>6. Terminated(g, g2, D, from, x)
  BY <1>4, <1>5 DEF Terminated
<1>7. /\ \A i \in DOMAIN x.to : g[from].pend = E[x.to[i]]
      /\ x.kind # "ret" /\ {x.to[i] : i \in DOMAIN x.to} = {to}
  BY <1>2
<1>8. Flow(g2, D, E, J, A) /\ SamePends(g, g2, D)
  BY <1>a, <1>6, <1>7, FlowTerm
<1>9. Targets(g2, from) = {to}
  BY <1>6, <1>7 DEF Targets, Terminated
<1> QED
  BY <1>3, <1>6, <1>8, <1>9 DEF Terminated

LEMMA FlowCondBr ==
  ASSUME NEW g, NEW D, NEW E, NEW I, NEW A, Flow(g, D, E, I, A),
         NEW from \in D, from \in A, NEW t \in D, NEW f \in D,
         g[from].pend = E[t], g[from].pend = E[f], NEW J, J = I \ {from}
  PROVE  /\ Flow(CondBr(g, from, t, f), D, E, J, A) /\ SamePends(g, CondBr(g, from, t, f), D)
         /\ Targets(CondBr(g, from, t, f), from) = {t, f}
         /\ \A a \in D : a # from => CondBr(g, from, t, f)[a].term = g[a].term
<1> DEFINE x == [kind |-> "condbr", to |-> <<t, f>>]
           p == Append(g[t].preds, from)
           q == Append(g[f].preds, from)
           g1 == WithTerm(g, from, x)
           g2 == WithPreds(g1, t, p)
           g3 == WithPreds(g2, f, q)
<1>1. g \in [D -> Block]
  BY DEF Flow
<1>2. x.to = <<t, f>> /\ x.kind = "condbr"
  OBVIOUS
<1>a. x \in [kind : TermKinds, to : Seq(Nat)]
  <2>1. t \in Nat /\ f \in Nat
    BY DEF Flow, IdSets
  <2> QED
    BY <2>1 DEF TermKinds
<1>b. p \in Seq(Nat) /\ q \in Seq(Nat)
  BY <1>1 DEF Flow, IdSets, Block
<1>3. CondBr(g, from, t, f) = g3
  BY DEF CondBr, WithTerm, WithPreds
<1> HIDE DEF x, p, q
<1>4. /\ g1 \in [D -> Block] /\ g1[from].term = x
      /\ g1[from].pend = g[from].pend /\ g1[from].lowered = g[from].lowered
      /\ g1[from].enter = g[from].enter
      /\ \A a \in D : a # from => g1[a] = g[a]
  BY <1>1, <1>a, TermUpdate
<1> HIDE DEF g1
<1>5. /\ g2 \in [D -> Block] /\ g2[t].term = g1[t].term
      /\ g2[t].pend = g1[t].pend /\ g2[t].lowered = g1[t].lowered
      /\ g2[t].enter = g1[t].enter
      /\ \A a \in D : a # t => g2[a] = g1[a]
  BY <1>b, <1>4, PredsUpdate
<1> HIDE DEF g2
<1>6. /\ g3 \in [D -> Block] /\ g3[f].term = g2[f].term
      /\ g3[f].pend = g2[f].pend /\ g3[f].lowered = g2[f].lowered
      /\ g3[f].enter = g2[f].enter
      /\ \A a \in D : a # f => g3[a] = g2[a]
  BY <1>b, <1>5, PredsUpdate
<1> HIDE DEF g3
<1>7. Terminated(g, g3, D, from, x)
  BY <1>4, <1>5, <1>6 DEF Terminated
<1>8. /\ \A i \in DOMAIN x.to : g[from].pend = E[x.to[i]]
      /\ x.kind # "ret" /\ {x.to[i] : i \in DOMAIN x.to} = {t, f}
  <2>1. DOMAIN x.to = {1, 2} /\ x.to[1] = t /\ x.to[2] = f
    BY <1>2
  <2> QED
    BY <1>2, <2>1
<1>9. Flow(g3, D, E, J, A) /\ SamePends(g, g3, D)
  BY <1>a, <1>7, <1>8, FlowTerm
<1>10. Targets(g3, from) = {t, f}
  BY <1>7, <1>8 DEF Targets, Terminated
<1> QED
  BY <1>3, <1>7, <1>9, <1>10 DEF Terminated

\* Calls that change no list and no terminator: predecessors and seals.
LEMMA FlowSame ==
  ASSUME NEW g, NEW D, NEW E, NEW I, NEW A, Flow(g, D, E, I, A), NEW h \in [D -> Block],
         \A a \in D : /\ h[a].term = g[a].term /\ h[a].pend = g[a].pend
                      /\ h[a].lowered = g[a].lowered /\ h[a].enter = g[a].enter
  PROVE  Flow(h, D, E, I, A) /\ SamePends(g, h, D)
<1>1. \A a \in D : \A t \in Targets(h, a) : h[a].pend = E[t]
  <2>1. \A a \in D : Targets(h, a) = Targets(g, a)
    BY DEF Targets
  <2> QED
    BY <2>1 DEF Flow
<1>2. \A a \in D : /\ h[a].term.kind = "ret" => h[a].pend = <<>>
                   /\ h[a].lowered => h[a].enter = E[a]
  BY DEF Flow
<1>3. \A a \in I : a \in D /\ h[a].term.to = <<>> /\ h[a].term.kind # "ret"
  BY DEF Flow
<1>4. \A a \in D : a \in A \/ a \in I \/ (a \in Ids(blocks) /\ h[a].term = blocks[a].term)
  BY DEF Flow
<1>5. D \in IdSets
  BY DEF Flow
<1> QED
  BY <1>1, <1>2, <1>3, <1>4, <1>5 DEF Flow, SamePends

LEMMA FlowSeal ==
  ASSUME NEW g, NEW D, NEW E, NEW I, NEW A, Flow(g, D, E, I, A), NEW b \in D
  PROVE  Flow(Seal(g, b), D, E, I, A) /\ SamePends(g, Seal(g, b), D)
<1>1. g \in [D -> Block]
  BY DEF Flow
<1> QED
  BY <1>1, SealUpdate, FlowSame

LEMMA FlowSealAll ==
  ASSUME NEW g, NEW D, NEW E, NEW I, NEW A, Flow(g, D, E, I, A), NEW bs
  PROVE  Flow(SealAll(g, bs), D, E, I, A) /\ SamePends(g, SealAll(g, bs), D)
<1> DEFINE h == SealAll(g, bs)
<1>1. g \in [D -> Block] /\ DOMAIN g = D
  BY DEF Flow
<1>2. h = [b \in D |-> IF b \in bs THEN Seal(g, b)[b] ELSE g[b]]
  BY <1>1 DEF SealAll
<1>3. \A b \in D : /\ Seal(g, b)[b] \in Block
                   /\ Seal(g, b)[b].term = g[b].term /\ Seal(g, b)[b].pend = g[b].pend
                   /\ Seal(g, b)[b].lowered = g[b].lowered
                   /\ Seal(g, b)[b].enter = g[b].enter
  BY <1>1, SealUpdate
<1> HIDE DEF h
<1>4. /\ h \in [D -> Block]
      /\ \A a \in D : /\ h[a].term = g[a].term /\ h[a].pend = g[a].pend
                      /\ h[a].lowered = g[a].lowered /\ h[a].enter = g[a].enter
  BY <1>1, <1>2, <1>3
<1>5. Flow(h, D, E, I, A) /\ SamePends(g, h, D)
  BY <1>4, FlowSame
<1> QED
  BY <1>5 DEF h

LEMMA FlowUnreachable ==
  ASSUME NEW g, NEW D, NEW E, NEW I, NEW A, Flow(g, D, E, I, A), NEW b \in D,
         b \in A \/ b \in I
  PROVE  Flow(Unreachable(g, b), D, E, I, A) /\ SamePends(g, Unreachable(g, b), D)
<1> DEFINE x == [kind |-> "unreachable", to |-> <<>>]
           h == WithTerm(g, b, x)
<1>1. g \in [D -> Block]
  BY DEF Flow
<1>2. x \in [kind : TermKinds, to : Seq(Nat)] /\ x.to = <<>> /\ x.kind = "unreachable"
  BY DEF TermKinds
<1>3. Unreachable(g, b) = h
  BY DEF Unreachable, WithTerm
<1> HIDE DEF x
<1>4. /\ h \in [D -> Block] /\ h[b].term = x
      /\ h[b].pend = g[b].pend /\ h[b].lowered = g[b].lowered /\ h[b].enter = g[b].enter
      /\ \A a \in D : a # b => h[a] = g[a]
  BY <1>1, <1>2, TermUpdate
<1> HIDE DEF h
<1>5. Targets(h, b) = {}
  BY <1>2, <1>4 DEF Targets
<1>6. \A a \in D : a # b => Targets(h, a) = Targets(g, a)
  BY <1>4 DEF Targets
<1>7. \A a \in D : \A t \in Targets(h, a) : h[a].pend = E[t]
  BY <1>4, <1>5, <1>6 DEF Flow
<1>8. Flow(h, D, E, I, A)
  <2>1. \A a \in D : h[a].term.kind = "ret" => h[a].pend = <<>>
    BY <1>2, <1>4 DEF Flow
  <2>2. \A a \in D : h[a].lowered => h[a].enter = E[a]
    BY <1>4 DEF Flow
  <2>3. \A a \in I : a \in D /\ h[a].term.to = <<>> /\ h[a].term.kind # "ret"
    BY <1>2, <1>4 DEF Flow
  <2>4. \A a \in D : a \in A \/ a \in I \/ (a \in Ids(blocks) /\ h[a].term = blocks[a].term)
    BY <1>4 DEF Flow
  <2> QED
    BY <1>4, <1>7, <2>1, <2>2, <2>3, <2>4 DEF Flow
<1>9. SamePends(g, h, D)
  BY <1>4 DEF SamePends
<1> QED
  BY <1>3, <1>8, <1>9

LEMMA FlowRet ==
  ASSUME NEW g, NEW D, NEW E, NEW I, NEW A, Flow(g, D, E, I, A), NEW b \in D,
         b \in A, g[b].pend = <<>>, NEW J, J = I \ {b}
  PROVE  Flow(Ret(g, b), D, E, J, A) /\ SamePends(g, Ret(g, b), D)
<1> DEFINE x == [kind |-> "ret", to |-> <<>>]
           h == WithTerm(g, b, x)
<1>1. g \in [D -> Block]
  BY DEF Flow
<1>2. x \in [kind : TermKinds, to : Seq(Nat)] /\ x.to = <<>> /\ DOMAIN x.to = {}
  BY DEF TermKinds
<1>3. Ret(g, b) = h
  BY DEF Ret, WithTerm
<1> HIDE DEF x
<1>4. /\ h \in [D -> Block] /\ h[b].term = x
      /\ h[b].pend = g[b].pend /\ h[b].lowered = g[b].lowered /\ h[b].enter = g[b].enter
      /\ \A a \in D : a # b => h[a] = g[a]
  BY <1>1, <1>2, TermUpdate
<1> HIDE DEF h
<1>5. Terminated(g, h, D, b, x)
  BY <1>4 DEF Terminated
<1> QED
  BY <1>2, <1>3, <1>5, FlowTerm

\* A block nobody leaves yet is taken up, or runs the deferred statements.
LEMMA FlowPend ==
  ASSUME NEW g, NEW D, NEW E, NEW I, NEW A, Flow(g, D, E, I, A), NEW b \in I, NEW p,
         NEW h \in [D -> Block], h[b].pend = p, h[b].term = g[b].term,
         h[b].lowered => h[b].enter = E[b], \A a \in D : a # b => h[a] = g[a]
  PROVE  Flow(h, D, E, I, A)
<1>0. b \in D /\ DOMAIN g[b].term.to = {}
  BY DEF Flow
<1>1. \A a \in D : \A t \in Targets(h, a) : h[a].pend = E[t]
  <2>1. Targets(h, b) = {}
    BY <1>0 DEF Targets
  <2>2. \A a \in D : a # b => Targets(h, a) = Targets(g, a)
    BY DEF Targets
  <2> QED
    BY <2>1, <2>2 DEF Flow
<1>2. \A a \in D : /\ h[a].term.kind = "ret" => h[a].pend = <<>>
                   /\ h[a].lowered => h[a].enter = E[a]
  BY DEF Flow
<1>3. \A a \in I : a \in D /\ h[a].term.to = <<>> /\ h[a].term.kind # "ret"
  BY DEF Flow
<1>4. \A a \in D : a \in A \/ a \in I \/ (a \in Ids(blocks) /\ h[a].term = blocks[a].term)
  BY DEF Flow
<1>5. D \in IdSets
  BY DEF Flow
<1> QED
  BY <1>1, <1>2, <1>3, <1>4, <1>5 DEF Flow

LEMMA FlowTaken ==
  ASSUME NEW g, NEW D, NEW E, NEW I, NEW A, Flow(g, D, E, I, A), NEW b \in I,
         NEW p \in Seq(Nat), E[b] = p
  PROVE  /\ Flow(TakenUp(g, b, p), D, E, I, A) /\ TakenUp(g, b, p)[b].pend = p
         /\ \A a \in D : a # b => TakenUp(g, b, p)[a] = g[a]
<1> DEFINE r == [g[b] EXCEPT !.lowered = TRUE, !.enter = p, !.pend = p]
           h == TakenUp(g, b, p)
<1>1. g \in [D -> Block] /\ b \in D
  BY DEF Flow
<1>2. /\ r \in Block /\ r.term = g[b].term /\ r.pend = p /\ r.enter = p
  <2>1. g[b] \in Block
    BY <1>1
  <2> QED
    BY <2>1 DEF Block
<1>3. h = [g EXCEPT ![b] = r]
  BY <1>1 DEF TakenUp
<1> HIDE DEF r, h
<1>4. /\ h \in [D -> Block] /\ h[b] = r
      /\ \A a \in D : a # b => h[a] = g[a]
  BY <1>1, <1>2, <1>3
<1>5. Flow(h, D, E, I, A)
  BY <1>2, <1>4, FlowPend
<1> QED
  BY <1>2, <1>4, <1>5 DEF h

\* The deferred statements above a mark are what is left to discharge.
LEMMA Discharged ==
  ASSUME NEW list \in Seq(Nat), NEW n \in 0 .. Len(list), NEW m \in 0 .. n
  PROVE  Discharge(SubSeq(list, 1, n), SubSeq(list, m + 1, n)) = SubSeq(list, 1, m)
<1> DEFINE p == SubSeq(list, 1, n)
           run == SubSeq(list, m + 1, n)
<1>1. n \in Nat /\ m \in Nat /\ m <= n /\ n <= Len(list) /\ Len(list) \in Nat
  OBVIOUS
<1>2. /\ p \in Seq(Nat) /\ Len(p) = n
      /\ \A j \in 1 .. n : p[j] = list[j]
  BY <1>1
<1>3. Len(run) = n - m
  BY <1>1
<1>4. SubSeq(p, m + 1, n) = run
  BY <1>1
<1>5. SubSeq(p, 1, m) = SubSeq(list, 1, m)
  BY <1>1
<1> HIDE DEF p, run
<1>6. Len(p) - Len(run) = m /\ m >= 0
  BY <1>1, <1>2, <1>3
<1>7. Discharge(p, run) = SubSeq(p, 1, m)
  BY <1>2, <1>4, <1>6 DEF Discharge
<1> QED
  BY <1>5, <1>7 DEF p, run

\* ST_lower_run_defers: what is above the mark is discharged.
LEMMA FlowRun ==
  ASSUME TypeOK, NEW g, NEW D, NEW E, NEW I, NEW A, Flow(g, D, E, I, A), cur \in I,
         g[cur].pend = Pending(count), NEW m \in 0 .. count
  PROVE  /\ Flow(RunDefers(g, m), D, E, I, A) /\ RunDefers(g, m)[cur].pend = Pending(m)
         /\ \A a \in D : a # cur => RunDefers(g, m)[a] = g[a]
         /\ \A a \in D : RunDefers(g, m)[a].term = g[a].term
<1> DEFINE p == Discharge(g[cur].pend, SubSeq(items, m + 1, count))
           r == [g[cur] EXCEPT !.pend = p]
           h == RunDefers(g, m)
<1>1. g \in [D -> Block] /\ cur \in D /\ (g[cur].lowered => g[cur].enter = E[cur])
  BY DEF Flow
<1>2. items \in Seq(Nat) /\ count \in 0 .. Len(items)
  BY DEF TypeOK
<1>3. p = Pending(m)
  BY <1>2, Discharged DEF Pending
<1>4. Pending(m) \in Seq(Nat)
  <2>1. m \in 0 .. Len(items)
    BY <1>2
  <2> QED
    BY <2>1, PendingIsList
<1> HIDE DEF p
<1>5. /\ r \in Block /\ r.term = g[cur].term /\ r.pend = Pending(m)
      /\ r.lowered = g[cur].lowered /\ r.enter = g[cur].enter
  <2>1. g[cur] \in Block
    BY <1>1
  <2> QED
    BY <1>3, <1>4, <2>1 DEF Block
<1>6. h = [g EXCEPT ![cur] = r]
  BY <1>1 DEF RunDefers, p
<1> HIDE DEF r, h
<1>7. /\ h \in [D -> Block] /\ h[cur] = r
      /\ \A a \in D : a # cur => h[a] = g[a]
  BY <1>1, <1>5, <1>6
<1>8. Flow(h, D, E, I, A)
  BY <1>1, <1>5, <1>7, FlowPend
<1> QED
  BY <1>5, <1>7, <1>8 DEF h

\* Fewer of the blocks are said to be left by nobody.
LEMMA FlowFewer ==
  ASSUME NEW g, NEW D, NEW E, NEW I, NEW A, Flow(g, D, E, I, A), NEW b \in A, NEW J, J = I \ {b}
  PROVE  Flow(g, D, E, J, A)
<1>1. \A a \in J : a \in D /\ g[a].term.to = <<>> /\ g[a].term.kind # "ret"
  BY DEF Flow
<1>2. \A a \in D : a \in A \/ a \in J \/ (a \in Ids(blocks) /\ g[a].term = blocks[a].term)
  BY DEF Flow
<1> QED
  BY <1>1, <1>2 DEF Flow

\* The end of a body, and the join its construct seals.
LEMMA FlowClose ==
  ASSUME TypeOK, NEW g, NEW D, NEW E, NEW I, NEW A, Flow(g, D, E, I, A), cur \in D, cur \in A,
         IsOpen(g, cur) => /\ cur \in I /\ g[cur].pend = Pending(count)
                           /\ Top.mark \in 0 .. count,
         NEW to \in D, E[to] = Pending(Top.mark), NEW J, J = I \ {cur}
  PROVE  Flow(CloseBody(g, to), D, E, J, A)
<1>1. CASE IsOpen(g, cur)
  <2> DEFINE h == RunDefers(g, Top.mark)
  <2>1. Flow(h, D, E, I, A) /\ h[cur].pend = Pending(Top.mark)
    BY <1>1, FlowRun
  <2>2. CloseBody(g, to) = Br(h, cur, to)
    BY <1>1 DEF CloseBody
  <2> HIDE DEF h
  <2> QED
    BY <2>1, <2>2, FlowBr
<1>2. CASE ~IsOpen(g, cur)
  <2>1. CloseBody(g, to) = g
    BY <1>2 DEF CloseBody
  <2> QED
    BY <2>1, FlowFewer
<1> QED
  BY <1>1, <1>2

LEMMA FlowJoin ==
  ASSUME NEW g, NEW D, NEW E, NEW I, NEW A, Flow(g, D, E, I, A), NEW b \in I
  PROVE  Flow(CloseUnreached(Seal(g, b), b), D, E, I, A)
<1> DEFINE h == Seal(g, b)
<1>1. b \in D
  BY DEF Flow
<1>2. Flow(h, D, E, I, A)
  BY <1>1, FlowSeal
<1> HIDE DEF h
<1>3. Flow(Unreachable(h, b), D, E, I, A)
  BY <1>1, <1>2, FlowUnreachable
<1>4. Flow(CloseUnreached(h, b), D, E, I, A)
  BY <1>2, <1>3 DEF CloseUnreached
<1> QED
  BY <1>4 DEF h

\* New blocks, which nobody leaves yet.
LEMMA GrownBlocks ==
  ASSUME NEW g \in Seq(Block), NEW n \in Nat
  PROVE  /\ WithBlocks(g, n) \in [Ids(WithBlocks(g, n)) -> Block]
         /\ Len(WithBlocks(g, n)) = Len(g) + n
         /\ Ids(g) \subseteq Ids(WithBlocks(g, n))
         /\ Ids(WithBlocks(g, n)) \ Ids(g) = (Len(g) + 1) .. (Len(g) + n)
         /\ \A b \in Ids(g) : WithBlocks(g, n)[b] = g[b]
         /\ \A b \in Ids(WithBlocks(g, n)) \ Ids(g) : WithBlocks(g, n)[b] = FreshBlock
<1> DEFINE new == [i \in 1 .. n |-> FreshBlock]
           h == WithBlocks(g, n)
<1>1. FreshBlock \in Block
  BY DEF FreshBlock, NoTerm, Block, TermKinds
<1>2. /\ new \in Seq(Block) /\ Len(new) = n
      /\ \A i \in 1 .. n : new[i] = FreshBlock
  BY <1>1
<1>3. Len(g) \in Nat
  OBVIOUS
<1> HIDE DEF new
<1>4. h \in Seq(Block) /\ h = g \o new /\ Len(h) = Len(g) + n
  BY <1>2, <1>3 DEF WithBlocks, new
<1>5. \A b \in Ids(g) : b \in Ids(h) /\ h[b] = g[b]
  BY <1>2, <1>3, <1>4 DEF Ids
<1>6. \A b \in (Len(g) + 1) .. (Len(g) + n) : h[b] = FreshBlock
  <2> SUFFICES ASSUME NEW b \in (Len(g) + 1) .. (Len(g) + n)
               PROVE  h[b] = FreshBlock
    OBVIOUS
  <2>1. b - Len(g) \in 1 .. n /\ h[b] = new[b - Len(g)]
    BY <1>2, <1>3, <1>4
  <2> QED
    BY <1>2, <2>1
<1> HIDE DEF h
<1>7. Ids(h) \ Ids(g) = (Len(g) + 1) .. (Len(g) + n)
  BY <1>3, <1>4 DEF Ids
<1>8. h \in [Ids(h) -> Block]
  <2>1. h \in Seq(Block)
    BY <1>4
  <2> QED
    BY <2>1 DEF Ids
<1> QED
  BY <1>4, <1>5, <1>6, <1>7, <1>8 DEF h

LEMMA FlowGrow ==
  ASSUME NEW g \in Seq(Block), NEW E, NEW I, NEW A, Flow(g, Ids(g), E, I, A), NEW n \in Nat,
         NEW h, h = WithBlocks(g, n), NEW J, J = I \cup (Ids(h) \ Ids(g))
  PROVE  Flow(h, Ids(h), E, J, A)
<1>1. /\ h \in [Ids(h) -> Block] /\ Ids(g) \subseteq Ids(h)
      /\ \A b \in Ids(g) : h[b] = g[b]
      /\ \A b \in Ids(h) \ Ids(g) : h[b] = FreshBlock
  BY GrownBlocks
<1>2. Ids(h) \in IdSets
  BY DEF Ids, IdSets
<1>3. /\ FreshBlock.term.to = <<>> /\ FreshBlock.term.kind = "none" /\ ~FreshBlock.lowered
      /\ DOMAIN FreshBlock.term.to = {}
  BY DEF FreshBlock, NoTerm
<1>4. \A a \in Ids(h) : \A t \in Targets(h, a) : h[a].pend = E[t]
  <2>1. \A a \in Ids(g) : Targets(h, a) = Targets(g, a)
    BY <1>1 DEF Targets
  <2>2. \A a \in Ids(h) \ Ids(g) : Targets(h, a) = {}
    BY <1>1, <1>3 DEF Targets
  <2> QED
    BY <1>1, <2>1, <2>2 DEF Flow
<1>5. \A a \in Ids(h) : /\ h[a].term.kind = "ret" => h[a].pend = <<>>
                        /\ h[a].lowered => h[a].enter = E[a]
  BY <1>1, <1>3 DEF Flow
<1>6. \A a \in J : a \in Ids(h) /\ h[a].term.to = <<>> /\ h[a].term.kind # "ret"
  BY <1>1, <1>3 DEF Flow
<1>7. \A a \in Ids(h) : a \in A \/ a \in J \/ (a \in Ids(blocks) /\ h[a].term = blocks[a].term)
  BY <1>1 DEF Flow
<1> QED
  BY <1>1, <1>2, <1>4, <1>5, <1>6, <1>7 DEF Flow

\* Blocks taken up: c->cur, and the dead block after control left for good.
LEMMA FlowStart ==
  ASSUME TypeOK, NEW g, NEW D, NEW E, NEW I, NEW A, Flow(g, D, E, I, A), NEW b \in I,
         NEW n \in 0 .. Len(items), E[b] = Pending(n), StartBlock(g, b, n)
  PROVE  Flow(blocks', D, E, I, A) /\ cur' = b /\ count' = n /\ blocks'[b].pend = Pending(n)
<1>1. blocks' = TakenUp(g, b, Pending(n)) /\ cur' = b /\ count' = n
  BY DEF StartBlock, TakenUp
<1>2. Pending(n) \in Seq(Nat)
  BY PendingIsList
<1> QED
  BY <1>1, <1>2, FlowTaken

LEMMA FlowDead ==
  ASSUME TypeOK, NEW f, Len(f) \in Nat, NEW g, NEW E, NEW I, NEW A, Flow(g, Ids(f), E, I, A),
         NEW n \in 0 .. Len(items), E[Len(f) + 1] = Pending(n), StartDeadBlock(g, n),
         NEW J, J = I \cup {Len(f) + 1}
  PROVE  /\ Flow(blocks', Ids(blocks'), E, J, A) /\ count' = n
         /\ blocks'[cur'].pend = Pending(count')
<1> DEFINE g1 == WithBlocks(g, 1)
           dead == Len(g) + 1
           g2 == Seal(g1, dead)
           g3 == Unreachable(g2, dead)
<1>1. g \in Seq(Block) /\ Len(g) = Len(f) /\ Ids(g) = Ids(f)
  <2>1. g \in [Ids(f) -> Block]
    BY DEF Flow
  <2>2. g \in Seq(Block) /\ Len(g) = Len(f)
    BY <2>1, SameLength
  <2> QED
    BY <2>2 DEF Ids
<1>2. /\ Len(g1) = Len(g) + 1 /\ Ids(g1) \ Ids(g) = {dead} /\ Ids(g) \subseteq Ids(g1)
      /\ Len(g1) \in Nat
  <2>1. Len(g) + 1 \in Nat /\ (Len(g) + 1) .. (Len(g) + 1) = {dead}
    BY <1>1
  <2> QED
    BY <1>1, <2>1, GrownBlocks
<1>3. Flow(g1, Ids(g1), E, J, A)
  <2>1. J = I \cup (Ids(g1) \ Ids(g))
    BY <1>1, <1>2
  <2> QED
    BY <1>1, <2>1, FlowGrow
<1>4. dead \in Ids(g1) /\ dead \in J /\ E[dead] = Pending(n)
  BY <1>1, <1>2
<1>5. StartBlock(g3, dead, n)
  BY DEF StartDeadBlock
<1> HIDE DEF g1, dead
<1>6. Flow(g2, Ids(g1), E, J, A)
  BY <1>3, <1>4, FlowSeal
<1> HIDE DEF g2
<1>7. Flow(g3, Ids(g1), E, J, A)
  BY <1>4, <1>6, FlowUnreachable
<1> HIDE DEF g3
<1>8. /\ Flow(blocks', Ids(g1), E, J, A) /\ count' = n
      /\ blocks'[cur'].pend = Pending(count')
  BY <1>4, <1>5, <1>7, FlowStart
<1>9. Ids(blocks') = Ids(g1)
  <2>1. blocks' \in [Ids(g1) -> Block]
    BY <1>8 DEF Flow
  <2>2. Len(blocks') = Len(g1)
    BY <1>2, <2>1, SameLength
  <2> QED
    BY <2>2 DEF Ids
<1> QED
  BY <1>8, <1>9

-----------------------------------------------------------------------------
(* The invariant: a list for every block. *)

\* The first n of a list; with the current list this is Pending.
Listed(list, n) == SubSeq(list, 1, n)

\* The list of E for a block is that of each edge to it and that it is lowered
\* with, and a return has run all.
Settled(g, E) ==
  \A b \in Ids(g) : /\ \A t \in Targets(g, b) : g[b].pend = E[t]
                    /\ g[b].term.kind = "ret" => g[b].pend = <<>>
                    /\ g[b].lowered => g[b].enter = E[b]

\* The blocks a construct keeps are for the list as it was at its opening.
Promised(st, n, list, E) ==
  \A i \in DOMAIN st : \A b \in Held(st[i]) : E[b] = Listed(list, Due(st[i], n))

\* What is still to be lowered has the lists it will be lowered with: the
\* current block, those the constructs keep, and those of labels, which find none.
Waits(E) ==
  /\ Live => blocks[cur].pend = Listed(items, count)
  /\ Promised(open, count, items, E)
  /\ \A l \in Label : labels[l] # NoBlock => E[labels[l]] = <<>>

\* Every block has a list.
FlowInv == \E E \in Tables : Settled(blocks, E) /\ (phase = "body" => Waits(E))

\* New edges only from blocks of A.
NewEdges(A) ==
  \A b \in DOMAIN blocks' : \/ b \in A \/ Targets(blocks', b) = {}
                            \/ b \in Ids(blocks) /\ blocks'[b].term = blocks[b].term

\* The lists E are those FlowInv says there are.
Lists(E) == E \in Tables /\ Settled(blocks, E) /\ Waits(E)

\* E with the list of length m for the blocks a step adds.
Extended(E, m) == [b \in Nat |-> IF b \in Ids(blocks) THEN E[b] ELSE Pending(m)]

\* The blocks nobody leaves yet.
OpenIn(g) == {b \in Ids(g) : IsOpen(g, b)}

\* The graph a step starts from.
LEMMA FlowBegin ==
  ASSUME IInv, phase = "body", NEW E, Lists(E), NEW m \in 0 .. Len(items), NEW A, NEW n \in Nat
  PROVE  /\ Flow(WithBlocks(blocks, n), Ids(WithBlocks(blocks, n)), Extended(E, m),
                 OpenIn(WithBlocks(blocks, n)), A)
         /\ Extended(E, m) \in Tables
         /\ \A b \in Ids(blocks) : Extended(E, m)[b] = E[b]
         /\ \A b \in Nat \ Ids(blocks) : Extended(E, m)[b] = Pending(m)
<1> DEFINE I0 == OpenIn(blocks)
           g == WithBlocks(blocks, n)
           I == OpenIn(g)
           F == Extended(E, m)
<1>1. Consistent(blocks) /\ blocks \in Seq(Block) /\ blocks \in [Ids(blocks) -> Block]
  BY BodyFacts, GraphFacts
<1>2. /\ F \in Tables
      /\ \A b \in Ids(blocks) : F[b] = E[b]
      /\ \A b \in Nat \ Ids(blocks) : F[b] = Pending(m)
  <2>1. /\ Pending(m) \in Seq(Nat) /\ E \in [Nat -> Seq(Nat)]
        /\ items = <<>> => \A b \in Nat : E[b] = <<>>
    BY BodyFacts, PendingIsList DEF Lists, Tables
  <2>2. Ids(blocks) \subseteq Nat
    BY DEF Ids
  <2>3. items = <<>> => Pending(m) = <<>>
    BY BodyFacts DEF Pending
  <2>4. /\ F \in [Nat -> Seq(Nat)]
        /\ \A b \in Ids(blocks) : F[b] = E[b]
        /\ \A b \in Nat \ Ids(blocks) : F[b] = Pending(m)
    BY <2>1, <2>2 DEF Extended
  <2>5. items = <<>> => \A b \in Nat : F[b] = <<>>
    BY <2>1, <2>3, <2>4
  <2> HIDE DEF F
  <2> QED
    BY <2>4, <2>5 DEF Tables
<1> HIDE DEF F
<1>3. Flow(blocks, Ids(blocks), F, I0, A)
  <2>1. \A b \in Ids(blocks) : \A t \in Targets(blocks, b) : blocks[b].pend = F[t]
    <3>1. \A b \in Ids(blocks) : Targets(blocks, b) \subseteq Ids(blocks)
      BY <1>1 DEF Consistent
    <3>2. \A b \in Ids(blocks) : \A t \in Targets(blocks, b) : blocks[b].pend = E[t]
      BY DEF Lists, Settled
    <3>3. \A b \in Ids(blocks) : F[b] = E[b]
      BY <1>2
    <3> QED
      BY <3>1, <3>2, <3>3
  <2>2. \A b \in Ids(blocks) : /\ blocks[b].term.kind = "ret" => blocks[b].pend = <<>>
                               /\ blocks[b].lowered => blocks[b].enter = F[b]
    <3>1. \A b \in Ids(blocks) : /\ blocks[b].term.kind = "ret" => blocks[b].pend = <<>>
                                 /\ blocks[b].lowered => blocks[b].enter = E[b]
      BY DEF Lists, Settled
    <3>2. \A b \in Ids(blocks) : F[b] = E[b]
      BY <1>2
    <3> QED
      BY <3>1, <3>2
  <2>3. \A b \in I0 : b \in Ids(blocks) /\ blocks[b].term.to = <<>> /\ blocks[b].term.kind # "ret"
    BY <1>1 DEF Consistent, IsOpen, OpenIn
  <2>4. Ids(blocks) \in IdSets
    BY DEF Ids, IdSets
  <2>5. \A b \in Ids(blocks) : \/ b \in A \/ b \in I0
                               \/ b \in Ids(blocks) /\ blocks[b].term = blocks[b].term
    BY DEF OpenIn
  <2>6. blocks \in [Ids(blocks) -> Block]
    BY <1>1
  <2> HIDE DEF I0
  <2> QED
    BY <2>1, <2>2, <2>3, <2>4, <2>5, <2>6 DEF Flow
<1>4. I = I0 \cup (Ids(g) \ Ids(blocks))
  BY NewBlocks DEF OpenIn
<1> HIDE DEF I0, g, I
<1>5. Flow(g, Ids(g), F, I, A)
  <2>1. g = WithBlocks(blocks, n)
    BY DEF g
  <2> QED
    BY <1>1, <1>3, <1>4, <2>1, FlowGrow
<1> QED
  BY <1>2, <1>5 DEF g, I, F

\* Every construct that is open after the step keeps its blocks for their lists.
Frames(F) ==
  \A i \in DOMAIN open' :
    \/ i \in DOMAIN open /\ Like(open'[i], open[i])
    \/ \A b \in Held(open'[i]) : F[b] = Pending(Due(open'[i], count'))

\* From the graph a step ends with to the invariant.
LEMMA FlowSettled ==
  ASSUME TypeOK', NEW F, NEW I, NEW A, NEW D, Flow(blocks', D, F, I, A)
  PROVE  Settled(blocks', F) /\ NewEdges(A)
<1>1. Flow(blocks', Ids(blocks'), F, I, A) /\ DOMAIN blocks' = Ids(blocks')
  <2>1. DOMAIN blocks' = D
    BY DEF Flow
  <2>2. DOMAIN blocks' = Ids(blocks')
    BY GraphFacts DEF TypeOK
  <2> QED
    BY <2>1, <2>2
<1>2. Settled(blocks', F)
  BY <1>1 DEF Flow, Settled
<1>3. \A b \in I : Targets(blocks', b) = {}
  <2>1. \A b \in I : DOMAIN blocks'[b].term.to = {}
    BY <1>1 DEF Flow
  <2> QED
    BY <2>1 DEF Targets
<1>4. \A b \in Ids(blocks') : \/ b \in A \/ b \in I
                              \/ b \in Ids(blocks) /\ blocks'[b].term = blocks[b].term
  BY <1>1 DEF Flow
<1>5. NewEdges(A)
  BY <1>1, <1>3, <1>4 DEF NewEdges
<1> QED
  BY <1>2, <1>5

LEMMA FlowEnd ==
  ASSUME IInv, IInv', phase = "body", items' = items,
         NEW E, Lists(E), NEW F \in Tables, \A b \in Ids(blocks) : F[b] = E[b],
         NEW I, NEW A, NEW D, Flow(blocks', D, F, I, A),
         Live' => blocks'[cur'].pend = Pending(count'),
         count' = count \/ Top.kind \notin ExprKinds,
         Frames(F),
         \/ labels' = labels
         \/ \A l \in Label : labels'[l] # NoBlock => F[labels'[l]] = <<>>
  PROVE  FlowInv' /\ NewEdges(A)
<1>1. TypeOK /\ Nested /\ Owned /\ LabelsOwned /\ Consistent(blocks')
  BY BodyFacts DEF IInv, TypeOK
<1>2. Settled(blocks', F) /\ NewEdges(A)
  BY FlowSettled DEF IInv
<1>3. Promised(open', count', items', F)
  <2> SUFFICES ASSUME NEW i \in DOMAIN open', NEW b \in Held(open'[i])
               PROVE  F[b] = Listed(items, Due(open'[i], count'))
    BY DEF Promised
  <2>1. CASE i \in DOMAIN open /\ Like(open'[i], open[i])
    <3>1. Held(open'[i]) = Held(open[i]) /\ Due(open'[i], count) = Due(open[i], count)
      BY <2>1 DEF Like, Held, Due
    <3>2. b \in Ids(blocks) /\ E[b] = Listed(items, Due(open[i], count))
      BY <1>1, <2>1, <3>1 DEF Owned, Lists, Waits, Promised
    <3>3. Due(open'[i], count') = Due(open'[i], count)
      <4>1. CASE count' = count
        BY <4>1
      <4>2. CASE Top.kind \notin ExprKinds
        <5>1. open[i].kind \notin ExprKinds
          BY <1>1, <2>1, <4>2, NoExprBelow
        <5> QED
          BY <2>1, <5>1 DEF Like, Due
      <4> QED
        BY <4>1, <4>2
    <3> QED
      BY <3>1, <3>2, <3>3
  <2>2. CASE \A c \in Held(open'[i]) : F[c] = Pending(Due(open'[i], count'))
    BY <2>2 DEF Pending, Listed
  <2> QED
    BY <2>1, <2>2 DEF Frames
<1>4. \A l \in Label : labels'[l] # NoBlock => F[labels'[l]] = <<>>
  BY <1>1 DEF LabelsOwned, Lists, Waits
<1>5. Live' => blocks'[cur'].pend = Listed(items', count')
  BY DEF Pending, Listed
<1>6. FlowInv'
  <2>1. Waits(F)'
    BY <1>3, <1>4, <1>5 DEF Waits
  <2>2. F \in Tables'
    BY DEF Tables
  <2> QED
    BY <1>2, <2>1, <2>2 DEF FlowInv
<1> QED
  BY <1>2, <1>6

\* What is known of the block and the construct a step works on.
LEMMA FlowTop ==
  ASSUME IInv, phase = "body", ScopeInv, NEW E, Lists(E)
  PROVE  /\ TypeOK /\ Len(blocks) \in Nat /\ cur \in Ids(blocks)
         /\ count \in 0 .. Len(items) /\ Top.mark \in 0 .. Len(items)
         /\ Due(Top, count) \in 0 .. Len(items)
         /\ Live => blocks[cur].pend = Pending(count) /\ Due(Top, count) \in 0 .. count
         /\ \A b \in Held(Top) : b \in Ids(blocks) /\ E[b] = Pending(Due(Top, count))
         /\ \A b \in Awaits(Top) : IsOpen(blocks, b) /\ b # cur
         /\ blocks = WithBlocks(blocks, 0)
<1>1. /\ /\ TypeOK /\ cur \in Ids(blocks) /\ count \in 0 .. Len(items)
      /\ Top.mark \in 0 .. Len(items)
      /\ \A b \in Held(Top) : b \in Ids(blocks)
      /\ \A b \in Awaits(Top) : IsOpen(blocks, b) /\ b # cur
      /\ Consistent(blocks)
  BY BodyFacts
<1>2. Len(blocks) \in Nat /\ blocks = WithBlocks(blocks, 0)
  BY <1>1, GraphFacts, GrowNothing
<1>3. Top = open[Len(open)] /\ Len(open) \in DOMAIN open
  BY <1>1, OpenFacts
<1>4. \A b \in Held(Top) : E[b] = Pending(Due(Top, count))
  BY <1>3 DEF Lists, Waits, Promised, Pending, Listed
<1>5. Live => blocks[cur].pend = Pending(count)
  BY DEF Lists, Waits, Pending, Listed
<1>6. Due(Top, count) \in 0 .. Len(items)
  BY <1>1, DueFacts
<1>7. Live => Due(Top, count) \in 0 .. count
  BY <1>1, <1>6 DEF ScopeInv
<1> QED
  BY <1>1, <1>2, <1>4, <1>5, <1>6, <1>7

\* The four kinds of step of the stack: constructs other than those of N are as
\* before.
OnlyNew(N) ==
  \A i \in DOMAIN open' : open'[i] \in N \/ (i \in DOMAIN open /\ Like(open'[i], open[i]))

LEMMA StackKeep ==
  ASSUME TypeOK, open' \in {open, Branched}
  PROVE  OnlyNew({})
  BY BranchedFacts DEF OnlyNew

LEMMA StackPop ==
  ASSUME TypeOK, Len(open) >= 2, open' = Pop
  PROVE  OnlyNew({})
<1>1. /\ DOMAIN Pop = 1 .. (Len(open) - 1)
      /\ \A i \in 1 .. (Len(open) - 1) : Pop[i] = open[i]
  BY PopFacts
<1>2. \A i \in 1 .. (Len(open) - 1) : i \in DOMAIN open
  BY OpenFacts
<1> QED
  BY <1>1, <1>2 DEF OnlyNew, Like

LEMMA StackPush ==
  ASSUME TypeOK, NEW f \in FrameType, open' \in {Append(open, f), Append(Branched, f)}
  PROVE  OnlyNew({f})
<1>1. /\ DOMAIN open' = 1 .. (Len(open) + 1) /\ open'[Len(open) + 1] = f
      /\ \A i \in DOMAIN open : Like(open'[i], open[i])
  BY PushFacts
<1>2. \A i \in 1 .. (Len(open) + 1) : i \in DOMAIN open \/ i = Len(open) + 1
  BY OpenFacts
<1> QED
  BY <1>1, <1>2 DEF OnlyNew

LEMMA StackSwap ==
  ASSUME TypeOK, NEW f \in FrameType, open' = Swap(f)
  PROVE  OnlyNew({f})
<1>1. /\ DOMAIN open' = DOMAIN open /\ open'[Len(open)] = f
      /\ \A i \in DOMAIN open : i # Len(open) => open'[i] = open[i]
  BY SwapFacts
<1> QED
  BY <1>1 DEF OnlyNew, Like

\* The same steps, with the lists of the blocks that are kept.
LEMMA FramesKeep ==
  ASSUME TypeOK, open' \in {open, Branched}, NEW F
  PROVE  Frames(F)
  BY StackKeep DEF OnlyNew, Frames

LEMMA FramesPop ==
  ASSUME TypeOK, Len(open) >= 2, open' = Pop, NEW F
  PROVE  Frames(F)
  BY StackPop DEF OnlyNew, Frames

LEMMA FramesPush ==
  ASSUME TypeOK, NEW f \in FrameType, open' \in {Append(open, f), Append(Branched, f)}, NEW F,
         \A b \in Held(f) : F[b] = Pending(Due(f, count'))
  PROVE  Frames(F)
<1>1. OnlyNew({f})
  BY StackPush
<1> QED
  BY <1>1 DEF OnlyNew, Frames

LEMMA FramesSwap ==
  ASSUME TypeOK, NEW f \in FrameType, open' = Swap(f), NEW F,
         \A b \in Held(f) : F[b] = Pending(Due(f, count'))
  PROVE  Frames(F)
<1>1. OnlyNew({f})
  BY StackSwap
<1> QED
  BY <1>1 DEF OnlyNew, Frames

\* Steps that start from the blocks there are.
LEMMA FlowOld ==
  ASSUME IInv, phase = "body", ScopeInv, NEW E, Lists(E), NEW A,
         NEW F, F = Extended(E, count), NEW I, I = OpenIn(blocks)
  PROVE  /\ Flow(blocks, Ids(blocks), F, I, A) /\ F \in Tables
         /\ \A b \in Ids(blocks) : F[b] = E[b]
         /\ \A b \in Held(Top) : b \in Ids(blocks) /\ F[b] = Pending(Due(Top, count))
         /\ \A b \in Awaits(Top) : b \in I /\ b # cur
         /\ IsOpen(blocks, cur) => /\ cur \in I /\ blocks[cur].pend = Pending(count)
                                   /\ Due(Top, count) \in 0 .. count
<1>1. /\ blocks = WithBlocks(blocks, 0) /\ 0 \in Nat /\ count \in 0 .. Len(items)
      /\ cur \in Ids(blocks)
  BY FlowTop
<1>2. /\ Flow(blocks, Ids(blocks), F, I, A) /\ F \in Tables
      /\ \A b \in Ids(blocks) : F[b] = E[b]
  BY <1>1, FlowBegin
<1>3. /\ \A b \in Held(Top) : b \in Ids(blocks) /\ E[b] = Pending(Due(Top, count))
      /\ \A b \in Awaits(Top) : b \in Held(Top) /\ IsOpen(blocks, b) /\ b # cur
      /\ Live => blocks[cur].pend = Pending(count) /\ Due(Top, count) \in 0 .. count
  BY FlowTop DEF Awaits, Held
<1> QED
  BY <1>1, <1>2, <1>3 DEF Live, OpenIn

\* Steps that add blocks, which are for the list as it is.
Widened(g, n, E, F, I, A) ==
  /\ Flow(g, Ids(g), F, I, A) /\ F \in Tables
  /\ \A b \in Ids(blocks) : F[b] = E[b]
  /\ cur \in I /\ cur \in Ids(g) /\ g[cur].pend = Pending(count)
  /\ \A b \in Ids(g) \ Ids(blocks) : F[b] = Pending(count) /\ b \in I /\ b # cur
  /\ Ids(g) \ Ids(blocks) = (Len(blocks) + 1) .. (Len(blocks) + n)
  /\ Len(blocks) \in Nat

LEMMA FlowNew ==
  ASSUME IInv, phase = "body", Live, NEW E, Lists(E), NEW A, NEW n \in Nat
  PROVE  Widened(WithBlocks(blocks, n), n, E, Extended(E, count),
                 OpenIn(WithBlocks(blocks, n)), A)
<1> DEFINE g == WithBlocks(blocks, n)
           F == Extended(E, count)
           I == OpenIn(g)
<1>1. count \in 0 .. Len(items)
  BY BodyFacts
<1>2. /\ Flow(g, Ids(g), F, I, A) /\ F \in Tables
      /\ \A b \in Ids(blocks) : F[b] = E[b]
      /\ \A b \in Nat \ Ids(blocks) : F[b] = Pending(count)
  BY <1>1, FlowBegin
<1> HIDE DEF F
<1>3. /\ cur \in Ids(g) /\ IsOpen(g, cur) /\ g[cur] = blocks[cur]
      /\ \A b \in Ids(g) \ Ids(blocks) : IsOpen(g, b) /\ b # cur /\ b \in Nat
      /\ Ids(g) \ Ids(blocks) = (Len(blocks) + 1) .. (Len(blocks) + n)
      /\ Len(blocks) \in Nat
  BY NewBlocks DEF Live
<1>4. blocks[cur].pend = Pending(count)
  BY DEF Lists, Waits, Pending, Listed
<1> HIDE DEF g
<1>5. Widened(g, n, E, F, I, A)
  BY <1>2, <1>3, <1>4 DEF Widened, OpenIn
<1> QED
  BY <1>5 DEF g, F

-----------------------------------------------------------------------------
(* Expressions that branch, and the openings of constructs. *)

\* The current block leaves for either of two blocks, and the first is started.
LEMMA FlowFork ==
  ASSUME TypeOK, NEW g, NEW D, NEW F, NEW I, NEW A, Flow(g, D, F, I, A), cur \in A, cur \in D,
         g[cur].pend = Pending(count), NEW t \in I, t # cur, NEW f \in D,
         F[t] = Pending(count), F[f] = Pending(count), NEW J, J = I \ {cur},
         StartBlock(Seal(CondBr(g, cur, t, f), t), t, count)
  PROVE  /\ Flow(blocks', D, F, J, A) /\ cur' = t /\ count' = count
         /\ blocks'[cur'].pend = Pending(count')
<1> DEFINE h == CondBr(g, cur, t, f)
           k == Seal(h, t)
<1>1. t \in D /\ t \in J /\ count \in 0 .. Len(items)
  BY DEF Flow, TypeOK
<1>2. Flow(h, D, F, J, A)
  BY <1>1, FlowCondBr
<1> HIDE DEF h
<1>3. Flow(k, D, F, J, A)
  BY <1>1, <1>2, FlowSeal
<1>4. StartBlock(k, t, count)
  BY DEF h
<1> HIDE DEF k
<1> QED
  BY <1>1, <1>3, <1>4, FlowStart

\* The actions, one by one, with the lists E before the step.
LEMMA FlowBeginShort ==
  ASSUME IInv, IInv', ScopeInv, NEW E, Lists(E), BeginShort
  PROVE  FlowInv' /\ NewEdges({cur})
<1> DEFINE rhs == Len(blocks) + 1
           join == Len(blocks) + 2
           f == [Frame EXCEPT !.kind = "short", !.end = join]
           g == WithBlocks(blocks, 2)
           I == OpenIn(g)
           F == Extended(E, count)
<1>1. /\ phase = "body" /\ Live /\ items' = items /\ labels' = labels /\ TypeOK
      /\ StartBlock(Seal(CondBr(g, cur, rhs, join), rhs), rhs, count)
      /\ open' = Append(open, f)
  BY BodyFacts DEF BeginShort, InExpr, StmtFrame
<1>w. Widened(g, 2, E, F, I, {cur})
  BY <1>1, FlowNew
<1>2. /\ Flow(g, Ids(g), F, I, {cur}) /\ F \in Tables
      /\ \A b \in Ids(blocks) : F[b] = E[b]
      /\ cur \in I /\ cur \in Ids(g) /\ g[cur].pend = Pending(count)
      /\ \A b \in Ids(g) \ Ids(blocks) : F[b] = Pending(count) /\ b \in I /\ b # cur
      /\ Ids(g) \ Ids(blocks) = (Len(blocks) + 1) .. (Len(blocks) + 2)
      /\ Len(blocks) \in Nat
  BY <1>w DEF Widened
<1>3. {rhs, join} \subseteq Ids(g) \ Ids(blocks) /\ join \in Nat /\ join # NoBlock
  BY <1>2 DEF NoBlock
<1> HIDE DEF rhs, join, g, I, F
<1>4. /\ Flow(blocks', Ids(g), F, I \ {cur}, {cur}) /\ count' = count
      /\ blocks'[cur'].pend = Pending(count')
  BY <1>1, <1>2, <1>3, FlowFork
<1>5. f \in FrameType /\ Held(f) = {join} /\ Due(f, count') = count
  BY <1>3, <1>4 DEF Frame, FrameType, Held, NoBlock, Due, ExprKinds
<1> HIDE DEF f
<1>6. Frames(F)
  BY <1>1, <1>2, <1>3, <1>5, FramesPush
<1> QED
  BY <1>1, <1>2, <1>4, <1>6, FlowEnd

LEMMA FlowBoundsCheck ==
  ASSUME IInv, IInv', ScopeInv, NEW E, Lists(E), BoundsCheck
  PROVE  FlowInv' /\ NewEdges({cur})
<1> DEFINE fail == Len(blocks) + 1
           ok == Len(blocks) + 2
           g == WithBlocks(blocks, 2)
           I == OpenIn(g)
           F == Extended(E, count)
           J == I \ {cur}
           g1 == CondBr(g, cur, fail, ok)
           g2 == Seal(g1, fail)
           g3 == Unreachable(g2, fail)
           g4 == Seal(g3, ok)
<1>1. /\ phase = "body" /\ Live /\ items' = items /\ labels' = labels /\ TypeOK
      /\ StartBlock(g4, ok, count) /\ open' = open /\ count \in 0 .. Len(items)
  BY BodyFacts DEF BoundsCheck, InExpr, StmtFrame
<1>w. Widened(g, 2, E, F, I, {cur})
  BY <1>1, FlowNew
<1>2. /\ Flow(g, Ids(g), F, I, {cur}) /\ F \in Tables
      /\ \A b \in Ids(blocks) : F[b] = E[b]
      /\ cur \in I /\ cur \in Ids(g) /\ g[cur].pend = Pending(count)
      /\ \A b \in Ids(g) \ Ids(blocks) : F[b] = Pending(count) /\ b \in I /\ b # cur
      /\ Ids(g) \ Ids(blocks) = (Len(blocks) + 1) .. (Len(blocks) + 2)
      /\ Len(blocks) \in Nat
  BY <1>w DEF Widened
<1>3. {fail, ok} \subseteq Ids(g) \ Ids(blocks)
  BY <1>2
<1> HIDE DEF fail, ok, g, I, F
<1>4. fail \in J /\ ok \in J /\ F[ok] = Pending(count)
  BY <1>2, <1>3
<1>5. Flow(g1, Ids(g), F, J, {cur})
  BY <1>2, <1>3, FlowCondBr
<1> HIDE DEF J, g1
<1>6. Flow(g2, Ids(g), F, J, {cur})
  BY <1>3, <1>5, FlowSeal
<1> HIDE DEF g2
<1>7. Flow(g3, Ids(g), F, J, {cur})
  BY <1>3, <1>4, <1>6, FlowUnreachable
<1> HIDE DEF g3
<1>8. Flow(g4, Ids(g), F, J, {cur})
  BY <1>3, <1>7, FlowSeal
<1> HIDE DEF g4
<1>9. /\ Flow(blocks', Ids(g), F, J, {cur}) /\ count' = count
      /\ blocks'[cur'].pend = Pending(count')
  BY <1>1, <1>4, <1>8, FlowStart
<1>10. Frames(F)
  BY <1>1, FramesKeep
<1> QED
  BY <1>1, <1>2, <1>9, <1>10, FlowEnd

\* A loop whose head is complete at its opening.
LEMMA FlowLoop ==
  ASSUME TypeOK, NEW g, NEW D, NEW F, NEW I, NEW A, Flow(g, D, F, I, A), cur \in D,
         g[cur].pend = Pending(count), NEW begin \in I, NEW body \in I, NEW end \in D,
         begin # cur, body # cur, begin # body, cur \in A, begin \in A,
         F[begin] = Pending(count), F[body] = Pending(count), F[end] = Pending(count),
         StartBlock(WithLoopHead(g, begin, body, end), body, count),
         NEW J, J = (I \ {cur}) \ {begin}
  PROVE  /\ Flow(blocks', D, F, J, A) /\ cur' = body /\ count' = count
         /\ blocks'[cur'].pend = Pending(count')
<1> DEFINE p == Pending(count)
           g1 == Br(g, cur, begin)
           g2 == TakenUp(g1, begin, p)
           g3 == CondBr(g2, begin, body, end)
           g4 == Seal(g3, body)
           I1 == I \ {cur}
<1>1. begin \in D /\ body \in D /\ begin \in I1 /\ body \in J /\ count \in 0 .. Len(items)
  BY DEF Flow, TypeOK
<1>2. p \in Seq(Nat)
  BY <1>1, PendingIsList
<1>3. WithLoopHead(g, begin, body, end) = g4
  BY DEF WithLoopHead, TakenUp
<1>4. Flow(g1, D, F, I1, A)
  BY <1>1, FlowBr
<1> HIDE DEF g1
<1>5. Flow(g2, D, F, I1, A) /\ g2[begin].pend = p
  BY <1>1, <1>2, <1>4, FlowTaken
<1>6. J = I1 \ {begin}
  OBVIOUS
<1> HIDE DEF g2, I1
<1>7. Flow(g3, D, F, J, A)
  BY <1>1, <1>5, <1>6, FlowCondBr
<1> HIDE DEF g3
<1>8. Flow(g4, D, F, J, A)
  BY <1>1, <1>7, FlowSeal
<1> HIDE DEF g4, p
<1> QED
  BY <1>1, <1>3, <1>8, FlowStart

LEMMA FlowBeginArray ==
  ASSUME IInv, IInv', ScopeInv, NEW E, Lists(E), BeginArray
  PROVE  FlowInv' /\ NewEdges({cur, Len(blocks) + 1})
<1> DEFINE begin == Len(blocks) + 1
           body == Len(blocks) + 2
           end == Len(blocks) + 3
           f == [Frame EXCEPT !.kind = "array", !.begin = begin, !.end = end]
           g == WithBlocks(blocks, 3)
           I == OpenIn(g)
           A == {cur, begin}
           F == Extended(E, count)
<1>1. /\ phase = "body" /\ Live /\ items' = items /\ labels' = labels /\ TypeOK
      /\ StartBlock(WithLoopHead(g, begin, body, end), body, count)
      /\ open' = Append(open, f)
  BY BodyFacts DEF BeginArray, StmtFrame
<1>w. Widened(g, 3, E, F, I, A)
  BY <1>1, FlowNew
<1>2. /\ Flow(g, Ids(g), F, I, A) /\ F \in Tables
      /\ \A b \in Ids(blocks) : F[b] = E[b]
      /\ cur \in I /\ cur \in Ids(g) /\ g[cur].pend = Pending(count)
      /\ \A b \in Ids(g) \ Ids(blocks) : F[b] = Pending(count) /\ b \in I /\ b # cur
      /\ Ids(g) \ Ids(blocks) = (Len(blocks) + 1) .. (Len(blocks) + 3)
      /\ Len(blocks) \in Nat
  BY <1>w DEF Widened
<1>3. /\ {begin, body, end} \subseteq Ids(g) \ Ids(blocks) /\ begin # body
      /\ {begin, end} \subseteq Nat \ {NoBlock}
  BY <1>2 DEF NoBlock
<1>a. A = {cur, Len(blocks) + 1} /\ cur \in A /\ begin \in A
  OBVIOUS
<1> HIDE DEF begin, body, end, g, I, F, A
<1>4. /\ Flow(blocks', Ids(g), F, (I \ {cur}) \ {begin}, A) /\ count' = count
      /\ blocks'[cur'].pend = Pending(count')
  BY <1>1, <1>2, <1>3, <1>a, FlowLoop
<1>5. f \in FrameType /\ Held(f) = {begin, end} /\ Due(f, count') = count
  BY <1>3, <1>4 DEF Frame, FrameType, Held, NoBlock, Due, ExprKinds
<1> HIDE DEF f
<1>6. Frames(F)
  BY <1>1, <1>2, <1>3, <1>5, FramesPush
<1>7. FlowInv' /\ NewEdges(A)
  BY <1>1, <1>2, <1>4, <1>6, FlowEnd
<1> QED
  BY <1>a, <1>7

LEMMA FlowBeginIf ==
  ASSUME IInv, IInv', ScopeInv, NEW E, Lists(E), NEW hasElse \in BOOLEAN, BeginIf(hasElse)
  PROVE  FlowInv' /\ NewEdges({cur})
<1> DEFINE n == IF hasElse THEN 3 ELSE 2
           then == Len(blocks) + 1
           els == IF hasElse THEN Len(blocks) + 2 ELSE NoBlock
           join == Len(blocks) + n
           other == IF hasElse THEN els ELSE join
           f == [Frame EXCEPT !.kind = "then", !.mark = count, !.end = join, !.alt = els]
           g == WithBlocks(blocks, n)
           I == OpenIn(g)
           F == Extended(E, count)
<1>0. Len(blocks) \in Nat /\ join - Len(blocks) = n /\ n \in Nat
  BY GraphFacts DEF IInv, TypeOK
<1>1. /\ phase = "body" /\ Live /\ items' = items /\ labels' = labels
      /\ StartBlock(Seal(CondBr(g, cur, then, other), then), then, count)
      /\ open' = Append(Branched, f)
  BY <1>0 DEF BeginIf, Opens, Stmt, InBody, StmtFrame
<1>a. TypeOK /\ count \in Nat
  BY <1>1, BodyFacts
<1>w. Widened(g, n, E, F, I, {cur})
  BY <1>0, <1>1, FlowNew
<1>2. /\ Flow(g, Ids(g), F, I, {cur}) /\ F \in Tables
      /\ \A b \in Ids(blocks) : F[b] = E[b]
      /\ cur \in I /\ cur \in Ids(g) /\ g[cur].pend = Pending(count)
      /\ \A b \in Ids(g) \ Ids(blocks) : F[b] = Pending(count) /\ b \in I /\ b # cur
      /\ Ids(g) \ Ids(blocks) = (Len(blocks) + 1) .. (Len(blocks) + n)
      /\ Len(blocks) \in Nat
  BY <1>w DEF Widened
<1>3. /\ {then, other, join} \subseteq Ids(g) \ Ids(blocks) /\ join \in Nat
      /\ els \in Nat /\ (els = NoBlock \/ els \in Ids(g) \ Ids(blocks))
  BY <1>2 DEF NoBlock
<1> HIDE DEF then, other, join, els, n, g, I, F
<1>4. /\ Flow(blocks', Ids(g), F, I \ {cur}, {cur}) /\ count' = count
      /\ blocks'[cur'].pend = Pending(count')
  BY <1>1, <1>a, <1>2, <1>3, FlowFork
<1>5. f \in FrameType /\ Held(f) \subseteq {join, els} \ {NoBlock} /\ Due(f, count') = count
  BY <1>3, <1>4, <1>a DEF Frame, FrameType, BodyKinds, Held, NoBlock, Due, ExprKinds
<1> HIDE DEF f
<1>6. Frames(F)
  <2>1. \A b \in Held(f) : F[b] = Pending(Due(f, count'))
    BY <1>2, <1>3, <1>5
  <2> QED
    BY <1>1, <1>a, <1>5, <2>1, FramesPush
<1> QED
  BY <1>1, <1>2, <1>4, <1>6, FlowEnd

LEMMA FlowBeginWhile ==
  ASSUME IInv, IInv', ScopeInv, NEW E, Lists(E), BeginWhile
  PROVE  FlowInv' /\ NewEdges({cur})
<1> DEFINE begin == Len(blocks) + 1
           body == Len(blocks) + 2
           end == Len(blocks) + 3
           f == [Frame EXCEPT !.kind = "head", !.begin = begin,
                              !.step = begin, !.end = end, !.alt = body]
           g == WithBlocks(blocks, 3)
           I == OpenIn(g)
           F == Extended(E, count)
           h == Br(g, cur, begin)
<1>1. /\ phase = "body" /\ Live /\ items' = items /\ labels' = labels
      /\ StartBlock(h, begin, count) /\ open' = Append(Branched, f)
  BY DEF BeginWhile, Opens, Stmt, InBody, StmtFrame
<1>a. TypeOK /\ count \in 0 .. Len(items)
  BY <1>1, BodyFacts
<1>w. Widened(g, 3, E, F, I, {cur})
  BY <1>1, FlowNew
<1>2. /\ Flow(g, Ids(g), F, I, {cur}) /\ F \in Tables
      /\ \A b \in Ids(blocks) : F[b] = E[b]
      /\ cur \in I /\ cur \in Ids(g) /\ g[cur].pend = Pending(count)
      /\ \A b \in Ids(g) \ Ids(blocks) : F[b] = Pending(count) /\ b \in I /\ b # cur
      /\ Ids(g) \ Ids(blocks) = (Len(blocks) + 1) .. (Len(blocks) + 3)
      /\ Len(blocks) \in Nat
  BY <1>w DEF Widened
<1>3. /\ {begin, body, end} \subseteq Ids(g) \ Ids(blocks)
      /\ {begin, body, end} \subseteq Nat \ {NoBlock}
  BY <1>2 DEF NoBlock
<1> HIDE DEF begin, body, end, g, I, F
<1>4. Flow(h, Ids(g), F, I \ {cur}, {cur}) /\ begin \in I \ {cur}
  BY <1>2, <1>3, FlowBr
<1> HIDE DEF h
<1>5. /\ Flow(blocks', Ids(g), F, I \ {cur}, {cur}) /\ count' = count
      /\ blocks'[cur'].pend = Pending(count')
  BY <1>1, <1>a, <1>2, <1>3, <1>4, FlowStart
<1>6. f \in FrameType /\ Held(f) = {begin, body, end} /\ Due(f, count') = count
  BY <1>3, <1>5 DEF Frame, FrameType, Held, NoBlock, Due, ExprKinds
<1> HIDE DEF f
<1>7. Frames(F)
  BY <1>1, <1>a, <1>2, <1>3, <1>6, FramesPush
<1> QED
  BY <1>1, <1>2, <1>5, <1>7, FlowEnd

LEMMA FlowBeginFor ==
  ASSUME IInv, IInv', ScopeInv, NEW E, Lists(E), BeginFor
  PROVE  FlowInv' /\ NewEdges({cur, Len(blocks) + 1})
<1> DEFINE begin == Len(blocks) + 1
           body == Len(blocks) + 2
           step == Len(blocks) + 3
           end == Len(blocks) + 4
           f == [Frame EXCEPT !.kind = "for", !.mark = count,
                              !.begin = begin, !.step = step, !.end = end]
           g == WithBlocks(blocks, 4)
           I == OpenIn(g)
           A == {cur, begin}
           F == Extended(E, count)
<1>1. /\ phase = "body" /\ Live /\ items' = items /\ labels' = labels
      /\ StartBlock(WithLoopHead(g, begin, body, end), body, count)
      /\ open' = Append(Branched, f)
  BY DEF BeginFor, Opens, Stmt, InBody, StmtFrame
<1>t. TypeOK /\ count \in Nat
  BY <1>1, BodyFacts
<1>w. Widened(g, 4, E, F, I, A)
  BY <1>1, FlowNew
<1>2. /\ Flow(g, Ids(g), F, I, A) /\ F \in Tables
      /\ \A b \in Ids(blocks) : F[b] = E[b]
      /\ cur \in I /\ cur \in Ids(g) /\ g[cur].pend = Pending(count)
      /\ \A b \in Ids(g) \ Ids(blocks) : F[b] = Pending(count) /\ b \in I /\ b # cur
      /\ Ids(g) \ Ids(blocks) = (Len(blocks) + 1) .. (Len(blocks) + 4)
      /\ Len(blocks) \in Nat
  BY <1>w DEF Widened
<1>3. /\ {begin, body, step, end} \subseteq Ids(g) \ Ids(blocks) /\ begin # body
      /\ {begin, step, end} \subseteq Nat \ {NoBlock}
  BY <1>2 DEF NoBlock
<1>a. A = {cur, Len(blocks) + 1} /\ cur \in A /\ begin \in A
  OBVIOUS
<1> HIDE DEF begin, body, step, end, g, I, F, A
<1>b. /\ begin \in I /\ body \in I /\ end \in Ids(g)
      /\ begin # cur /\ body # cur /\ begin # body
      /\ F[begin] = Pending(count) /\ F[body] = Pending(count) /\ F[end] = Pending(count)
  BY <1>2, <1>3
<1>c. /\ TypeOK /\ Flow(g, Ids(g), F, I, A) /\ cur \in Ids(g) /\ g[cur].pend = Pending(count)
      /\ StartBlock(WithLoopHead(g, begin, body, end), body, count)
  BY <1>1, <1>t, <1>2
<1> DEFINE J == (I \ {cur}) \ {begin}
<1>d. J = (I \ {cur}) \ {begin}
  OBVIOUS
<1> HIDE DEF J
<1>4. /\ Flow(blocks', Ids(g), F, J, A) /\ count' = count
      /\ blocks'[cur'].pend = Pending(count')
  BY <1>a, <1>b, <1>c, <1>d, FlowLoop
<1>5. f \in FrameType /\ Held(f) = {begin, step, end} /\ Due(f, count') = count
  BY <1>3, <1>4, <1>t DEF Frame, FrameType, BodyKinds, Held, NoBlock, Due, ExprKinds
<1> HIDE DEF f
<1>6. Frames(F)
  BY <1>1, <1>t, <1>2, <1>3, <1>5, FramesPush
<1>7. FlowInv' /\ NewEdges(A)
  BY <1>1, <1>2, <1>4, <1>6, FlowEnd
<1> QED
  BY <1>a, <1>7

LEMMA FlowBeginSwitch ==
  ASSUME IInv, IInv', ScopeInv, NEW E, Lists(E), BeginSwitch
  PROVE  FlowInv' /\ NewEdges({cur})
<1> DEFINE end == Len(blocks) + 1
           f == [Frame EXCEPT !.kind = "switch", !.mark = count, !.end = end]
           g == WithBlocks(blocks, 1)
           I == OpenIn(g)
           F == Extended(E, count)
<1>1. /\ phase = "body" /\ Live /\ items' = items /\ labels' = labels
      /\ blocks' = g /\ cur' = cur /\ count' = count /\ open' = Append(Branched, f)
  BY DEF BeginSwitch, Opens, Stmt, InBody, StmtFrame
<1>t. TypeOK /\ count \in Nat
  BY <1>1, BodyFacts
<1>w. Widened(g, 1, E, F, I, {cur})
  BY <1>1, FlowNew
<1>2. /\ Flow(g, Ids(g), F, I, {cur}) /\ F \in Tables
      /\ \A b \in Ids(blocks) : F[b] = E[b]
      /\ cur \in I /\ cur \in Ids(g) /\ g[cur].pend = Pending(count)
      /\ \A b \in Ids(g) \ Ids(blocks) : F[b] = Pending(count) /\ b \in I /\ b # cur
      /\ Ids(g) \ Ids(blocks) = (Len(blocks) + 1) .. (Len(blocks) + 1)
      /\ Len(blocks) \in Nat
  BY <1>w DEF Widened
<1>3. end \in Ids(g) \ Ids(blocks) /\ end \in Nat /\ end # NoBlock
  BY <1>2 DEF NoBlock
<1> HIDE DEF end, g, I, F
<1>5. f \in FrameType /\ Held(f) = {end} /\ Due(f, count') = count
  BY <1>1, <1>3, <1>t DEF Frame, FrameType, Held, NoBlock, Due, ExprKinds
<1> HIDE DEF f
<1>6. Frames(F)
  BY <1>1, <1>t, <1>2, <1>3, <1>5, FramesPush
<1> QED
  BY <1>1, <1>2, <1>6, FlowEnd

-----------------------------------------------------------------------------
(* Parts of a construct. *)

LEMMA FlowEnterWhile ==
  ASSUME IInv, IInv', ScopeInv, NEW E, Lists(E), EnterWhile
  PROVE  FlowInv' /\ NewEdges({cur})
<1> DEFINE body == Top.alt
           end == Top.end
           f == [Top EXCEPT !.kind = "while", !.mark = count, !.alt = NoBlock]
           I == OpenIn(blocks)
           F == Extended(E, count)
<1>1. /\ phase = "body" /\ items' = items /\ labels' = labels /\ Top.kind = "head"
      /\ StartBlock(Seal(CondBr(blocks, cur, body, end), body), body, count)
      /\ open' = Swap(f)
  BY DEF EnterWhile, StmtFrame
<1>t. /\ TypeOK /\ count \in Nat /\ cur \in Ids(blocks) /\ IsOpen(blocks, cur)
      /\ Top \in FrameType /\ Shape(Top)
  BY <1>1, BodyFacts DEF NeedsOpen
<1>2. /\ Flow(blocks, Ids(blocks), F, I, {cur}) /\ F \in Tables
      /\ \A b \in Ids(blocks) : F[b] = E[b]
      /\ \A b \in Held(Top) : b \in Ids(blocks) /\ F[b] = Pending(Due(Top, count))
      /\ \A b \in Awaits(Top) : b \in I /\ b # cur
      /\ cur \in I /\ blocks[cur].pend = Pending(count)
  BY <1>1, <1>t, FlowOld
<1>3. /\ Due(Top, count) = count /\ {body, end} \subseteq Awaits(Top)
      /\ {body, end} \subseteq Held(Top)
  BY <1>1, <1>t DEF Due, ExprKinds, Awaits, Held, Shape
<1>4. f \in FrameType /\ Held(f) \subseteq Held(Top) /\ \A n : Due(f, n) = count
  BY <1>1, <1>t DEF FrameType, BodyKinds, Held, NoBlock, Due, ExprKinds
<1> HIDE DEF body, end, I, F, f
<1>5. /\ Flow(blocks', Ids(blocks), F, I \ {cur}, {cur}) /\ count' = count
      /\ blocks'[cur'].pend = Pending(count')
  BY <1>1, <1>t, <1>2, <1>3, FlowFork
<1>6. Frames(F)
  BY <1>1, <1>t, <1>2, <1>3, <1>4, FramesSwap
<1> QED
  BY <1>1, <1>2, <1>5, <1>6, FlowEnd

LEMMA FlowBeginCase ==
  ASSUME IInv, IInv', ScopeInv, NEW E, Lists(E), BeginCase
  PROVE  FlowInv' /\ NewEdges({cur})
<1> DEFINE body == Len(blocks) + 1
           next == Len(blocks) + 2
           f == [Top EXCEPT !.kind = "case", !.alt = next]
           g == WithBlocks(blocks, 2)
           I == OpenIn(g)
           F == Extended(E, count)
<1>1. /\ phase = "body" /\ items' = items /\ labels' = labels /\ Top.kind = "switch"
      /\ StartBlock(Seal(CondBr(g, cur, body, next), body), body, count)
      /\ open' = Swap(f)
  BY DEF BeginCase, StmtFrame
<1>t. /\ TypeOK /\ count \in Nat /\ Live /\ Top \in FrameType /\ Top.mark = count
      /\ \A b \in Held(Top) : b \in Ids(blocks) /\ E[b] = Pending(Due(Top, count))
  BY <1>1, BodyFacts, FlowTop DEF NeedsOpen, Live, ScopeInv
<1>w. Widened(g, 2, E, F, I, {cur})
  BY <1>1, <1>t, FlowNew
<1>2. /\ Flow(g, Ids(g), F, I, {cur}) /\ F \in Tables
      /\ \A b \in Ids(blocks) : F[b] = E[b]
      /\ cur \in I /\ cur \in Ids(g) /\ g[cur].pend = Pending(count)
      /\ \A b \in Ids(g) \ Ids(blocks) : F[b] = Pending(count) /\ b \in I /\ b # cur
      /\ Ids(g) \ Ids(blocks) = (Len(blocks) + 1) .. (Len(blocks) + 2)
      /\ Len(blocks) \in Nat
  BY <1>w DEF Widened
<1>3. {body, next} \subseteq Ids(g) \ Ids(blocks) /\ next \in Nat
  BY <1>2
<1> HIDE DEF body, next, g, I, F
<1>4. /\ Flow(blocks', Ids(g), F, I \ {cur}, {cur}) /\ count' = count
      /\ blocks'[cur'].pend = Pending(count')
  BY <1>1, <1>t, <1>2, <1>3, FlowFork
<1>5. /\ f \in FrameType /\ Held(f) \subseteq Held(Top) \cup {next} /\ Due(f, count') = count
      /\ Due(Top, count) = count
  BY <1>1, <1>t, <1>3 DEF FrameType, BodyKinds, Held, NoBlock, Due, ExprKinds
<1> HIDE DEF f
<1>6. Frames(F)
  <2>1. \A b \in Held(f) : F[b] = Pending(Due(f, count'))
    BY <1>t, <1>2, <1>3, <1>5
  <2> QED
    BY <1>1, <1>t, <1>5, <2>1, FramesSwap
<1> QED
  BY <1>1, <1>2, <1>4, <1>6, FlowEnd

\* A body is closed: every way out of it has run what the body registered.
LEMMA FlowClosed ==
  ASSUME IInv, phase = "body", ScopeInv, NEW E, Lists(E), Top.kind \notin ExprKinds,
         NEW to \in Held(Top), NEW A, cur \in A
  PROVE  Flow(CloseBody(blocks, to), Ids(blocks), Extended(E, count), OpenIn(blocks) \ {cur}, A)
<1> DEFINE I == OpenIn(blocks)
           F == Extended(E, count)
<1>1. TypeOK /\ cur \in Ids(blocks) /\ Due(Top, count) = Top.mark
  BY BodyFacts DEF Due
<1>2. /\ Flow(blocks, Ids(blocks), F, I, A)
      /\ to \in Ids(blocks) /\ F[to] = Pending(Due(Top, count))
      /\ IsOpen(blocks, cur) => /\ cur \in I /\ blocks[cur].pend = Pending(count)
                                /\ Due(Top, count) \in 0 .. count
  BY FlowOld
<1> HIDE DEF I, F
<1>3. Flow(CloseBody(blocks, to), Ids(blocks), F, I \ {cur}, A)
  BY <1>1, <1>2, FlowClose
<1> QED
  BY <1>3 DEF I, F

\* The construct ends and its join is lowered next.
LEMMA FlowJoins ==
  ASSUME IInv, IInv', phase = "body", ScopeInv, NEW E, Lists(E), StmtFrame, open' = Pop,
         Top.kind # "fn", Top.end \in Awaits(Top), NEW n, n = Due(Top, count),
         n = count \/ Top.kind \notin ExprKinds, NEW g, NEW A,
         Flow(g, Ids(blocks), Extended(E, count), OpenIn(blocks) \ {cur}, A),
         StartBlock(Join(g), Top.end, n) \/ StartBlock(g, Top.end, n)
  PROVE  FlowInv' /\ NewEdges(A)
<1> DEFINE I == OpenIn(blocks)
           J == I \ {cur}
           F == Extended(E, count)
           end == Top.end
<1>1. /\ TypeOK /\ Nested /\ items' = items /\ labels' = labels /\ n \in 0 .. Len(items)
  BY BodyFacts, FlowTop DEF StmtFrame
<1>2. /\ F \in Tables
      /\ \A b \in Ids(blocks) : F[b] = E[b]
      /\ end \in J /\ F[end] = Pending(n)
  BY FlowOld DEF Awaits, Held
<1>3. Flow(g, Ids(blocks), F, J, A)
  OBVIOUS
<1> HIDE DEF I, J, F
<1>4. PICK h : Flow(h, Ids(blocks), F, J, A) /\ StartBlock(h, end, n)
  <2>1. Flow(Join(g), Ids(blocks), F, J, A)
    BY <1>2, <1>3, FlowJoin DEF Join
  <2> QED
    BY <1>3, <2>1
<1> HIDE DEF end
<1>5. /\ Flow(blocks', Ids(blocks), F, J, A) /\ cur' = end /\ count' = n
      /\ blocks'[cur'].pend = Pending(count')
  BY <1>1, <1>2, <1>4, FlowStart
<1>6. Frames(F)
  BY <1>1, Deep, FramesPop
<1>7. count' = count \/ Top.kind \notin ExprKinds
  BY <1>5
<1> QED
  BY <1>1, <1>2, <1>5, <1>6, <1>7, FlowEnd

\* The actions that do so.
LEMMA FlowEndShort ==
  ASSUME IInv, IInv', ScopeInv, NEW E, Lists(E), EndShort
  PROVE  FlowInv' /\ NewEdges({cur})
<1> DEFINE I == OpenIn(blocks)
           F == Extended(E, count)
           g == IF Live THEN Br(blocks, cur, Top.end) ELSE blocks
<1>1. /\ phase = "body" /\ StmtFrame /\ Top.kind = "short" /\ open' = Pop
      /\ StartBlock(Join(g), Top.end, count)
  BY DEF EndShort, Join
<1>2. /\ Due(Top, count) = count /\ Top.end \in Awaits(Top) /\ Top.end \in Held(Top)
      /\ cur \in Ids(blocks)
  BY <1>1, BodyFacts DEF Due, ExprKinds, Awaits, Held, Shape
<1>3. /\ Flow(blocks, Ids(blocks), F, I, {cur})
      /\ Top.end \in Ids(blocks) /\ F[Top.end] = Pending(count)
      /\ Live => blocks[cur].pend = Pending(count)
  BY <1>1, <1>2, FlowOld DEF Live
<1>4. Flow(g, Ids(blocks), F, I \ {cur}, {cur})
  <2>1. CASE Live
    BY <1>2, <1>3, <2>1, FlowBr
  <2>2. CASE ~Live
    BY <1>3, <2>2, FlowFewer
  <2> QED
    BY <2>1, <2>2
<1> HIDE DEF g
<1> QED
  BY <1>1, <1>2, <1>4, FlowJoins

LEMMA FlowEndArray ==
  ASSUME IInv, IInv', ScopeInv, NEW E, Lists(E), EndArray
  PROVE  FlowInv' /\ NewEdges({cur})
<1> DEFINE I == OpenIn(blocks)
           F == Extended(E, count)
           h == Br(blocks, cur, Top.begin)
           g == SealAll(h, {Top.begin, Top.end})
<1>1. /\ phase = "body" /\ StmtFrame /\ Top.kind = "array" /\ open' = Pop
      /\ StartBlock(g, Top.end, count)
  BY DEF EndArray
<1>2. /\ Due(Top, count) = count /\ Top.end \in Awaits(Top) /\ Top.begin \in Held(Top)
      /\ cur \in Ids(blocks) /\ IsOpen(blocks, cur)
  BY <1>1, BodyFacts DEF Due, ExprKinds, Awaits, Held, Shape, NeedsOpen
<1>3. /\ Flow(blocks, Ids(blocks), F, I, {cur})
      /\ Top.begin \in Ids(blocks) /\ F[Top.begin] = Pending(count)
      /\ blocks[cur].pend = Pending(count)
  BY <1>1, <1>2, FlowOld
<1>4. Flow(h, Ids(blocks), F, I \ {cur}, {cur})
  BY <1>2, <1>3, FlowBr
<1> HIDE DEF h
<1>5. Flow(g, Ids(blocks), F, I \ {cur}, {cur})
  BY <1>4, FlowSealAll
<1> HIDE DEF g
<1> QED
  BY <1>1, <1>2, <1>5, FlowJoins

LEMMA FlowEndBody ==
  ASSUME IInv, IInv', ScopeInv, NEW E, Lists(E), (EndThen /\ Top.alt = NoBlock) \/ EndElse
  PROVE  FlowInv' /\ NewEdges({cur})
<1> DEFINE g == CloseBody(blocks, Top.end)
<1>1. /\ phase = "body" /\ StmtFrame /\ Top.kind \in {"then", "else"} /\ open' = Pop
      /\ StartBlock(Join(g), Top.end, Top.mark)
  BY DEF EndThen, EndElse, InBody
<1>2. /\ Due(Top, count) = Top.mark /\ Top.kind \notin ExprKinds
      /\ Top.end \in Awaits(Top) /\ Top.end \in Held(Top)
  BY <1>1, BodyFacts DEF Due, ExprKinds, Awaits, Held, Shape
<1>3. Flow(g, Ids(blocks), Extended(E, count), OpenIn(blocks) \ {cur}, {cur})
  BY <1>1, <1>2, FlowClosed
<1> HIDE DEF g
<1> QED
  BY <1>1, <1>2, <1>3, FlowJoins

LEMMA FlowEndSwitch ==
  ASSUME IInv, IInv', ScopeInv, NEW E, Lists(E), EndSwitch
  PROVE  FlowInv' /\ NewEdges({cur})
<1> DEFINE I == OpenIn(blocks)
           F == Extended(E, count)
<1>1. /\ phase = "body" /\ StmtFrame /\ Top.kind \in {"switch", "default"} /\ open' = Pop
  BY DEF EndSwitch
<1>2. /\ Due(Top, count) = Top.mark /\ Top.kind \notin ExprKinds /\ cur \in Ids(blocks)
      /\ Top.end \in Awaits(Top) /\ Top.end \in Held(Top)
  BY <1>1, BodyFacts DEF Due, ExprKinds, Awaits, Held, Shape
<1>3. PICK g : /\ StartBlock(Join(g), Top.end, Top.mark)
               /\ Flow(g, Ids(blocks), F, I \ {cur}, {cur})
  <2>1. CASE Top.kind = "default"
    <3>1. StartBlock(Join(CloseBody(blocks, Top.end)), Top.end, Top.mark)
      BY <2>1 DEF EndSwitch
    <3>2. Flow(CloseBody(blocks, Top.end), Ids(blocks), F, I \ {cur}, {cur})
      BY <1>1, <1>2, FlowClosed
    <3> QED
      BY <3>1, <3>2
  <2>2. CASE Top.kind = "switch"
    <3>1. Live /\ Top.mark = count
      BY <1>1, <2>2, BodyFacts DEF NeedsOpen, Live, ScopeInv
    <3>2. StartBlock(Join(Br(blocks, cur, Top.end)), Top.end, Top.mark)
      BY <2>2, <3>1 DEF EndSwitch
    <3>3. /\ Flow(blocks, Ids(blocks), F, I, {cur})
          /\ Top.end \in Ids(blocks) /\ F[Top.end] = Pending(count)
          /\ blocks[cur].pend = Pending(count)
      BY <1>1, <1>2, <3>1, FlowOld DEF Live
    <3>4. Flow(Br(blocks, cur, Top.end), Ids(blocks), F, I \ {cur}, {cur})
      BY <1>2, <3>3, FlowBr
    <3> QED
      BY <3>2, <3>4
  <2> QED
    BY <1>1, <2>1, <2>2
<1> QED
  BY <1>1, <1>2, <1>3, FlowJoins

LEMMA FlowEndWhile ==
  ASSUME IInv, IInv', ScopeInv, NEW E, Lists(E), EndWhile
  PROVE  FlowInv' /\ NewEdges({cur})
<1> DEFINE h == CloseBody(blocks, Top.begin)
           g == SealAll(h, {Top.begin, Top.end})
<1>1. /\ phase = "body" /\ StmtFrame /\ Top.kind = "while" /\ open' = Pop
      /\ StartBlock(g, Top.end, Top.mark)
  BY DEF EndWhile, InBody
<1>2. /\ Due(Top, count) = Top.mark /\ Top.kind \notin ExprKinds
      /\ Top.end \in Awaits(Top) /\ Top.begin \in Held(Top)
  BY <1>1, BodyFacts DEF Due, ExprKinds, Awaits, Held, Shape
<1>3. Flow(h, Ids(blocks), Extended(E, count), OpenIn(blocks) \ {cur}, {cur})
  BY <1>1, <1>2, FlowClosed
<1> HIDE DEF h
<1>4. Flow(g, Ids(blocks), Extended(E, count), OpenIn(blocks) \ {cur}, {cur})
  BY <1>3, FlowSealAll
<1> HIDE DEF g
<1> QED
  BY <1>1, <1>2, <1>4, FlowJoins

LEMMA FlowEndFor ==
  ASSUME IInv, IInv', ScopeInv, NEW E, Lists(E), EndFor
  PROVE  FlowInv' /\ NewEdges({cur, Top.step})
<1> DEFINE step == Top.step
           p == Pending(Top.mark)
           closed == CloseBody(blocks, step)
           g1 == Seal(closed, step)
           g2 == TakenUp(g1, step, p)
           g3 == Br(g2, step, Top.begin)
           g4 == SealAll(g3, {Top.begin, Top.end})
           A == {cur, step}
           J == OpenIn(blocks) \ {cur}
           F == Extended(E, count)
<1>1. /\ phase = "body" /\ StmtFrame /\ Top.kind = "for" /\ open' = Pop
      /\ StartBlock(g4, Top.end, Top.mark)
  BY DEF EndFor, InBody, TakenUp
<1>2. /\ Due(Top, count) = Top.mark /\ Top.kind \notin ExprKinds /\ TypeOK
      /\ {Top.end, step} \subseteq Awaits(Top) /\ Top.begin \in Held(Top)
      /\ step \in Held(Top) /\ Top.end # step /\ Top.mark \in 0 .. Len(items)
  BY <1>1, BodyFacts DEF Due, ExprKinds, Awaits, Held, Shape
<1>3. Flow(closed, Ids(blocks), F, J, A)
  BY <1>1, <1>2, FlowClosed
<1>4. /\ step \in J /\ Top.end \in J /\ step \in Ids(blocks) /\ Top.begin \in Ids(blocks)
      /\ F[step] = p /\ F[Top.begin] = p /\ F[Top.end] = p
      /\ F \in Tables /\ \A b \in Ids(blocks) : F[b] = E[b]
  <2> DEFINE I == OpenIn(blocks)
  <2>1. Top.end \in Held(Top)
    BY <1>2 DEF Awaits, Held
  <2> HIDE DEF J, F, p
  <2>2. /\ \A b \in Held(Top) : b \in Ids(blocks) /\ F[b] = Pending(Due(Top, count))
        /\ \A b \in Awaits(Top) : b \in I /\ b # cur
        /\ F \in Tables /\ \A b \in Ids(blocks) : F[b] = E[b]
    <3>1. F = Extended(E, count)
      BY DEF F
    <3> QED
      BY <1>1, <3>1, FlowOld
  <2>3. \A b \in Held(Top) : b \in Ids(blocks) /\ F[b] = p
    BY <1>2, <2>2 DEF p
  <2>4. \A b \in Awaits(Top) : b \in J
    BY <2>2 DEF J
  <2> QED
    BY <1>2, <2>1, <2>2, <2>3, <2>4
<1>5. p \in Seq(Nat)
  BY <1>2, PendingIsList
<1> HIDE DEF closed, J, F
<1>6. Flow(g1, Ids(blocks), F, J, A)
  BY <1>3, <1>4, FlowSeal
<1> HIDE DEF g1
<1>7. Flow(g2, Ids(blocks), F, J, A) /\ g2[step].pend = p
  BY <1>4, <1>5, <1>6, FlowTaken
<1> HIDE DEF g2
<1> DEFINE K == J \ {step}
<1>8. Flow(g3, Ids(blocks), F, K, A) /\ Top.end \in K
  BY <1>2, <1>4, <1>7, FlowBr
<1> HIDE DEF g3, K
<1>9. Flow(g4, Ids(blocks), F, K, A)
  BY <1>8, FlowSealAll
<1> HIDE DEF g4
<1>10. /\ Flow(blocks', Ids(blocks), F, K, A) /\ count' = Top.mark
       /\ blocks'[cur'].pend = Pending(count')
  BY <1>1, <1>2, <1>4, <1>8, <1>9, FlowStart
<1>11. Frames(F) /\ items' = items /\ labels' = labels
  BY <1>1, BodyFacts, Deep, FramesPop DEF StmtFrame
<1> HIDE DEF A
<1>12. FlowInv' /\ NewEdges(A)
  BY <1>1, <1>2, <1>4, <1>10, <1>11, FlowEnd
<1> QED
  BY <1>12 DEF A

\* A body ends and the other part of its construct is lowered next.
LEMMA FlowTakeAlt ==
  ASSUME IInv, IInv', ScopeInv, NEW E, Lists(E), (EndThen /\ Top.alt # NoBlock) \/ EndCase
  PROVE  FlowInv' /\ NewEdges({cur})
<1> DEFINE alt == Top.alt
           h == CloseBody(blocks, Top.end)
           g == Seal(h, alt)
           J == OpenIn(blocks) \ {cur}
           F == Extended(E, count)
<1>1. /\ phase = "body" /\ items' = items /\ labels' = labels /\ Top.kind \in {"then", "case"}
      /\ StartBlock(g, alt, Top.mark)
  BY DEF EndThen, EndCase, InBody, StmtFrame
<1>2. PICK kind \in {"else", "switch"} :
        open' = Swap([Top EXCEPT !.kind = kind, !.alt = NoBlock, !.tight = {}])
  BY DEF EndThen, EndCase
<1> DEFINE f == [Top EXCEPT !.kind = kind, !.alt = NoBlock, !.tight = {}]
<1>3. /\ Due(Top, count) = Top.mark /\ Top.kind \notin ExprKinds /\ TypeOK
      /\ alt \in Awaits(Top) /\ alt \in Held(Top) /\ Top.end \in Held(Top)
      /\ Top.mark \in 0 .. Len(items) /\ Top \in FrameType
  <2>1. /\ alt # NoBlock /\ Shape(Top) /\ TypeOK /\ Top.mark \in 0 .. Len(items)
        /\ Top \in FrameType
    BY <1>1, BodyFacts DEF EndThen, EndCase, Shape
  <2> QED
    BY <1>1, <2>1 DEF Due, ExprKinds, Awaits, Held, Shape
<1>4. Flow(h, Ids(blocks), F, J, {cur})
  BY <1>1, <1>3, FlowClosed
<1>5. /\ alt \in J /\ alt \in Ids(blocks) /\ F[alt] = Pending(Top.mark)
      /\ F \in Tables /\ \A b \in Ids(blocks) : F[b] = E[b]
      /\ \A b \in Held(Top) : F[b] = Pending(Top.mark)
  BY <1>1, <1>3, FlowOld
<1>6. /\ f \in FrameType /\ Held(f) \subseteq Held(Top) /\ \A n : Due(f, n) = Top.mark
  BY <1>3 DEF FrameType, BodyKinds, Held, NoBlock, Due, ExprKinds
<1> HIDE DEF alt, h, J, F, f
<1>7. Flow(g, Ids(blocks), F, J, {cur})
  BY <1>4, <1>5, FlowSeal
<1> HIDE DEF g
<1>8. /\ Flow(blocks', Ids(blocks), F, J, {cur}) /\ count' = Top.mark
      /\ blocks'[cur'].pend = Pending(count')
  BY <1>1, <1>3, <1>5, <1>7, FlowStart
<1>9. Frames(F)
  <2>1. \A b \in Held(f) : F[b] = Pending(Due(f, count'))
    BY <1>5, <1>6
  <2>2. open' = Swap(f)
    BY <1>2 DEF f
  <2> QED
    BY <1>3, <1>6, <2>1, <2>2, FramesSwap
<1> QED
  BY <1>1, <1>3, <1>5, <1>8, <1>9, FlowEnd

-----------------------------------------------------------------------------
(* Statements after which control does not come back. *)

\* Control has left: what follows is lowered into a dead block.
LEMMA FlowLeft ==
  ASSUME IInv, IInv', phase = "body", NEW E, Lists(E), NEW m \in 0 .. Len(items),
         NEW g, NEW I, Flow(g, Ids(blocks), Extended(E, m), I, {cur}), StartDeadBlock(g, m),
         Top.kind \in BodyKinds, open' \in {open, Branched}, items' = items, labels' = labels
  PROVE  FlowInv' /\ NewEdges({cur})
<1> DEFINE F == Extended(E, m)
           J == I \cup {Len(blocks) + 1}
<1>1. /\ TypeOK /\ Len(blocks) \in Nat /\ Len(blocks) + 1 \in Nat \ Ids(blocks)
      /\ Top.kind \notin ExprKinds /\ 0 \in Nat
  BY BodyFacts, GraphFacts DEF Ids, BodyKinds, ExprKinds
<1>2. /\ F \in Tables /\ \A b \in Ids(blocks) : F[b] = E[b]
      /\ F[Len(blocks) + 1] = Pending(m)
  BY <1>1, FlowBegin
<1> HIDE DEF F
<1>3. /\ Flow(blocks', Ids(blocks'), F, J, {cur})
      /\ blocks'[cur'].pend = Pending(count')
  <2>1. Flow(g, Ids(blocks), F, I, {cur})
    BY DEF F
  <2> QED
    BY <1>1, <1>2, <2>1, FlowDead
<1>4. Frames(F)
  BY <1>1, FramesKeep
<1> QED
  BY <1>1, <1>2, <1>3, <1>4, FlowEnd

LEMMA FlowLive ==
  ASSUME IInv, phase = "body", Live, NEW E, Lists(E), NEW m \in 0 .. Len(items)
  PROVE  /\ Flow(blocks, Ids(blocks), Extended(E, m), OpenIn(blocks), {cur})
         /\ \A b \in Ids(blocks) : Extended(E, m)[b] = E[b]
         /\ cur \in OpenIn(blocks) /\ blocks[cur].pend = Pending(count)
<1>1. blocks = WithBlocks(blocks, 0) /\ 0 \in Nat /\ cur \in Ids(blocks)
  BY BodyFacts, GrowNothing
<1>2. /\ Flow(blocks, Ids(blocks), Extended(E, m), OpenIn(blocks), {cur})
      /\ \A b \in Ids(blocks) : Extended(E, m)[b] = E[b]
  BY <1>1, FlowBegin
<1>3. blocks[cur].pend = Pending(count)
  BY DEF Lists, Waits, Pending, Listed
<1> QED
  BY <1>1, <1>2, <1>3 DEF OpenIn, Live

\* The empty list.
LEMMA NoneListed ==
  ASSUME TypeOK
  PROVE  Pending(0) = <<>> /\ 0 \in 0 .. count /\ 0 \in 0 .. Len(items)
  BY DEF Pending, TypeOK

LEMMA FlowLeaveFn ==
  ASSUME IInv, IInv', NEW E, Lists(E), NoReturnCall \/ Return
  PROVE  FlowInv' /\ NewEdges({cur})
<1> DEFINE F == Extended(E, 0)
           I == OpenIn(blocks)
           h == RunDefers(blocks, 0)
<1>1. PICK g \in {Ret(h, cur), Unreachable(h, cur)} : StartDeadBlock(g, 0)
  BY DEF NoReturnCall, Return
<1>2. /\ phase = "body" /\ Live /\ Top.kind \in BodyKinds /\ open' \in {open, Branched}
      /\ items' = items /\ labels' = labels
  BY DEF NoReturnCall, Return, Stmt, InBody, StmtFrame
<1>3. /\ TypeOK /\ cur \in Ids(blocks) /\ Pending(0) = <<>> /\ 0 \in 0 .. count
      /\ 0 \in 0 .. Len(items)
  BY <1>2, BodyFacts, NoneListed
<1>4. /\ Flow(blocks, Ids(blocks), F, I, {cur})
      /\ cur \in I /\ blocks[cur].pend = Pending(count)
  BY <1>2, <1>3, FlowLive
<1> HIDE DEF F, I
<1>5. Flow(h, Ids(blocks), F, I, {cur}) /\ h[cur].pend = <<>>
  BY <1>3, <1>4, FlowRun
<1> HIDE DEF h
<1>6. \E J : Flow(g, Ids(blocks), F, J, {cur})
  <2>1. Flow(Ret(h, cur), Ids(blocks), F, I \ {cur}, {cur})
    BY <1>3, <1>5, FlowRet
  <2>2. Flow(Unreachable(h, cur), Ids(blocks), F, I, {cur})
    BY <1>3, <1>5, FlowUnreachable
  <2> QED
    BY <2>1, <2>2
<1>7. PICK J : Flow(g, Ids(blocks), Extended(E, 0), J, {cur})
  BY <1>6 DEF F
<1> QED
  BY <1>1, <1>2, <1>3, <1>7, FlowLeft

\* A body keeps its loop's blocks for the list at the loop's mark.
LEMMA FlowLoopList ==
  ASSUME IInv, phase = "body", ScopeInv, Live, Top.kind \in BodyKinds, Loops # {},
         NEW E, Lists(E)
  PROVE  /\ Loop.mark \in 0 .. count
         /\ \A b \in {Loop.end, Loop.step} : b \in Ids(blocks) /\ E[b] = Pending(Loop.mark)
<1> DEFINE k == CHOOSE i \in Loops : \A j \in Loops : j <= i
<1>1. TypeOK /\ Owned /\ count \in 0 .. Len(items) /\ Len(items) \in Nat
  BY BodyFacts
<1>2. /\ Len(open) \in Nat /\ DOMAIN open = 1 .. Len(open) /\ Len(open) \in DOMAIN open
      /\ Top = open[Len(open)]
  BY <1>1, OpenFacts
<1>3. \E i \in Loops : \A j \in Loops : j <= i
  BY <1>2, LastOf DEF Loops
<1>4. k \in Loops /\ Loop = open[k]
  BY <1>3 DEF Loop
<1> HIDE DEF k
<1>5. k \in DOMAIN open /\ Loop.kind \in {"while", "for"} /\ k <= Len(open)
  BY <1>2, <1>4 DEF Loops, LoopKinds
<1>6. Due(Loop, count) = Loop.mark
  BY <1>5 DEF Due, ExprKinds
<1>7. Due(Loop, count) <= Due(Top, count) /\ Due(Top, count) <= count
  BY <1>2, <1>4, <1>5 DEF ScopeInv
<1>8. /\ Due(Loop, count) \in 0 .. Len(items) /\ Due(Top, count) \in 0 .. Len(items)
  BY <1>1, <1>2, <1>4, <1>5, DueFacts
<1>9. Loop.end \in Held(Loop) /\ Loop.step \in Held(Loop)
  <2>1. Shape(Loop)
    BY <1>1, <1>4, <1>5 DEF Owned
  <2> QED
    BY <1>5, <2>1 DEF Shape, Held
<1>10. \A b \in Held(Loop) : b \in Ids(blocks) /\ E[b] = Pending(Loop.mark)
  BY <1>1, <1>4, <1>5, <1>6 DEF Owned, Lists, Waits, Promised, Pending, Listed
<1>11. Loop.mark \in 0 .. count
  BY <1>1, <1>6, <1>7, <1>8
<1> QED
  BY <1>9, <1>10, <1>11

LEMMA FlowLeaveLoop ==
  ASSUME IInv, IInv', ScopeInv, NEW E, Lists(E), Break \/ Continue
  PROVE  FlowInv' /\ NewEdges({cur})
<1> DEFINE m == Loop.mark
           F == Extended(E, m)
           I == OpenIn(blocks)
           h == RunDefers(blocks, m)
<1>1. PICK to \in {Loop.end, Loop.step} : LeaveLoop(to) /\ Loops # {}
  BY DEF Break, Continue
<1>2. /\ phase = "body" /\ Live /\ Top.kind \in BodyKinds /\ open' \in {open, Branched}
      /\ items' = items /\ labels' = labels
  BY DEF Break, Continue, Stmt, InBody, StmtFrame
<1>3. /\ TypeOK /\ cur \in Ids(blocks) /\ m \in 0 .. count /\ m \in 0 .. Len(items)
      /\ to \in Ids(blocks) /\ E[to] = Pending(m)
  BY <1>1, <1>2, BodyFacts, FlowLoopList
<1>4. StartDeadBlock(Br(h, cur, to), m)
  BY <1>1 DEF LeaveLoop
<1> HIDE DEF m
<1>5. /\ Flow(blocks, Ids(blocks), F, I, {cur}) /\ F[to] = Pending(m)
      /\ cur \in I /\ blocks[cur].pend = Pending(count)
  BY <1>2, <1>3, FlowLive
<1> HIDE DEF F, I
<1>6. Flow(h, Ids(blocks), F, I, {cur}) /\ h[cur].pend = Pending(m)
  BY <1>3, <1>5, FlowRun
<1> HIDE DEF h
<1>7. Flow(Br(h, cur, to), Ids(blocks), F, I \ {cur}, {cur})
  BY <1>3, <1>5, <1>6, FlowBr
<1>8. Flow(Br(h, cur, to), Ids(blocks), Extended(E, m), I \ {cur}, {cur})
  BY <1>7 DEF F
<1> QED
  BY <1>2, <1>3, <1>4, <1>8, FlowLeft

-----------------------------------------------------------------------------
(* Labels and goto. *)

\* The blocks with that of a label, which is for the empty list.
ForLabel(g, b, E, F) ==
  /\ Flow(g, Ids(g), F, OpenIn(g), {cur}) /\ F \in Tables
  /\ \A a \in Ids(blocks) : F[a] = E[a]
  /\ b \in Ids(g) /\ F[b] = <<>> /\ cur \in Ids(g)
  /\ Len(g) \in Nat /\ F[Len(g) + 1] = Pending(0)
  /\ Live => cur \in OpenIn(g) /\ g[cur].pend = Pending(count)

\* The block of a label, new or met before.
LEMMA FlowLabel ==
  ASSUME IInv, phase = "body", NEW E, Lists(E), NEW l \in Label
  PROVE  /\ ForLabel(WithLabelBlock(l), LabelBlock(l), E, Extended(E, 0))
         /\ labels \in [Label -> Nat]
         /\ \A m \in Label : labels[m] # NoBlock => Extended(E, 0)[labels[m]] = <<>>
<1> DEFINE b == LabelBlock(l)
           g == WithLabelBlock(l)
           F == Extended(E, 0)
<1>1. PICK n \in Nat : g = WithBlocks(blocks, n)
  BY LabelFacts
<1>2. /\ Ids(blocks) \subseteq Ids(g) /\ b \in Ids(g)
      /\ b \in Nat /\ Consistent(g)
  BY LabelFacts
<1>a. b \in Ids(blocks) => labels[l] = b /\ b # NoBlock
  BY LabelFacts
<1>b. Live => IsOpen(g, cur)
  BY LabelFacts
<1>3. TypeOK /\ Pending(0) = <<>> /\ 0 \in 0 .. Len(items) /\ labels \in [Label -> Nat]
  BY BodyFacts, NoneListed DEF TypeOK
<1> HIDE DEF g, b, F
<1>4. /\ Flow(g, Ids(g), F, OpenIn(g), {cur}) /\ F \in Tables
      /\ \A a \in Ids(blocks) : F[a] = E[a]
      /\ \A a \in Nat \ Ids(blocks) : F[a] = Pending(0)
  BY <1>1, <1>3, FlowBegin DEF F
<1>5. \A m \in Label : labels[m] # NoBlock => labels[m] \in Ids(blocks) /\ E[labels[m]] = <<>>
  BY BodyFacts DEF LabelsOwned, Lists, Waits
<1>6. F[b] = <<>>
  BY <1>2, <1>a, <1>3, <1>4, <1>5
<1>7. Len(g) \in Nat /\ F[Len(g) + 1] = Pending(0)
  <2>1. Len(g) \in Nat
    BY <1>2, GraphFacts
  <2>2. Len(g) + 1 \in Nat /\ Len(g) + 1 \notin Ids(g)
    BY <2>1 DEF Ids
  <2>3. Ids(blocks) \subseteq Ids(g)
    BY <1>2
  <2>4. Len(g) + 1 \notin Ids(blocks)
    BY <2>2, <2>3
  <2> QED
    BY <1>4, <2>1, <2>2, <2>4
<1>8. cur \in Ids(g) /\ g[cur] = blocks[cur]
  BY <1>1, NewBlocks
<1>9. ASSUME Live
      PROVE  cur \in OpenIn(g) /\ g[cur].pend = Pending(count)
  <2>1. blocks[cur].pend = Pending(count)
    BY <1>9 DEF Lists, Waits, Pending, Listed
  <2> QED
    BY <1>9, <1>b, <1>8, <2>1 DEF OpenIn
<1>10. \A m \in Label : labels[m] # NoBlock => F[labels[m]] = <<>>
  BY <1>4, <1>5
<1>11. ForLabel(g, b, E, F)
  BY <1>2, <1>4, <1>6, <1>7, <1>8, <1>9 DEF ForLabel
<1> QED
  BY <1>3, <1>10, <1>11 DEF F, g, b

LEMMA FlowGoto ==
  ASSUME IInv, IInv', NEW E, Lists(E), NEW l \in Label, Goto(l)
  PROVE  FlowInv' /\ NewEdges({cur})
<1> DEFINE b == LabelBlock(l)
           g == WithLabelBlock(l)
           F == Extended(E, 0)
           I == OpenIn(g)
           h == RunDefers(g, 0)
           k == Br(h, cur, b)
           J == I \ {cur}
           K == J \cup {Len(g) + 1}
<1>1. /\ phase = "body" /\ Live /\ Top.kind \in BodyKinds /\ open' = open
      /\ items' = items /\ labels' = [labels EXCEPT ![l] = b]
      /\ StartDeadBlock(k, 0)
  BY DEF Goto, Stmt, InBody
<1>2. /\ TypeOK /\ Pending(0) = <<>> /\ 0 \in 0 .. count /\ 0 \in 0 .. Len(items)
      /\ Top.kind \notin ExprKinds
  BY <1>1, BodyFacts, NoneListed DEF BodyKinds, ExprKinds
<1>a. /\ ForLabel(g, b, E, F) /\ labels \in [Label -> Nat]
      /\ \A m \in Label : labels[m] # NoBlock => F[labels[m]] = <<>>
  BY <1>1, FlowLabel
<1> HIDE DEF b, g, F
<1>3. /\ Flow(g, Ids(g), F, I, {cur}) /\ F \in Tables
      /\ \A a \in Ids(blocks) : F[a] = E[a]
      /\ b \in Ids(g) /\ F[b] = <<>> /\ cur \in Ids(g)
      /\ Len(g) \in Nat /\ F[Len(g) + 1] = Pending(0)
      /\ cur \in I /\ g[cur].pend = Pending(count)
  BY <1>1, <1>a DEF ForLabel
<1>l. \A m \in Label : labels'[m] # NoBlock => F[labels'[m]] = <<>>
  BY <1>1, <1>a, <1>3
<1> HIDE DEF I
<1>4. Flow(h, Ids(g), F, I, {cur}) /\ h[cur].pend = Pending(0)
  BY <1>2, <1>3, FlowRun
<1> HIDE DEF h
<1>5. Flow(k, Ids(g), F, J, {cur})
  BY <1>2, <1>3, <1>4, FlowBr
<1> HIDE DEF k, J
<1>6. Flow(blocks', Ids(blocks'), F, K, {cur}) /\ blocks'[cur'].pend = Pending(count')
  BY <1>1, <1>2, <1>3, <1>5, FlowDead
<1>7. Frames(F)
  BY <1>1, <1>2, FramesKeep
<1> QED
  BY <1>1, <1>2, <1>3, <1>l, <1>6, <1>7, FlowEnd

\* All lists are empty.
AllEmpty(E, p) == p = <<>> /\ \A t \in Nat : E[t] = p

\* The block of a label is taken up in a function that defers nothing.
LEMMA FlowEmpty ==
  ASSUME NEW g, NEW D, NEW E, NEW I, NEW A, Flow(g, D, E, I, A), NEW b \in D,
         NEW p \in Seq(Nat), AllEmpty(E, p)
  PROVE  /\ Flow(TakenUp(g, b, p), D, E, I, A) /\ TakenUp(g, b, p)[b].pend = p
<1> DEFINE r == [g[b] EXCEPT !.lowered = TRUE, !.enter = p, !.pend = p]
           h == TakenUp(g, b, p)
<1>1. g \in [D -> Block] /\ g[b] \in Block /\ D \in IdSets /\ b \in Nat
  BY DEF Flow, IdSets
<1>2. /\ r \in Block /\ r.term = g[b].term /\ r.pend = p /\ r.enter = p
      /\ g[b].term.to \in Seq(Nat)
  BY <1>1 DEF Block
<1>3. h = [g EXCEPT ![b] = r]
  BY <1>1 DEF TakenUp
<1> HIDE DEF r, h
<1>4. /\ h \in [D -> Block] /\ h[b] = r
      /\ \A a \in D : a # b => h[a] = g[a]
  BY <1>1, <1>2, <1>3
<1>5. \A a \in D : \A t \in Targets(h, a) : h[a].pend = E[t]
  <2>1. \A t \in Targets(h, b) : t \in Nat
    BY <1>2, <1>4 DEF Targets
  <2>2. \A a \in D : a # b => Targets(h, a) = Targets(g, a)
    BY <1>4 DEF Targets
  <2> QED
    BY <1>2, <1>4, <2>1, <2>2 DEF Flow, AllEmpty
<1>6. \A a \in D : /\ h[a].term.kind = "ret" => h[a].pend = <<>>
                   /\ h[a].lowered => h[a].enter = E[a]
  BY <1>1, <1>2, <1>4 DEF Flow, AllEmpty
<1>7. \A a \in I : a \in D /\ h[a].term.to = <<>> /\ h[a].term.kind # "ret"
  BY <1>2, <1>4 DEF Flow
<1>8. \A a \in D : a \in A \/ a \in I \/ (a \in Ids(blocks) /\ h[a].term = blocks[a].term)
  BY <1>2, <1>4 DEF Flow
<1>9. Flow(h, D, E, I, A) /\ h[b].pend = p
  BY <1>1, <1>2, <1>4, <1>5, <1>6, <1>7, <1>8 DEF Flow
<1> QED
  BY <1>9 DEF h

\* A label ends the current block.
LEMMA FlowPlaceLabel ==
  ASSUME IInv, IInv', NEW E, Lists(E), items = <<>>, NEW l \in Label, PlaceLabel(l)
  PROVE  FlowInv' /\ NewEdges({cur})
<1> DEFINE b == LabelBlock(l)
           g == WithLabelBlock(l)
           F == Extended(E, 0)
           I == OpenIn(g)
           h == IF Live THEN Br(g, cur, b) ELSE g
           f == [Top EXCEPT !.tight = @ \cup {l}]
<1>1. /\ phase = "body" /\ Top.kind \in BodyKinds /\ open' = Swap(f)
      /\ items' = items /\ labels' = [labels EXCEPT ![l] = b]
      /\ StartBlock(h, b, count)
  BY DEF PlaceLabel, InBody
<1>2. /\ TypeOK /\ Pending(0) = <<>> /\ count = 0
      /\ Top.kind \notin ExprKinds
  BY <1>1, BodyFacts, NoneListed DEF BodyKinds, ExprKinds, TypeOK
<1>a. /\ ForLabel(g, b, E, F) /\ labels \in [Label -> Nat]
      /\ \A m \in Label : labels[m] # NoBlock => F[labels[m]] = <<>>
  BY <1>1, FlowLabel
<1> HIDE DEF b, g, F
<1>3. /\ Flow(g, Ids(g), F, I, {cur}) /\ F \in Tables
      /\ \A a \in Ids(blocks) : F[a] = E[a]
      /\ b \in Ids(g) /\ F[b] = <<>> /\ cur \in Ids(g)
      /\ Live => g[cur].pend = Pending(count)
  BY <1>1, <1>a DEF ForLabel
<1>4. Frames(F)
  <2>1. f \in FrameType /\ Like(f, Top) /\ Len(open) \in DOMAIN open /\ Top = open[Len(open)]
    BY <1>2, OpenFacts DEF FrameType, Like
  <2> HIDE DEF f
  <2>2. /\ DOMAIN open' = DOMAIN open /\ open'[Len(open)] = f
        /\ \A i \in DOMAIN open : i # Len(open) => open'[i] = open[i]
    BY <1>1, <1>2, <2>1, SwapFacts
  <2> QED
    BY <2>1, <2>2 DEF Frames, Like
<1>l. \A m \in Label : labels'[m] # NoBlock => F[labels'[m]] = <<>>
  BY <1>1, <1>a, <1>3
<1> HIDE DEF I
<1>5. \E J : Flow(h, Ids(g), F, J, {cur})
  <2>1. CASE Live
    <3>1. Flow(Br(g, cur, b), Ids(g), F, I \ {cur}, {cur})
      BY <1>2, <1>3, <2>1, FlowBr
    <3> QED
      BY <2>1, <3>1
  <2>2. CASE ~Live
    BY <1>3, <2>2
  <2> QED
    BY <2>1, <2>2
<1>6. PICK J : Flow(h, Ids(g), F, J, {cur})
  BY <1>5
<1> HIDE DEF h
<1>7. /\ blocks' = TakenUp(h, b, <<>>) /\ cur' = b /\ count' = count
  BY <1>1, <1>2 DEF StartBlock, TakenUp
<1>9. Flow(blocks', Ids(g), F, J, {cur}) /\ blocks'[cur'].pend = <<>>
  <2>e. <<>> \in Seq(Nat)
    OBVIOUS
  <2>1. PICK none \in Seq(Nat) : none = <<>>
    BY <2>e, Zenon
  <2>2. AllEmpty(F, none)
    BY <1>3, <2>1 DEF Tables, AllEmpty
  <2>3. Flow(TakenUp(h, b, none), Ids(g), F, J, {cur}) /\ TakenUp(h, b, none)[b].pend = none
    <3>1. b \in Ids(g)
      BY <1>3
    <3> HIDE DEF f
    <3> QED
      BY <1>6, <2>2, <3>1, FlowEmpty
  <2> QED
    BY <1>7, <2>1, <2>3
<1>10. Pending(count') = <<>>
  BY <1>2, <1>7
<1> QED
  BY <1>1, <1>2, <1>3, <1>l, <1>4, <1>7, <1>9, <1>10, FlowEnd

-----------------------------------------------------------------------------
(* Steps that leave the blocks alone. *)

\* Neither a block nor the list changes.
LEMMA FlowFixed ==
  ASSUME IInv, IInv', phase = "body", NEW E, Lists(E), Frames(Extended(E, count)),
         blocks' = blocks, cur' = cur, count' = count, items' = items, labels' = labels
  PROVE  FlowInv' /\ NewEdges({cur})
<1> DEFINE F == Extended(E, count)
           I == OpenIn(blocks)
<1>1. count \in 0 .. Len(items) /\ 0 \in Nat /\ blocks = WithBlocks(blocks, 0)
  BY BodyFacts, GrowNothing
<1>2. /\ Flow(blocks, Ids(blocks), F, I, {cur}) /\ F \in Tables
      /\ \A b \in Ids(blocks) : F[b] = E[b]
  BY <1>1, FlowBegin
<1>3. Live' => blocks'[cur'].pend = Pending(count')
  BY DEF Live, Lists, Waits, Pending, Listed
<1> HIDE DEF F, I
<1>4. Flow(blocks', Ids(blocks), F, I, {cur}) /\ Frames(F)
  BY <1>2 DEF F
<1> QED
  BY <1>2, <1>3, <1>4, FlowEnd

LEMMA FlowFixedSteps ==
  ASSUME IInv, IInv', ScopeInv, NEW E, Lists(E),
         \/ LoopExitOutsideLoop \/ BeginBlock \/ EndBlock \/ BeginDefault
         \/ \E l \in Label : SkipConstruct(l)
  PROVE  FlowInv' /\ NewEdges({cur})
<1> DEFINE F == Extended(E, count)
<1>1. /\ phase = "body" /\ blocks' = blocks /\ cur' = cur /\ count' = count
      /\ items' = items /\ labels' = labels
  BY DEF LoopExitOutsideLoop, BeginBlock, EndBlock, BeginDefault, SkipConstruct, Opens, Stmt,
         InBody, StmtFrame
<1>2. /\ TypeOK /\ Nested /\ count \in Nat /\ Top \in FrameType
  BY <1>1, BodyFacts
<1>3. \A b \in Held(Top) : F[b] = Pending(Due(Top, count))
  <2> DEFINE I == OpenIn(blocks)
  <2>1. F = Extended(E, count) /\ I = OpenIn(blocks)
    OBVIOUS
  <2> HIDE DEF F, I
  <2> QED
    BY <1>1, <2>1, FlowOld
<1> HIDE DEF F
<1>4. Frames(F)
  <2>1. CASE LoopExitOutsideLoop \/ \E l \in Label : SkipConstruct(l)
    <3>1. open' = Branched
      BY <2>1 DEF LoopExitOutsideLoop, SkipConstruct
    <3> QED
      BY <1>2, <3>1, FramesKeep
  <2>2. CASE BeginBlock
    <3> DEFINE f == [Frame EXCEPT !.kind = "block", !.mark = count]
    <3>1. f \in FrameType /\ Held(f) = {}
      BY <1>2 DEF Frame, FrameType, BodyKinds, Held, NoBlock
    <3>2. open' = Append(open, f)
      BY <2>2 DEF BeginBlock
    <3> HIDE DEF f
    <3> QED
      BY <1>2, <3>1, <3>2, FramesPush
  <2>3. CASE EndBlock
    <3>1. open' = Pop /\ Top.kind # "fn"
      BY <2>3 DEF EndBlock
    <3> QED
      BY <1>2, <3>1, Deep, FramesPop
  <2>4. CASE BeginDefault
    <3> DEFINE f == [Top EXCEPT !.kind = "default"]
    <3>1. open' = Swap(f) /\ Top.kind = "switch"
      BY <2>4 DEF BeginDefault
    <3>2. /\ f \in FrameType /\ Held(f) = Held(Top) /\ Due(f, count') = Due(Top, count)
      BY <1>2, <3>1 DEF FrameType, BodyKinds, Held, Due, ExprKinds
    <3> HIDE DEF f
    <3> QED
      BY <1>2, <1>3, <3>1, <3>2, FramesSwap
  <2> QED
    BY <2>1, <2>2, <2>3, <2>4
<1>5. Frames(Extended(E, count))
  BY <1>4 DEF F
<1> QED
  BY <1>1, <1>5, FlowFixed

-----------------------------------------------------------------------------
(* A deferred statement is put on the list; the function ends. *)

\* The end of a function, which returns if control gets there.
LEMMA FlowEndFn ==
  ASSUME IInv, IInv', NEW E, Lists(E), EndFn
  PROVE  FlowInv' /\ NewEdges({cur})
<1> DEFINE F == Extended(E, count)
           I == OpenIn(blocks)
           g == SealAll(blocks, LabelBlocks)
           h == RunDefers(g, 0)
           k == Ret(h, cur)
<1>1. /\ phase = "body" /\ phase' = "done" /\ items' = items
      /\ IF Live /\ fnKind = "void" THEN blocks' = k ELSE blocks' = g
  BY DEF EndFn
<1>2. /\ TypeOK /\ count \in 0 .. Len(items) /\ 0 \in 0 .. count /\ Pending(0) = <<>>
      /\ cur \in Ids(blocks) /\ 0 \in Nat /\ blocks = WithBlocks(blocks, 0) /\ TypeOK'
  BY <1>1, BodyFacts, NoneListed, GrowNothing DEF IInv
<1>3. Flow(blocks, Ids(blocks), F, I, {cur}) /\ F \in Tables
  BY <1>1, <1>2, FlowBegin
<1>4. Live => cur \in I /\ blocks[cur].pend = Pending(count)
  BY <1>2 DEF OpenIn, Live, Lists, Waits, Pending, Listed
<1> HIDE DEF F, I
<1>5. Flow(g, Ids(blocks), F, I, {cur}) /\ SamePends(blocks, g, Ids(blocks))
  BY <1>3, FlowSealAll
<1> HIDE DEF g
<1>6. \E J : Flow(blocks', Ids(blocks), F, J, {cur})
  <2>1. CASE Live /\ fnKind = "void"
    <3>1. cur \in I /\ g[cur].pend = Pending(count)
      BY <1>2, <1>4, <1>5, <2>1 DEF SamePends
    <3>2. Flow(h, Ids(blocks), F, I, {cur}) /\ h[cur].pend = <<>>
      BY <1>2, <1>5, <3>1, FlowRun
    <3> HIDE DEF h
    <3>3. Flow(k, Ids(blocks), F, I \ {cur}, {cur})
      BY <1>2, <3>2, FlowRet
    <3> QED
      BY <1>1, <2>1, <3>3
  <2>2. CASE ~(Live /\ fnKind = "void")
    BY <1>1, <1>5, <2>2
  <2> QED
    BY <2>1, <2>2
<1>7. PICK J : Flow(blocks', Ids(blocks), F, J, {cur})
  BY <1>6
<1>8. Settled(blocks', F) /\ NewEdges({cur})
  BY <1>2, <1>7, FlowSettled
<1>9. F \in Tables'
  BY <1>1, <1>3 DEF Tables
<1> QED
  BY <1>1, <1>8, <1>9 DEF FlowInv

\* The first m of a list.
LEMMA PrefixOf ==
  ASSUME NEW s \in Seq(Nat), NEW m \in 0 .. Len(s)
  PROVE  /\ SubSeq(s, 1, m) \in Seq(Nat) /\ Len(SubSeq(s, 1, m)) = m
         /\ \A j \in 1 .. m : SubSeq(s, 1, m)[j] = s[j]
<1>1. m \in Nat /\ Len(s) \in Nat /\ m <= Len(s)
  OBVIOUS
<1>2. SubSeq(s, 1, m) \in Seq(Nat)
  BY <1>1
<1>3. Len(SubSeq(s, 1, m)) = m
  BY <1>1
<1>4. \A j \in 1 .. m : SubSeq(s, 1, m)[j] = s[j]
  BY <1>1
<1> QED
  BY <1>2, <1>3, <1>4

\* What one more statement leaves of the list.
LEMMA ListGrown ==
  ASSUME NEW old \in Seq(Nat), NEW list \in Seq(Nat), NEW n \in 0 .. Len(old),
         Len(list) >= n + 1, \A j \in 1 .. n : list[j] = old[j]
  PROVE  /\ \A m \in 0 .. n : SubSeq(list, 1, m) = SubSeq(old, 1, m)
         /\ SubSeq(list, 1, n + 1) = Append(SubSeq(old, 1, n), list[n + 1])
<1>1. n \in Nat /\ Len(old) \in Nat /\ Len(list) \in Nat /\ n <= Len(old)
  OBVIOUS
<1>2. ASSUME NEW m \in 0 .. n
      PROVE  SubSeq(list, 1, m) = SubSeq(old, 1, m)
  <2>1. m \in Nat /\ m <= Len(old) /\ m <= Len(list)
    BY <1>1
  <2>2. /\ SubSeq(list, 1, m) \in Seq(Nat) /\ Len(SubSeq(list, 1, m)) = m
        /\ SubSeq(old, 1, m) \in Seq(Nat) /\ Len(SubSeq(old, 1, m)) = m
        /\ \A j \in 1 .. m : SubSeq(list, 1, m)[j] = list[j] /\ SubSeq(old, 1, m)[j] = old[j]
    BY <2>1, PrefixOf
  <2>3. \A j \in 1 .. m : list[j] = old[j]
    BY <1>1, <2>1
  <2> QED
    BY <2>2, <2>3
<1>3. SubSeq(list, 1, n + 1) = Append(SubSeq(list, 1, n), list[n + 1])
  BY <1>1
<1>4. n \in 0 .. n
  BY <1>1
<1> QED
  BY <1>2, <1>3, <1>4

\* A defer statement: only the current block and those yet to come see it.
LEMMA FlowDefer ==
  ASSUME IInv, IInv', ScopeInv, NEW E, Lists(E), Defer
  PROVE  FlowInv' /\ NewEdges({cur})
<1> DEFINE d == Len(depthOf) + 1
           list == StoreDefer(items, count, d)
           p == Append(blocks[cur].pend, d)
<1>1. /\ phase = "body" /\ Live /\ Top.kind \in BodyKinds
      /\ items' = list /\ count' = count + 1 /\ blocks' = [blocks EXCEPT ![cur].pend = p]
      /\ cur' = cur /\ open' = open /\ labels' = labels
  BY DEF Defer, Stmt, InBody
<1>2. /\ TypeOK /\ Nested /\ Owned /\ cur \in Ids(blocks) /\ count \in 0 .. Len(items)
      /\ count \in Nat /\ blocks[cur].pend = Pending(count)
      /\ Consistent(blocks) /\ blocks \in [Ids(blocks) -> Block]
  BY <1>1, BodyFacts, GraphFacts DEF Lists, Waits, Pending, Listed
<1>3. d \in Nat
  BY <1>2 DEF TypeOK
<1>4. /\ list \in Seq(Nat) /\ Len(list) >= count + 1 /\ list[count + 1] = d
      /\ \A j \in 1 .. count : list[j] = items[j] /\ items \in Seq(Nat)
  BY <1>2, <1>3, StoreFacts DEF TypeOK
<1>5. /\ \A n \in 0 .. count : Listed(list, n) = Listed(items, n)
      /\ p = Listed(list, count + 1)
  <2>1. items \in Seq(Nat)
    BY <1>2 DEF TypeOK
  <2> HIDE DEF list, d
  <2>2. /\ \A n \in 0 .. count : SubSeq(list, 1, n) = SubSeq(items, 1, n)
        /\ SubSeq(list, 1, count + 1) = Append(SubSeq(items, 1, count), list[count + 1])
    BY <1>2, <1>4, <2>1, ListGrown
  <2> QED
    BY <1>2, <1>4, <2>2 DEF Listed, Pending
<1>6. /\ DOMAIN blocks' = Ids(blocks) /\ Ids(blocks') = Ids(blocks)
      /\ \A b \in Ids(blocks) : /\ blocks'[b].term = blocks[b].term
                                /\ blocks'[b].lowered = blocks[b].lowered
                                /\ blocks'[b].enter = blocks[b].enter
                                /\ b # cur => blocks'[b].pend = blocks[b].pend
      /\ blocks'[cur].pend = p
  <2>1. DOMAIN blocks = Ids(blocks) /\ blocks[cur] \in Block
    BY <1>2
  <2> DEFINE r == [blocks[cur] EXCEPT !.pend = p]
  <2>2. /\ r.pend = p /\ r.term = blocks[cur].term /\ r.lowered = blocks[cur].lowered
        /\ r.enter = blocks[cur].enter
    BY <2>1 DEF Block
  <2>3. blocks' = [blocks EXCEPT ![cur] = r]
    BY <1>1, <2>1
  <2> HIDE DEF r, p
  <2>4. DOMAIN blocks' = DOMAIN blocks /\ Len(blocks') = Len(blocks)
    <3>1. TypeOK'
      BY DEF IInv
    <3>2. DOMAIN blocks' = DOMAIN blocks /\ blocks' \in Seq(Block) /\ blocks \in Seq(Block)
      BY <1>2, <2>3, <3>1, GraphFacts DEF TypeOK
    <3> QED
      BY <3>2
  <2> QED
    BY <1>2, <2>1, <2>2, <2>3, <2>4 DEF Ids
<1> HIDE DEF d, list, p
<1>7. Settled(blocks', E)
  <2>1. blocks[cur].term.to = <<>> /\ blocks[cur].term.kind # "ret"
    BY <1>1, <1>2 DEF Consistent, Live, IsOpen
  <2>2. \A b \in Ids(blocks) : Targets(blocks', b) = Targets(blocks, b)
    BY <1>6 DEF Targets
  <2>3. Targets(blocks, cur) = {}
    <3>1. DOMAIN blocks[cur].term.to = {}
      BY <2>1
    <3> QED
      BY <3>1 DEF Targets
  <2> QED
    BY <1>6, <2>1, <2>2, <2>3 DEF Lists, Settled
<1>8. Promised(open', count', items', E)
  <2> SUFFICES ASSUME NEW i \in DOMAIN open, NEW b \in Held(open[i])
               PROVE  E[b] = Listed(list, Due(open[i], count'))
    BY <1>1 DEF Promised
  <2>1. open[i].kind \notin ExprKinds
    BY <1>1, <1>2, NoExprBelow DEF BodyKinds, ExprKinds
  <2>2. Due(open[i], count') = Due(open[i], count)
    BY <2>1 DEF Due
  <2>3. Due(open[i], count) \in 0 .. count
    <3>1. Len(open) \in DOMAIN open /\ Top = open[Len(open)] /\ DOMAIN open = 1 .. Len(open)
      BY <1>2, OpenFacts
    <3>2. Due(open[i], count) <= Due(Top, count) /\ Due(Top, count) <= count
      BY <1>1, <3>1 DEF ScopeInv
    <3>3. Due(open[i], count) \in 0 .. Len(items) /\ Due(Top, count) \in 0 .. Len(items)
      BY <1>2, <3>1, DueFacts
    <3> QED
      BY <1>2, <3>2, <3>3
  <2>4. E[b] = Listed(items, Due(open[i], count))
    BY DEF Lists, Waits, Promised
  <2> QED
    BY <1>5, <2>2, <2>3, <2>4
<1>9. Waits(E)'
  BY <1>1, <1>5, <1>6, <1>8 DEF Waits, Lists
<1>10. E \in Tables'
  <2>1. items' # <<>>
    BY <1>1, <1>2, <1>4
  <2>2. E \in [Nat -> Seq(Nat)]
    BY DEF Lists, Tables
  <2> QED
    BY <2>1, <2>2 DEF Tables
<1>11. NewEdges({cur})
  BY <1>6 DEF NewEdges
<1> QED
  BY <1>7, <1>9, <1>10, <1>11 DEF FlowInv

-----------------------------------------------------------------------------
(* The invariant of the lists. *)

\* Which blocks a step gives edges: the current one, and the head or the step
\* of a loop that has one of its own.
EdgesOfStep ==
  \/ NewEdges({cur})
  \/ (BeginArray \/ BeginFor) /\ NewEdges({cur, Len(blocks) + 1})
  \/ EndFor /\ NewEdges({cur, Top.step})

\* Every action.
LEMMA FlowNext ==
  ASSUME IInv, IInv', ScopeInv, NEW E, Lists(E), Next, Jump => items = <<>>
  PROVE  FlowInv' /\ EdgesOfStep
<1>1. CASE Expression
  BY <1>1, FlowBeginShort, FlowEndShort, FlowBoundsCheck, FlowBeginArray, FlowEndArray
     DEF Expression, EdgesOfStep
<1>2. CASE Leaving
  <2>1. NoReturnCall \/ Return \/ Break \/ Continue \/ LoopExitOutsideLoop
    BY <1>2 DEF Leaving
  <2> QED
    BY <2>1, FlowLeaveFn, FlowLeaveLoop, FlowFixedSteps DEF EdgesOfStep
<1>3. CASE Defer
  BY <1>3, FlowDefer DEF EdgesOfStep
<1>4. CASE Jump
  <2>1. PICK l \in Label : PlaceLabel(l) \/ Goto(l) \/ SkipConstruct(l)
    BY <1>4 DEF Jump
  <2>2. items = <<>>
    BY <1>4
  <2> QED
    BY <2>1, <2>2, FlowPlaceLabel, FlowGoto, FlowFixedSteps DEF EdgesOfStep
<1>5. CASE If
  <2>1. CASE \E hasElse \in BOOLEAN : BeginIf(hasElse)
    BY <2>1, FlowBeginIf DEF EdgesOfStep
  <2>2. CASE EndThen \/ EndElse
    BY <2>2, FlowTakeAlt, FlowEndBody DEF EdgesOfStep
  <2> QED
    BY <1>5, <2>1, <2>2 DEF If
<1>6. CASE While
  BY <1>6, FlowBeginWhile, FlowEnterWhile, FlowEndWhile DEF While, EdgesOfStep
<1>7. CASE For
  BY <1>7, FlowBeginFor, FlowEndFor DEF For, EdgesOfStep
<1>8. CASE Switch
  <2>1. CASE BeginSwitch \/ BeginCase \/ EndCase
    BY <2>1, FlowBeginSwitch, FlowBeginCase, FlowTakeAlt DEF EdgesOfStep
  <2>2. CASE BeginDefault \/ EndSwitch
    BY <2>2, FlowFixedSteps, FlowEndSwitch DEF EdgesOfStep
  <2> QED
    BY <1>8, <2>1, <2>2 DEF Switch
<1>9. CASE BareBlock
  BY <1>9, FlowFixedSteps DEF BareBlock, EdgesOfStep
<1>10. CASE EndFn
  BY <1>10, FlowEndFn DEF EdgesOfStep
<1> QED
  BY <1>1, <1>2, <1>3, <1>4, <1>5, <1>6, <1>7, <1>8, <1>9, <1>10 DEF Next

\* The entry block has the empty list.
LEMMA FlowInit == Init => FlowInv
<1> SUFFICES ASSUME Init PROVE FlowInv
  OBVIOUS
<1> DEFINE E == [b \in Nat |-> <<>>]
           entry == [FreshBlock EXCEPT !.sealed = TRUE, !.lowered = TRUE]
<1>1. /\ blocks = <<entry>> /\ cur = 1 /\ items = <<>> /\ count = 0 /\ open = <<Frame>>
      /\ \A l \in Label : labels[l] = NoBlock
  BY DEF Init
<1>2. E \in Tables /\ \A b \in Nat : E[b] = <<>>
  <2>1. <<>> \in Seq(Nat)
    OBVIOUS
  <2> QED
    BY <2>1 DEF Tables
<1>3. /\ entry.term.to = <<>> /\ entry.term.kind = "none" /\ entry.pend = <<>>
      /\ entry.enter = <<>>
  BY DEF FreshBlock, NoTerm
<1> HIDE DEF E, entry
<1>4. Ids(blocks) = {1} /\ blocks[1] = entry /\ 1 \in Nat
  BY <1>1 DEF Ids
<1>5. Settled(blocks, E)
  <2>1. Targets(blocks, 1) = {}
    BY <1>3, <1>4 DEF Targets
  <2> QED
    BY <1>2, <1>3, <1>4, <2>1 DEF Settled
<1>6. Promised(open, count, items, E)
  <2>1. DOMAIN open = {1} /\ open[1] = Frame
    BY <1>1
  <2>2. Held(Frame) = {}
    BY DEF Held, Frame, NoBlock
  <2> QED
    BY <2>1, <2>2 DEF Promised
<1>7. blocks[cur].pend = Listed(items, count)
  <2>1. Pending(0) = <<>>
    BY InitInv, NoneListed DEF IInv
  <2>2. Listed(items, count) = <<>>
    BY <1>1, <2>1 DEF Pending, Listed
  <2> QED
    BY <1>1, <1>3, <1>4, <2>2
<1>8. Waits(E)
  BY <1>1, <1>6, <1>7 DEF Waits
<1> QED
  BY <1>2, <1>5, <1>8 DEF FlowInv

\* The kind of function is chosen once, and its end is the last step.
LEMMA ProfileKept ==
  ASSUME [Next]_vars
  PROVE  profile' = profile
  BY DEF vars, Next, Expression, Leaving, Jump, If, While, For, Switch, BareBlock,
         BeginShort, EndShort, BoundsCheck, BeginArray, EndArray, NoReturnCall, Return, Break,
         Continue, LoopExitOutsideLoop, Defer, PlaceLabel, Goto, SkipConstruct, BeginIf, EndThen,
         EndElse, BeginWhile, EnterWhile, EndWhile, BeginFor, EndFor, BeginSwitch, BeginCase,
         EndCase, BeginDefault, EndSwitch, BeginBlock, EndBlock, EndFn, StmtFrame

LEMMA BodyNext ==
  ASSUME Next
  PROVE  phase = "body"
  BY DEF Next, Expression, Leaving, Defer, Jump, If, While, For, Switch, BareBlock,
       BeginShort, EndShort, BoundsCheck, BeginArray, EndArray, NoReturnCall, Return, Break,
       Continue, LoopExitOutsideLoop, PlaceLabel, Goto, SkipConstruct, BeginIf, EndThen,
       EndElse, BeginWhile, EnterWhile, EndWhile, BeginFor, EndFor, BeginSwitch, BeginCase,
       EndCase, BeginDefault, EndSwitch, BeginBlock, EndBlock, EndFn, Opens, Stmt, InBody, InExpr

\* A step of a function that does not both defer and jump, from its body.
LEMMA FlowKept ==
  ASSUME IInv, DefersInv, Unmixed => FlowInv, [Next]_vars, Unmixed'
  PROVE  FlowInv' /\ (Next => EdgesOfStep)
<1>1. IInv' /\ TypeOK
  BY NextKeeps DEF IInv
<1>2. profile' = profile
  BY ProfileKept
<1>3. Unmixed /\ FlowInv
  BY <1>2 DEF Unmixed, Uses
<1>4. CASE Next
  <2>1. phase = "body"
    BY <1>4, BodyNext
  <2>2. ScopeInv
    BY <1>3, <2>1, ScopesHold
  <2>3. Jump => items = <<>>
    BY <1>3 DEF Jump, PlaceLabel, Goto, SkipConstruct, Stmt, Unmixed, DefersInv
  <2>4. PICK E \in Tables : Lists(E)
    BY <1>3, <2>1 DEF FlowInv, Lists
  <2> QED
    BY <1>1, <1>4, <2>2, <2>3, <2>4, FlowNext
<1>5. CASE UNCHANGED vars
  <2>1. /\ blocks' = blocks /\ cur' = cur /\ open' = open /\ phase' = phase
        /\ items' = items /\ count' = count /\ labels' = labels
    BY <1>5 DEF vars
  <2>2. Live' = Live
    BY <2>1 DEF Live
  <2>3. Tables' = Tables
    BY <2>1 DEF Tables
  <2>4. PICK E \in Tables : Settled(blocks, E) /\ (phase = "body" => Waits(E))
    BY <1>3 DEF FlowInv
  <2>5. Settled(blocks', E)
    BY <2>1, <2>4
  <2>6. phase' = "body" => Waits(E)'
    BY <2>1, <2>2, <2>4 DEF Waits, Promised
  <2>7. FlowInv'
    BY <2>3, <2>4, <2>5, <2>6 DEF FlowInv
  <2>8. Next => EdgesOfStep
    BY <1>4
  <2> QED
    BY <2>7, <2>8
<1> QED
  BY <1>4, <1>5

\* In a function that does not both defer and jump, every path of the lowered
\* code runs each statement it has deferred once and newest first, whatever
\* ST_lower_run_defers emits at the ends of bodies, at break, continue, return
\* and calls that do not return: each edge arrives with the list its target is
\* lowered with, and a return has run them all.
THEOREM DefersDischargedOnce == Spec => [](Unmixed => DeferDiscipline)
<1>1. IInv /\ FlowInv => DeferDiscipline
  <2> SUFFICES ASSUME IInv, FlowInv, NEW b \in DOMAIN blocks
               PROVE  /\ blocks[b].term.kind = "ret" => blocks[b].pend = <<>>
                      /\ \A t \in Targets(blocks, b) :
                           blocks[t].lowered => blocks[t].enter = blocks[b].pend
    BY DEF DeferDiscipline
  <2>1. PICK E \in Tables : Settled(blocks, E)
    BY DEF FlowInv
  <2>2. b \in Ids(blocks) /\ Targets(blocks, b) \subseteq Ids(blocks)
    BY GraphFacts DEF IInv, TypeOK, Consistent
  <2> QED
    BY <2>1, <2>2 DEF Settled
<1> DEFINE Inv == IInv /\ DefersInv /\ (Unmixed => FlowInv)
<1>2. Init => Inv
  BY InitInv, DefersInit, FlowInit
<1>3. Inv /\ [Next]_vars => Inv'
  BY NextKeeps, DefersKept, FlowKept
<1>4. Inv => (Unmixed => DeferDiscipline)
  BY <1>1
<1> QED
  BY <1>2, <1>3, <1>4, PTL DEF Spec
-----------------------------------------------------------------------------

(* What can be reached. *)

\* A set of blocks that holds the entry and is closed under the edges.
Closed(g, S) == S \in SUBSET Ids(g) /\ 1 \in S /\ \A b \in S : Targets(g, b) \subseteq S

\* A block somebody branches to.
Met(g, b) == g[b].preds # <<>>

\* The blocks a construct takes up without asking whether anybody branches there.
Good(f, g) ==
  /\ f.kind \in {"array", "while", "for"} => Met(g, f.end)
  /\ f.kind = "for" => Met(g, f.begin)
  /\ f.kind \in {"then", "case"} /\ f.alt # NoBlock => Met(g, f.alt)

\* The blocks of every open construct.
MetInv == phase = "body" => \A i \in DOMAIN open : Good(open[i], blocks)

\* Without goto every block somebody branches to can be reached, and so can the
\* current one as long as it is open.
ReachInv ==
  \A S : Closed(blocks, S) => /\ \A b \in Ids(blocks) : Met(blocks, b) => b \in S
                              /\ Live => cur \in S

-----------------------------------------------------------------------------
(* The terminators a step leaves behind. *)

\* Calls that write terminators, and calls that write none.
LEMMA BrTerm ==
  ASSUME NEW D \in IdSets, NEW g \in [D -> Block], NEW from \in D, NEW to \in D
  PROVE  /\ Br(g, from, to) \in [D -> Block]
         /\ Targets(Br(g, from, to), from) = {to}
         /\ \A a \in D : a # from => Br(g, from, to)[a].term = g[a].term
<1> DEFINE x == [kind |-> "br", to |-> <<to>>]
           p == Append(g[to].preds, from)
           g1 == WithTerm(g, from, x)
           g2 == WithPreds(g1, to, p)
<1>1. x \in [kind : TermKinds, to : Seq(Nat)] /\ x.to = <<to>>
  <2>1. to \in Nat
    BY DEF IdSets
  <2> QED
    BY <2>1 DEF TermKinds
<1>2. p \in Seq(Nat)
  BY DEF IdSets, Block
<1>3. Br(g, from, to) = g2
  BY DEF Br, WithTerm, WithPreds
<1> HIDE DEF x, p
<1>4. /\ g1 \in [D -> Block] /\ g1[from].term = x
      /\ \A a \in D : a # from => g1[a] = g[a]
  BY <1>1, TermUpdate
<1> HIDE DEF g1
<1>5. /\ g2 \in [D -> Block] /\ g2[to].term = g1[to].term
      /\ \A a \in D : a # to => g2[a] = g1[a]
  BY <1>2, <1>4, PredsUpdate
<1> HIDE DEF g2
<1>6. g2[from].term = x /\ \A a \in D : a # from => g2[a].term = g[a].term
  BY <1>4, <1>5
<1>7. {x.to[i] : i \in DOMAIN x.to} = {to}
  BY <1>1
<1>8. Targets(g2, from) = {to}
  BY <1>6, <1>7 DEF Targets
<1> QED
  BY <1>3, <1>5, <1>6, <1>8

LEMMA CondBrTerm ==
  ASSUME NEW D \in IdSets, NEW g \in [D -> Block], NEW from \in D, NEW t \in D, NEW f \in D
  PROVE  /\ CondBr(g, from, t, f) \in [D -> Block]
         /\ Targets(CondBr(g, from, t, f), from) = {t, f}
         /\ \A a \in D : a # from => CondBr(g, from, t, f)[a].term = g[a].term
<1> DEFINE x == [kind |-> "condbr", to |-> <<t, f>>]
           p == Append(g[t].preds, from)
           q == Append(g[f].preds, from)
           g1 == WithTerm(g, from, x)
           g2 == WithPreds(g1, t, p)
           g3 == WithPreds(g2, f, q)
<1>1. x \in [kind : TermKinds, to : Seq(Nat)] /\ x.to = <<t, f>>
  <2>1. t \in Nat /\ f \in Nat
    BY DEF IdSets
  <2> QED
    BY <2>1 DEF TermKinds
<1>2. p \in Seq(Nat) /\ q \in Seq(Nat)
  BY DEF IdSets, Block
<1>3. CondBr(g, from, t, f) = g3
  BY DEF CondBr, WithTerm, WithPreds
<1> HIDE DEF x, p, q
<1>4. /\ g1 \in [D -> Block] /\ g1[from].term = x
      /\ \A a \in D : a # from => g1[a] = g[a]
  BY <1>1, TermUpdate
<1> HIDE DEF g1
<1>a. g1 \in [D -> Block] /\ p \in Seq(Nat)
  BY <1>2, <1>4
<1>5. /\ g2 \in [D -> Block] /\ g2[t].term = g1[t].term
      /\ \A a \in D : a # t => g2[a] = g1[a]
  BY <1>a, PredsUpdate
<1> HIDE DEF g2
<1>6. /\ g3 \in [D -> Block] /\ g3[f].term = g2[f].term
      /\ \A a \in D : a # f => g3[a] = g2[a]
  BY <1>2, <1>5, PredsUpdate
<1> HIDE DEF g3
<1>7. g3[from].term = x /\ \A a \in D : a # from => g3[a].term = g[a].term
  BY <1>4, <1>5, <1>6
<1>8. {x.to[i] : i \in DOMAIN x.to} = {t, f}
  <2>1. DOMAIN x.to = {1, 2} /\ x.to[1] = t /\ x.to[2] = f
    BY <1>1
  <2> QED
    BY <2>1
<1>9. Targets(g3, from) = {t, f}
  BY <1>7, <1>8 DEF Targets
<1> QED
  BY <1>3, <1>6, <1>7, <1>9

LEMMA CondBrElsewhere ==
  ASSUME NEW D \in IdSets, NEW g \in [D -> Block], NEW from \in D, NEW t \in D, NEW f \in D,
         NEW a \in D, a # from
  PROVE  CondBr(g, from, t, f)[a].term = g[a].term
<1> DEFINE h == CondBr(g, from, t, f)
<1>1. \A x \in D : x # from => h[x].term = g[x].term
  BY CondBrTerm
<1> QED
  BY <1>1

LEMMA TakenTerm ==
  ASSUME NEW D, NEW g \in [D -> Block], NEW b \in D, NEW p \in Seq(Nat)
  PROVE  /\ TakenUp(g, b, p) \in [D -> Block]
         /\ \A a \in D : /\ TakenUp(g, b, p)[a].term = g[a].term
                         /\ TakenUp(g, b, p)[a].preds = g[a].preds
<1> DEFINE r == [g[b] EXCEPT !.lowered = TRUE, !.enter = p, !.pend = p]
           h == TakenUp(g, b, p)
<1>1. /\ r \in Block /\ r.term = g[b].term /\ r.preds = g[b].preds
  <2>1. g[b] \in Block
    OBVIOUS
  <2> QED
    BY <2>1 DEF Block
<1>2. h = [g EXCEPT ![b] = r]
  BY DEF TakenUp
<1> HIDE DEF r, h
<1>3. /\ h \in [D -> Block] /\ h[b] = r
      /\ \A a \in D : a # b => h[a] = g[a]
  BY <1>1, <1>2
<1> QED
  BY <1>1, <1>3 DEF h

LEMMA StartTerm ==
  ASSUME TypeOK, NEW D, NEW g \in [D -> Block], NEW b \in D, NEW n \in 0 .. Len(items),
         StartBlock(g, b, n)
  PROVE  /\ blocks' \in [D -> Block] /\ cur' = b
         /\ \A a \in D : blocks'[a].term = g[a].term /\ blocks'[a].preds = g[a].preds
<1>1. blocks' = TakenUp(g, b, Pending(n)) /\ cur' = b
  BY DEF StartBlock, TakenUp
<1>2. Pending(n) \in Seq(Nat)
  BY PendingIsList
<1> DEFINE p == Pending(n)
<1>3. TakenUp(g, b, p) \in [D -> Block]
  BY <1>2, TakenTerm
<1>4. \A a \in D : /\ TakenUp(g, b, p)[a].term = g[a].term
                   /\ TakenUp(g, b, p)[a].preds = g[a].preds
  BY <1>2, TakenTerm
<1> QED
  BY <1>1, <1>3, <1>4

LEMMA SealAllTerm ==
  ASSUME NEW D, NEW g \in [D -> Block], NEW bs
  PROVE  /\ SealAll(g, bs) \in [D -> Block]
         /\ \A a \in D : SealAll(g, bs)[a].term = g[a].term
<1> DEFINE h == SealAll(g, bs)
<1>1. h = [b \in D |-> IF b \in bs THEN Seal(g, b)[b] ELSE g[b]]
  BY DEF SealAll
<1>2. \A b \in D : Seal(g, b)[b] \in Block /\ Seal(g, b)[b].term = g[b].term
  BY SealUpdate
<1> HIDE DEF h
<1>3. h \in [D -> Block] /\ \A a \in D : h[a].term = g[a].term
  BY <1>1, <1>2
<1> QED
  BY <1>3 DEF h

\* The edges of a block are those of its terminator.
LEMMA SameTargets ==
  ASSUME NEW g, NEW h, NEW a, h[a].term = g[a].term
  PROVE  Targets(h, a) = Targets(g, a)
  BY DEF Targets

\* The current block leaves for either of two blocks, and the first is started.
LEMMA ForkTargets ==
  ASSUME TypeOK, NEW D \in IdSets, NEW g \in [D -> Block], cur \in D, NEW x \in D, NEW y \in D,
         StartBlock(Seal(CondBr(g, cur, x, y), x), x, count)
  PROVE  Targets(blocks', cur) = {x, y} /\ cur' = x
<1> DEFINE g1 == CondBr(g, cur, x, y)
           g2 == Seal(g1, x)
<1>1. g1 \in [D -> Block] /\ Targets(g1, cur) = {x, y}
  BY CondBrTerm
<1> HIDE DEF g1
<1>2. g2 \in [D -> Block] /\ \A a \in D : g2[a].term = g1[a].term
  BY <1>1, SealUpdate
<1>3. StartBlock(g2, x, count)
  BY DEF g1
<1> HIDE DEF g2
<1>4. count \in 0 .. Len(items)
  BY DEF TypeOK
<1>5. cur' = x /\ \A a \in D : blocks'[a].term = g2[a].term
  BY <1>2, <1>3, <1>4, StartTerm
<1>6. blocks'[cur].term = g1[cur].term
  BY <1>2, <1>5
<1>7. Targets(blocks', cur) = Targets(g1, cur)
  BY <1>6, SameTargets
<1> QED
  BY <1>1, <1>5, <1>7

\* A loop whose head is complete at its opening.
LEMMA LoopTargets ==
  ASSUME TypeOK, NEW D \in IdSets, NEW g \in [D -> Block], cur \in D,
         NEW begin \in D, NEW body \in D, NEW end \in D, begin # cur,
         StartBlock(WithLoopHead(g, begin, body, end), body, count)
  PROVE  /\ Targets(blocks', cur) = {begin} /\ Targets(blocks', begin) = {body, end}
         /\ cur' = body
<1> DEFINE p == Pending(count)
           g1 == Br(g, cur, begin)
           g2 == TakenUp(g1, begin, p)
           g3 == CondBr(g2, begin, body, end)
           g4 == Seal(g3, body)
<1>1. count \in 0 .. Len(items)
  BY DEF TypeOK
<1>2. p \in Seq(Nat)
  BY <1>1, PendingIsList
<1>3. StartBlock(g4, body, count)
  BY DEF WithLoopHead, TakenUp
<1>4. g1 \in [D -> Block] /\ Targets(g1, cur) = {begin}
  BY BrTerm
<1> HIDE DEF g1, p
<1>5. g2 \in [D -> Block] /\ \A a \in D : g2[a].term = g1[a].term
  BY <1>2, <1>4, TakenTerm
<1> HIDE DEF g2
<1>6. /\ g3 \in [D -> Block] /\ Targets(g3, begin) = {body, end}
      /\ \A a \in D : a # begin => g3[a].term = g2[a].term
  <2>1. g3 \in [D -> Block]
    BY <1>5, CondBrTerm
  <2>2. Targets(g3, begin) = {body, end}
    BY <1>5, CondBrTerm
  <2>3. ASSUME NEW a \in D, a # begin
        PROVE  g3[a].term = g2[a].term
    BY <1>5, <2>3, CondBrElsewhere
  <2> QED
    BY <2>1, <2>2, <2>3
<1> HIDE DEF g3
<1>7. g4 \in [D -> Block] /\ \A a \in D : g4[a].term = g3[a].term
  BY <1>6, SealUpdate
<1> HIDE DEF g4
<1>8. cur' = body /\ \A a \in D : blocks'[a].term = g4[a].term
  BY <1>1, <1>3, <1>7, StartTerm
<1>9. blocks'[cur].term = g1[cur].term /\ blocks'[begin].term = g3[begin].term
  BY <1>5, <1>6, <1>7, <1>8
<1>10. /\ Targets(blocks', cur) = Targets(g1, cur)
       /\ Targets(blocks', begin) = Targets(g3, begin)
  BY <1>9, SameTargets
<1> QED
  BY <1>4, <1>6, <1>8, <1>10

\* A block another leads to has a predecessor.
LEMMA TargetsMet ==
  ASSUME IInv', NEW a \in Ids(blocks'), NEW b \in Targets(blocks', a)
  PROVE  Met(blocks', b) /\ b \in Ids(blocks')
<1>1. Consistent(blocks')
  BY DEF IInv, TypeOK
<1>2. b \in Ids(blocks') /\ a \in Preds(blocks', b)
  BY <1>1 DEF Consistent
<1> QED
  BY <1>2 DEF Preds, Met

\* A join is lowered only if somebody branches there.
LEMMA JoinMet ==
  ASSUME TypeOK, NEW D, NEW g \in [D -> Block], NEW b \in D, NEW n \in 0 .. Len(items),
         StartBlock(CloseUnreached(g, b), b, n), Live'
  PROVE  Met(blocks', b) /\ cur' = b
<1>1. CASE Met(g, b)
  <2>1. StartBlock(g, b, n)
    BY <1>1 DEF CloseUnreached, Met
  <2> QED
    BY <1>1, <2>1, StartTerm DEF Met
<1>2. CASE ~Met(g, b)
  <2> DEFINE x == [kind |-> "unreachable", to |-> <<>>]
             h == WithTerm(g, b, x)
  <2>1. StartBlock(h, b, n)
    BY <1>2 DEF CloseUnreached, Met, Unreachable, WithTerm
  <2>2. x \in [kind : TermKinds, to : Seq(Nat)] /\ x.kind = "unreachable"
    BY DEF TermKinds
  <2> HIDE DEF x
  <2>3. h \in [D -> Block] /\ h[b].term = x
    BY <2>2, TermUpdate
  <2> HIDE DEF h
  <2>4. cur' = b /\ blocks'[b].term = x
    BY <2>1, <2>3, StartTerm
  <2> QED
    BY <2>2, <2>4 DEF Live, IsOpen
<1> QED
  BY <1>1, <1>2

\* The blocks a step adds.
LEMMA Newer ==
  ASSUME IInv, phase = "body", NEW n \in Nat, NEW g, g = WithBlocks(blocks, n)
  PROVE  /\ Ids(g) \in IdSets /\ g \in [Ids(g) -> Block] /\ cur \in Ids(g) /\ TypeOK
         /\ (Len(blocks) + 1) .. (Len(blocks) + n) \subseteq Ids(g) \ {cur}
         /\ Len(blocks) \in Nat
<1>1. /\ Consistent(g) /\ cur \in Ids(g) /\ Len(blocks) \in Nat
      /\ Ids(g) \ Ids(blocks) = (Len(blocks) + 1) .. (Len(blocks) + n)
      /\ \A b \in Ids(g) \ Ids(blocks) : b # cur
  BY NewBlocks
<1>2. g \in [Ids(g) -> Block] /\ \A b \in Ids(g) : b \in Nat
  BY <1>1, GraphFacts
<1> QED
  BY <1>1, <1>2 DEF IdSets, IInv

-----------------------------------------------------------------------------
(* Each action: what it takes up and what it owes has been branched to. *)

\* A construct opened or changed by the step has its blocks branched to.
Owed == \A i \in DOMAIN open' : \/ Good(open'[i], blocks')
                                \/ i \in DOMAIN open /\ Like(open'[i], open[i])

\* The block lowered next is the current one or has been branched to.
Came == Live' => cur' = cur \/ Met(blocks', cur')

\* The head of a loop complete at its opening is a new block, which only the
\* current one has led to; the step of a for loop leads back to the head.
Backs ==
  /\ BeginArray \/ BeginFor => Live /\ Targets(blocks', cur) = {Len(blocks) + 1}
  /\ EndFor => Targets(blocks', Top.step) = {Top.begin} /\ Met(blocks, Top.begin)

\* No block goes away.
LEMMA OldIds ==
  ASSUME IInv, IInv', Kept
  PROVE  Ids(blocks) \subseteq Ids(blocks') /\ cur \in Ids(blocks')
<1>1. /\ Consistent(blocks) /\ Consistent(blocks') /\ cur \in Ids(blocks)
  BY DEF IInv, TypeOK
<1>2. DOMAIN blocks = Ids(blocks) /\ DOMAIN blocks' = Ids(blocks')
  BY <1>1, GraphFacts
<1> QED
  BY <1>1, <1>2 DEF Kept

\* The current block leaves for either of two, and the first is lowered next.
LEMMA ReachFork ==
  ASSUME IInv, IInv', Kept, NEW D \in IdSets, NEW g \in [D -> Block], cur \in D,
         NEW x \in D, NEW y \in D, StartBlock(Seal(CondBr(g, cur, x, y), x), x, count)
  PROVE  cur' = x /\ Met(blocks', x) /\ Met(blocks', y) /\ Came
<1>1. TypeOK /\ cur \in Ids(blocks')
  BY OldIds DEF IInv
<1>2. Targets(blocks', cur) = {x, y} /\ cur' = x
  BY <1>1, ForkTargets
<1>3. Met(blocks', x) /\ Met(blocks', y)
  BY <1>1, <1>2, TargetsMet
<1> QED
  BY <1>2, <1>3 DEF Came

\* The current block leaves for the head of a loop, whose body is lowered next.
LEMMA ReachLoop ==
  ASSUME IInv, IInv', Kept, NEW D \in IdSets, NEW g \in [D -> Block], cur \in D,
         NEW begin \in D, NEW body \in D, NEW end \in D, begin # cur,
         StartBlock(WithLoopHead(g, begin, body, end), body, count)
  PROVE  /\ Targets(blocks', cur) = {begin} /\ Met(blocks', begin) /\ Met(blocks', end)
         /\ Came
<1>1. TypeOK /\ cur \in Ids(blocks')
  BY OldIds DEF IInv
<1>2. /\ Targets(blocks', cur) = {begin} /\ Targets(blocks', begin) = {body, end}
      /\ cur' = body
  BY <1>1, LoopTargets
<1>3. Met(blocks', begin) /\ begin \in Ids(blocks')
  BY <1>1, <1>2, TargetsMet
<1>4. Met(blocks', body) /\ Met(blocks', end)
  BY <1>2, <1>3, TargetsMet
<1> QED
  BY <1>2, <1>3, <1>4 DEF Came

\* Only constructs the step changes owe anything new.
LEMMA OwedNew ==
  ASSUME NEW N, OnlyNew(N), \A f \in N : Good(f, blocks')
  PROVE  Owed
  BY DEF OnlyNew, Owed

\* Which of the blocks of the construct on top have been branched to.
LEMMA TopMet ==
  ASSUME IInv, IInv', Kept, MetInv, phase = "body"
  PROVE  /\ Top.kind \in {"array", "while", "for"} => Met(blocks', Top.end)
         /\ Top.kind \in {"then", "case"} /\ Top.alt # NoBlock => Met(blocks', Top.alt)
         /\ Top.kind = "for" => Met(blocks, Top.begin)
<1>1. /\ TypeOK /\ Shape(Top) /\ Consistent(blocks)
      /\ \A b \in Held(Top) : b \in Ids(blocks)
  BY BodyFacts
<1>2. Good(Top, blocks)
  BY <1>1, OpenFacts DEF MetInv
<1>3. \A b \in Ids(blocks) : Met(blocks, b) => Met(blocks', b)
  BY <1>1, GraphFacts DEF Kept, Met
<1>4. /\ Top.kind \in {"array", "while", "for"} => Top.end \in Held(Top)
      /\ Top.alt # NoBlock => Top.alt \in Held(Top)
  BY <1>1 DEF Shape, Held
<1> QED
  BY <1>1, <1>2, <1>3, <1>4 DEF Good

\* Expressions that branch, and the openings and parts of constructs.
LEMMA ReachBeginShort ==
  ASSUME IInv, IInv', Kept, BeginShort
  PROVE  Owed /\ Came
<1> DEFINE rhs == Len(blocks) + 1
           join == Len(blocks) + 2
           f == [Frame EXCEPT !.kind = "short", !.end = join]
           g == WithBlocks(blocks, 2)
<1>1. /\ phase = "body" /\ StartBlock(Seal(CondBr(g, cur, rhs, join), rhs), rhs, count)
      /\ open' = Append(open, f)
  BY DEF BeginShort, InExpr
<1>2. /\ Ids(g) \in IdSets /\ g \in [Ids(g) -> Block] /\ cur \in Ids(g) /\ TypeOK
      /\ (Len(blocks) + 1) .. (Len(blocks) + 2) \subseteq Ids(g) \ {cur}
      /\ Len(blocks) \in Nat
  BY <1>1, Newer
<1>3. rhs \in Ids(g) /\ join \in Ids(g) /\ join \in Nat
  BY <1>2
<1> HIDE DEF rhs, join, g
<1>4. Came
  BY <1>1, <1>2, <1>3, ReachFork
<1>5. f \in FrameType /\ f.kind = "short"
  BY <1>3 DEF Frame, FrameType, NoBlock
<1>6. Good(f, blocks')
  BY <1>5 DEF Good
<1> HIDE DEF f
<1>7. Owed
  BY <1>1, <1>2, <1>5, <1>6, StackPush, OwedNew
<1> QED
  BY <1>4, <1>7

LEMMA ReachBoundsCheck ==
  ASSUME IInv, IInv', Kept, BoundsCheck
  PROVE  Owed /\ Came
<1> DEFINE fail == Len(blocks) + 1
           ok == Len(blocks) + 2
           x == [kind |-> "unreachable", to |-> <<>>]
           g == WithBlocks(blocks, 2)
           g1 == CondBr(g, cur, fail, ok)
           g2 == Seal(g1, fail)
           g3 == WithTerm(g2, fail, x)
           g4 == Seal(g3, ok)
<1>1. phase = "body" /\ open' = open /\ StartBlock(g4, ok, count)
  BY DEF BoundsCheck, InExpr, Unreachable, WithTerm
<1>2. /\ Ids(g) \in IdSets /\ g \in [Ids(g) -> Block] /\ cur \in Ids(g) /\ TypeOK
      /\ (Len(blocks) + 1) .. (Len(blocks) + 2) \subseteq Ids(g) \ {cur}
      /\ Len(blocks) \in Nat
  BY <1>1, Newer
<1>3. fail \in Ids(g) /\ ok \in Ids(g) /\ fail # cur /\ count \in 0 .. Len(items)
  <2>1. count \in 0 .. Len(items)
    BY <1>2 DEF TypeOK
  <2>2. {fail, ok} \subseteq (Len(blocks) + 1) .. (Len(blocks) + 2)
    BY <1>2
  <2> HIDE DEF fail, ok, g
  <2> QED
    BY <1>2, <2>1, <2>2
<1> DEFINE D == Ids(g)
<1>a. x \in [kind : TermKinds, to : Seq(Nat)]
  BY DEF TermKinds
<1>b. /\ D \in IdSets /\ g \in [D -> Block] /\ cur \in D /\ fail \in D /\ ok \in D
  BY <1>2, <1>3
<1> HIDE DEF fail, ok, g, D, x
<1>4. g1 \in [D -> Block] /\ Targets(g1, cur) = {fail, ok}
  BY <1>b, CondBrTerm
<1> HIDE DEF g1
<1>5. g2 \in [D -> Block] /\ \A a \in D : g2[a].term = g1[a].term
  BY <1>b, <1>4, SealUpdate
<1> HIDE DEF g2
<1>6. g3 \in [D -> Block] /\ \A a \in D : a # fail => g3[a] = g2[a]
  BY <1>a, <1>b, <1>5, TermUpdate
<1> HIDE DEF g3
<1>7. g4 \in [D -> Block] /\ \A a \in D : g4[a].term = g3[a].term
  BY <1>b, <1>6, SealUpdate
<1> HIDE DEF g4
<1>8. cur' = ok /\ \A a \in D : blocks'[a].term = g4[a].term
  BY <1>1, <1>2, <1>3, <1>b, <1>7, StartTerm
<1>9. blocks'[cur].term = g1[cur].term
  BY <1>3, <1>b, <1>5, <1>6, <1>7, <1>8
<1>10. ok \in Targets(blocks', cur) /\ cur \in Ids(blocks')
  BY <1>4, <1>9, SameTargets, OldIds
<1>11. Came
  BY <1>8, <1>10, TargetsMet DEF Came
<1>12. Owed
  BY <1>1, <1>2, StackKeep, OwedNew
<1> QED
  BY <1>11, <1>12

LEMMA ReachBeginLoop ==
  ASSUME IInv, IInv', Kept, BeginArray \/ BeginFor
  PROVE  Owed /\ Came /\ Live /\ Targets(blocks', cur) = {Len(blocks) + 1}
<1>0. PICK n \in {3, 4} : (n = 3 /\ BeginArray) \/ (n = 4 /\ BeginFor)
  OBVIOUS
<1> DEFINE begin == Len(blocks) + 1
           body == Len(blocks) + 2
           end == Len(blocks) + n
           f3 == [Frame EXCEPT !.kind = "array", !.begin = begin, !.end = end]
           f4 == [Frame EXCEPT !.kind = "for", !.mark = count, !.begin = begin,
                               !.step = Len(blocks) + 3, !.end = end]
           f == IF n = 3 THEN f3 ELSE f4
           g == WithBlocks(blocks, n)
<1>1. /\ phase = "body" /\ Live /\ open' \in {Append(open, f), Append(Branched, f)}
      /\ StartBlock(WithLoopHead(g, begin, body, end), body, count)
  <2>1. CASE n = 3 /\ BeginArray
    <3>1. /\ phase = "body" /\ Live /\ open' = Append(open, f3)
          /\ StartBlock(WithLoopHead(g, begin, body, end), body, count)
      BY <2>1 DEF BeginArray
    <3>2. f = f3
      BY <2>1
    <3> HIDE DEF f, f3, g, begin, body, end
    <3> QED
      BY <3>1, <3>2
  <2>2. CASE n = 4 /\ BeginFor
    <3>1. /\ phase = "body" /\ Live /\ open' = Append(Branched, f4)
          /\ StartBlock(WithLoopHead(g, begin, body, end), body, count)
      BY <2>2 DEF BeginFor, Opens, Stmt, InBody
    <3>2. f = f4
      BY <2>2
    <3> HIDE DEF f, f4, g, begin, body, end
    <3> QED
      BY <3>1, <3>2
  <2> QED
    BY <1>0, <2>1, <2>2
<1>2. /\ Ids(g) \in IdSets /\ g \in [Ids(g) -> Block] /\ cur \in Ids(g) /\ TypeOK
      /\ (Len(blocks) + 1) .. (Len(blocks) + n) \subseteq Ids(g) \ {cur}
      /\ Len(blocks) \in Nat
  BY <1>0, <1>1, Newer
<1>3. /\ begin \in Ids(g) /\ body \in Ids(g) /\ end \in Ids(g) /\ begin # cur
      /\ begin = Len(blocks) + 1
  <2>1. {begin, body, end} \subseteq (Len(blocks) + 1) .. (Len(blocks) + n)
    BY <1>0, <1>2
  <2>2. begin = Len(blocks) + 1
    OBVIOUS
  <2> HIDE DEF begin, body, end, g
  <2> QED
    BY <1>2, <2>1, <2>2
<1>4. f \in FrameType /\ f.kind \in {"array", "for"} /\ f.begin = begin /\ f.end = end
  <2>1. {begin, end, Len(blocks) + 3, count} \subseteq Nat
    BY <1>0, <1>2 DEF TypeOK
  <2> HIDE DEF begin, end
  <2> QED
    BY <1>0, <2>1 DEF Frame, FrameType, BodyKinds, NoBlock
<1> HIDE DEF begin, body, end, g, f
<1>5. /\ Targets(blocks', cur) = {begin} /\ Met(blocks', begin) /\ Met(blocks', end)
      /\ Came
  BY <1>1, <1>2, <1>3, ReachLoop
<1>6. Good(f, blocks')
  BY <1>4, <1>5 DEF Good
<1>7. Owed
  BY <1>1, <1>2, <1>4, <1>6, StackPush, OwedNew
<1> QED
  BY <1>1, <1>3, <1>5, <1>7

LEMMA ReachBeginIf ==
  ASSUME IInv, IInv', Kept, NEW hasElse \in BOOLEAN, BeginIf(hasElse)
  PROVE  Owed /\ Came
<1> DEFINE n == IF hasElse THEN 3 ELSE 2
           then == Len(blocks) + 1
           els == IF hasElse THEN Len(blocks) + 2 ELSE NoBlock
           join == Len(blocks) + n
           other == Len(blocks) + 2
           f == [Frame EXCEPT !.kind = "then", !.mark = count, !.end = join, !.alt = els]
           g == WithBlocks(blocks, n)
<1>0. Len(blocks) \in Nat /\ n \in {2, 3} /\ n \in Nat
  BY GraphFacts DEF IInv, TypeOK
<1>1. /\ phase = "body" /\ open' = Append(Branched, f)
      /\ StartBlock(Seal(CondBr(g, cur, then, other), then), then, count)
  <2>1. WithBlocks(blocks, join - Len(blocks)) = g
    BY <1>0
  <2>2. (IF hasElse THEN els ELSE join) = other
    OBVIOUS
  <2> QED
    BY <2>1, <2>2 DEF BeginIf, Opens, Stmt, InBody
<1>2. /\ Ids(g) \in IdSets /\ g \in [Ids(g) -> Block] /\ cur \in Ids(g) /\ TypeOK
      /\ (Len(blocks) + 1) .. (Len(blocks) + n) \subseteq Ids(g) \ {cur}
  BY <1>0, <1>1, Newer
<1>3. then \in Ids(g) /\ other \in Ids(g)
  <2>1. {then, other} \subseteq (Len(blocks) + 1) .. (Len(blocks) + n)
    BY <1>0
  <2> HIDE DEF then, other, g
  <2> QED
    BY <1>2, <2>1
<1>4. f \in FrameType /\ f.kind = "then" /\ f.alt \in {NoBlock, other}
  <2>1. {join, els, count} \subseteq Nat /\ els \in {NoBlock, other}
    BY <1>0, <1>2 DEF TypeOK, NoBlock
  <2> HIDE DEF join, els
  <2> QED
    BY <2>1 DEF Frame, FrameType, BodyKinds, NoBlock
<1> HIDE DEF then, other, g, f, n
<1>5. Met(blocks', other) /\ Came
  BY <1>1, <1>2, <1>3, ReachFork
<1>6. Good(f, blocks')
  BY <1>4, <1>5 DEF Good
<1>7. Owed
  BY <1>1, <1>2, <1>4, <1>6, StackPush, OwedNew
<1> QED
  BY <1>5, <1>7

LEMMA ReachBeginWhile ==
  ASSUME IInv, IInv', Kept, BeginWhile
  PROVE  Owed /\ Came
<1> DEFINE begin == Len(blocks) + 1
           body == Len(blocks) + 2
           end == Len(blocks) + 3
           f == [Frame EXCEPT !.kind = "head", !.begin = begin, !.step = begin,
                              !.end = end, !.alt = body]
           g == WithBlocks(blocks, 3)
           g1 == Br(g, cur, begin)
<1>1. phase = "body" /\ open' = Append(Branched, f) /\ StartBlock(g1, begin, count)
  BY DEF BeginWhile, Opens, Stmt, InBody
<1>2. /\ Ids(g) \in IdSets /\ g \in [Ids(g) -> Block] /\ cur \in Ids(g) /\ TypeOK
      /\ (Len(blocks) + 1) .. (Len(blocks) + 3) \subseteq Ids(g) \ {cur}
      /\ Len(blocks) \in Nat
  BY <1>1, Newer
<1>3. begin \in Ids(g) /\ count \in 0 .. Len(items)
  <2>1. count \in 0 .. Len(items)
    BY <1>2 DEF TypeOK
  <2>2. begin \in (Len(blocks) + 1) .. (Len(blocks) + 3)
    BY <1>2
  <2> HIDE DEF begin, g
  <2> QED
    BY <1>2, <2>1, <2>2
<1>4. f \in FrameType /\ f.kind = "head"
  <2>1. {begin, body, end} \subseteq Nat
    BY <1>2
  <2> HIDE DEF begin, body, end
  <2> QED
    BY <2>1 DEF Frame, FrameType, BodyKinds, NoBlock
<1>5. Good(f, blocks')
  BY <1>4 DEF Good
<1> HIDE DEF begin, g, f
<1>6. g1 \in [Ids(g) -> Block] /\ Targets(g1, cur) = {begin}
  BY <1>2, <1>3, BrTerm
<1> HIDE DEF g1
<1>7. cur' = begin /\ blocks'[cur].term = g1[cur].term
  BY <1>1, <1>2, <1>3, <1>6, StartTerm
<1>8. Targets(blocks', cur) = {begin} /\ cur \in Ids(blocks')
  BY <1>6, <1>7, SameTargets, OldIds
<1>9. Came
  BY <1>7, <1>8, TargetsMet DEF Came
<1>10. Owed
  BY <1>1, <1>2, <1>4, <1>5, StackPush, OwedNew
<1> QED
  BY <1>9, <1>10

LEMMA ReachEnterWhile ==
  ASSUME IInv, IInv', Kept, EnterWhile
  PROVE  Owed /\ Came
<1> DEFINE body == Top.alt
           end == Top.end
           f == [Top EXCEPT !.kind = "while", !.mark = count, !.alt = NoBlock]
<1>1. /\ phase = "body" /\ Top.kind = "head" /\ open' = Swap(f)
      /\ StartBlock(Seal(CondBr(blocks, cur, body, end), body), body, count)
  BY DEF EnterWhile
<1>2. /\ TypeOK /\ cur \in Ids(blocks) /\ Top \in FrameType /\ count \in Nat
      /\ body \in Ids(blocks) /\ end \in Ids(blocks)
  BY <1>1, BodyFacts DEF Held, Shape
<1>3. blocks \in [Ids(blocks) -> Block] /\ Ids(blocks) \in IdSets
  BY <1>2, GraphFacts DEF TypeOK, IdSets
<1>4. f \in FrameType /\ f.kind = "while" /\ f.end = end
  BY <1>2 DEF FrameType, BodyKinds, NoBlock
<1> HIDE DEF body, end, f
<1>5. Met(blocks', end) /\ Came
  BY <1>1, <1>2, <1>3, ReachFork
<1>6. Good(f, blocks')
  BY <1>4, <1>5 DEF Good
<1>7. Owed
  BY <1>1, <1>2, <1>4, <1>6, StackSwap, OwedNew
<1> QED
  BY <1>5, <1>7

LEMMA ReachBeginCase ==
  ASSUME IInv, IInv', Kept, BeginCase
  PROVE  Owed /\ Came
<1> DEFINE body == Len(blocks) + 1
           next == Len(blocks) + 2
           f == [Top EXCEPT !.kind = "case", !.alt = next]
           g == WithBlocks(blocks, 2)
<1>1. /\ phase = "body" /\ Top.kind = "switch" /\ open' = Swap(f)
      /\ StartBlock(Seal(CondBr(g, cur, body, next), body), body, count)
  BY DEF BeginCase
<1>2. /\ Ids(g) \in IdSets /\ g \in [Ids(g) -> Block] /\ cur \in Ids(g) /\ TypeOK
      /\ (Len(blocks) + 1) .. (Len(blocks) + 2) \subseteq Ids(g) \ {cur}
      /\ Len(blocks) \in Nat /\ Top \in FrameType
  BY <1>1, Newer, BodyFacts
<1>3. body \in Ids(g) /\ next \in Ids(g) /\ next \in Nat
  BY <1>2
<1> HIDE DEF body, next, g
<1>4. f \in FrameType /\ f.kind = "case" /\ f.alt = next
  BY <1>2, <1>3 DEF FrameType, BodyKinds
<1> HIDE DEF f
<1>5. Met(blocks', next) /\ Came
  BY <1>1, <1>2, <1>3, ReachFork
<1>6. Good(f, blocks')
  BY <1>4, <1>5 DEF Good
<1>7. Owed
  BY <1>1, <1>2, <1>4, <1>6, StackSwap, OwedNew
<1> QED
  BY <1>5, <1>7

\* A construct ends: its join is lowered next, closed if nobody branches there.
LEMMA ReachJoin ==
  ASSUME IInv, phase = "body", Top.kind # "fn", open' = Pop, Top.end \in Ids(blocks),
         NEW g \in [Ids(blocks) -> Block], NEW n \in 0 .. Len(items),
         StartBlock(Join(g), Top.end, n)
  PROVE  Owed /\ Came
<1> DEFINE h == Seal(g, Top.end)
<1>1. TypeOK /\ Len(open) >= 2
  BY Deep, BodyFacts
<1>2. h \in [Ids(blocks) -> Block]
  BY SealUpdate
<1>3. StartBlock(CloseUnreached(h, Top.end), Top.end, n)
  BY DEF Join
<1> HIDE DEF h
<1>4. Came
  BY <1>1, <1>2, <1>3, JoinMet DEF Came
<1>5. Owed
  BY <1>1, StackPop, OwedNew
<1> QED
  BY <1>4, <1>5

LEMMA ReachEndBody ==
  ASSUME IInv, EndShort \/ (EndThen /\ Top.alt = NoBlock) \/ EndElse \/ EndSwitch
  PROVE  Owed /\ Came
<1>1. /\ phase = "body" /\ open' = Pop
      /\ Top.kind \in {"short", "then", "else", "switch", "default"}
  BY DEF EndShort, EndThen, EndElse, EndSwitch, InBody
<1>2. /\ TypeOK /\ Consistent(blocks) /\ cur \in Ids(blocks) /\ Top.mark \in 0 .. Len(items)
      /\ count \in 0 .. Len(items) /\ Top.end \in Ids(blocks) /\ ~blocks[Top.end].sealed
      /\ Top.mark \in Nat
  BY <1>1, BodyFacts DEF Shape, Held
<1>3. blocks \in [Ids(blocks) -> Block] /\ Ids(blocks) \in IdSets
  BY <1>2, GraphFacts DEF IdSets
<1>4. PICK n \in {count, Top.mark}, g \in {CloseBody(blocks, Top.end), Br(blocks, cur, Top.end), blocks} :
         StartBlock(Join(g), Top.end, n)
  BY DEF EndShort, EndThen, EndElse, EndSwitch, Join
<1>5. g \in [Ids(blocks) -> Block]
  <2>1. Br(blocks, cur, Top.end) \in [Ids(blocks) -> Block]
    BY <1>2, <1>3, BrTerm
  <2>2. CloseBody(blocks, Top.end) \in [Ids(blocks) -> Block]
    <3> DEFINE h == CloseBody(blocks, Top.end)
    <3>1. Edits(blocks, h, {cur}, {}) /\ Len(h) = Len(blocks)
      BY <1>2, CloseBodyEdits
    <3> HIDE DEF h
    <3>2. Consistent(h) /\ Ids(h) = Ids(blocks)
      BY <3>1, EditsBounds DEF Ids
    <3>3. h \in [Ids(blocks) -> Block]
      BY <3>2, GraphFacts
    <3> QED
      BY <3>3 DEF h
  <2> QED
    BY <1>3, <2>1, <2>2
<1> QED
  BY <1>1, <1>2, <1>4, <1>5, ReachJoin

\* A loop ends, and the block after it has been branched to by its head.
LEMMA ReachEndLoop ==
  ASSUME IInv, IInv', Kept, MetInv, EndArray \/ EndWhile \/ EndFor
  PROVE  Owed /\ Came
<1>1. /\ phase = "body" /\ open' = Pop /\ Top.kind \in {"array", "while", "for"}
      /\ cur' = Top.end
  BY DEF EndArray, EndWhile, EndFor, InBody, StartBlock
<1>2. TypeOK /\ Len(open) >= 2
  BY <1>1, Deep, BodyFacts
<1>3. Came
  BY <1>1, TopMet DEF Came
<1>4. Owed
  BY <1>1, <1>2, StackPop, OwedNew
<1> QED
  BY <1>3, <1>4

\* The step of a for loop leads back to its head.
LEMMA ForTargets ==
  ASSUME IInv, EndFor
  PROVE  Targets(blocks', Top.step) = {Top.begin}
<1> DEFINE step == Top.step
           p == Pending(Top.mark)
           closed == CloseBody(blocks, step)
           g1 == Seal(closed, step)
           g2 == TakenUp(g1, step, p)
           g3 == Br(g2, step, Top.begin)
           g4 == SealAll(g3, {Top.begin, Top.end})
           D == Ids(blocks)
<1>1. phase = "body" /\ Top.kind = "for" /\ StartBlock(g4, Top.end, Top.mark)
  BY DEF EndFor, InBody, TakenUp
<1>2. /\ TypeOK /\ Consistent(blocks) /\ cur \in D /\ Top.mark \in 0 .. Len(items)
      /\ step \in D /\ Top.end \in D /\ Top.begin \in D /\ ~blocks[step].sealed
      /\ Top.mark \in Nat
  BY <1>1, BodyFacts DEF Shape, Held
<1>3. D \in IdSets /\ p \in Seq(Nat)
  BY <1>2, GraphFacts, PendingIsList DEF IdSets
<1>4. closed \in [D -> Block]
  <2>1. Edits(blocks, closed, {cur}, {}) /\ Len(closed) = Len(blocks)
    BY <1>2, CloseBodyEdits
  <2> HIDE DEF closed
  <2>2. Consistent(closed) /\ Ids(closed) = D
    BY <2>1, EditsBounds DEF Ids
  <2> QED
    BY <2>2, GraphFacts
<1> HIDE DEF closed, p, D
<1>5. g1 \in [D -> Block]
  BY <1>2, <1>4, SealUpdate
<1> HIDE DEF g1
<1>6. g2 \in [D -> Block]
  BY <1>2, <1>3, <1>5, TakenTerm
<1> HIDE DEF g2
<1>7. g3 \in [D -> Block] /\ Targets(g3, step) = {Top.begin}
  BY <1>2, <1>3, <1>6, BrTerm
<1> HIDE DEF g3
<1>8. g4 \in [D -> Block] /\ g4[step].term = g3[step].term
  BY <1>2, <1>7, SealAllTerm
<1> HIDE DEF g4
<1>9. blocks'[step].term = g4[step].term
  BY <1>1, <1>2, <1>8, StartTerm
<1>10. Targets(blocks', step) = Targets(g3, step)
  BY <1>8, <1>9, SameTargets
<1> QED
  BY <1>7, <1>10

\* A body ends and the other part of its construct is lowered next.
LEMMA ReachTakeAlt ==
  ASSUME IInv, IInv', Kept, MetInv, (EndThen /\ Top.alt # NoBlock) \/ EndCase
  PROVE  Owed /\ Came
<1>1. phase = "body" /\ Top.kind \in {"then", "case"} /\ cur' = Top.alt
  BY DEF EndThen, EndCase, InBody, StartBlock
<1>2. PICK kind \in {"else", "switch"} :
        open' = Swap([Top EXCEPT !.kind = kind, !.alt = NoBlock, !.tight = {}])
  BY DEF EndThen, EndCase
<1> DEFINE f == [Top EXCEPT !.kind = kind, !.alt = NoBlock, !.tight = {}]
<1>3. TypeOK /\ Top \in FrameType /\ Shape(Top)
  BY <1>1, BodyFacts
<1>4. f \in FrameType /\ f.kind = kind
  BY <1>3 DEF FrameType, BodyKinds, NoBlock
<1>5. Top.alt # NoBlock
  BY <1>3 DEF EndCase, Shape
<1>6. open' = Swap(f)
  BY <1>2
<1> HIDE DEF f
<1>7. Came
  BY <1>1, <1>5, TopMet DEF Came
<1>8. Good(f, blocks')
  BY <1>4 DEF Good
<1>9. Owed
  BY <1>3, <1>4, <1>6, <1>8, StackSwap, OwedNew
<1> QED
  BY <1>7, <1>9

\* Control leaves for good.
LEMMA ReachLeaving ==
  ASSUME IInv, Leaving
  PROVE  Owed /\ Came
<1>1. open' \in {open, Branched} /\ TypeOK
  BY DEF Leaving, NoReturnCall, Return, Break, Continue, LoopExitOutsideLoop, IInv
<1>2. Owed
  BY <1>1, StackKeep, OwedNew
<1>3. CASE LoopExitOutsideLoop
  BY <1>2, <1>3 DEF LoopExitOutsideLoop, Came
<1>4. CASE NoReturnCall \/ Return \/ Break \/ Continue
  BY <1>2, <1>4, LeftForGood DEF Came
<1> QED
  BY <1>3, <1>4 DEF Leaving

\* Steps that go on in the current block.
LEMMA ReachFixed ==
  ASSUME IInv, Defer \/ BeginSwitch \/ BeginDefault \/ BeginBlock \/ EndBlock \/ EndFn
  PROVE  Owed /\ Came
<1>1. cur' = cur /\ phase = "body"
  BY DEF Defer, BeginSwitch, BeginDefault, BeginBlock, EndBlock, EndFn, Opens, Stmt, InBody
<1>a. Came
  BY <1>1 DEF Came
<1>2. TypeOK /\ Top \in FrameType /\ count \in Nat /\ Len(blocks) \in Nat
  BY <1>1, BodyFacts, GraphFacts
<1>3. CASE Defer \/ EndFn
  BY <1>a, <1>2, <1>3, StackKeep, OwedNew DEF Defer, EndFn
<1>4. CASE EndBlock
  <2>1. open' = Pop /\ Len(open) >= 2
    BY <1>1, <1>4, BodyFacts, Deep DEF EndBlock
  <2> QED
    BY <1>a, <1>2, <2>1, StackPop, OwedNew
<1>5. CASE BeginSwitch \/ BeginBlock
  <2> DEFINE end == Len(blocks) + 1
             f1 == [Frame EXCEPT !.kind = "switch", !.mark = count, !.end = end]
             f2 == [Frame EXCEPT !.kind = "block", !.mark = count]
  <2>1. /\ {f1, f2} \subseteq FrameType
        /\ \A f \in {f1, f2} : f.kind \in {"switch", "block"}
    <3>1. f1 \in FrameType /\ f1.kind = "switch"
      <4>1. end \in Nat /\ count \in Nat
        BY <1>2
      <4> HIDE DEF end
      <4> QED
        BY <4>1 DEF Frame, FrameType, NoBlock
    <3>2. f2 \in FrameType /\ f2.kind = "block"
      BY <1>2 DEF Frame, FrameType, BodyKinds, NoBlock
    <3> HIDE DEF f1, f2
    <3> QED
      BY <3>1, <3>2
  <2>2. PICK f \in {f1, f2} : open' \in {Append(open, f), Append(Branched, f)}
    BY <1>5 DEF BeginSwitch, BeginBlock
  <2> HIDE DEF f1, f2
  <2>3. Good(f, blocks')
    BY <2>1 DEF Good
  <2> QED
    BY <1>a, <1>2, <2>1, <2>2, <2>3, StackPush, OwedNew
<1>6. CASE BeginDefault
  <2> DEFINE f == [Top EXCEPT !.kind = "default"]
  <2>1. open' = Swap(f)
    BY <1>6 DEF BeginDefault
  <2>2. f \in FrameType /\ f.kind = "default"
    BY <1>2 DEF FrameType, BodyKinds
  <2> HIDE DEF f
  <2>3. Good(f, blocks')
    BY <2>2 DEF Good
  <2> QED
    BY <1>a, <1>2, <2>1, <2>2, <2>3, StackSwap, OwedNew
<1> QED
  BY <1>3, <1>4, <1>5, <1>6

-----------------------------------------------------------------------------
(* What is branched to can be reached. *)

\* Every action but those of labels.
LEMMA ReachNext ==
  ASSUME IInv, IInv', Kept, MetInv, Next, ~Jump
  PROVE  Owed /\ Came /\ Backs
<1>1. Owed /\ Came
  <2>1. CASE Expression
    BY <2>1, ReachBeginShort, ReachEndBody, ReachBoundsCheck, ReachBeginLoop, ReachEndLoop
       DEF Expression
  <2>2. CASE Leaving \/ Defer \/ EndFn
    BY <2>2, ReachLeaving, ReachFixed
  <2>3. CASE If
    BY <2>3, ReachBeginIf, ReachTakeAlt, ReachEndBody DEF If
  <2>4. CASE While \/ For
    BY <2>4, ReachBeginWhile, ReachEnterWhile, ReachBeginLoop, ReachEndLoop DEF While, For
  <2>5. CASE Switch
    BY <2>5, ReachFixed, ReachBeginCase, ReachTakeAlt, ReachEndBody DEF Switch
  <2>6. CASE BareBlock
    BY <2>6, ReachFixed DEF BareBlock
  <2> QED
    BY <2>1, <2>2, <2>3, <2>4, <2>5, <2>6 DEF Next
<1>2. BeginArray \/ BeginFor => Live /\ Targets(blocks', cur) = {Len(blocks) + 1}
  BY ReachBeginLoop
<1>3. EndFor => Targets(blocks', Top.step) = {Top.begin} /\ Met(blocks, Top.begin)
  <2> SUFFICES ASSUME EndFor
               PROVE  Targets(blocks', Top.step) = {Top.begin} /\ Met(blocks, Top.begin)
    OBVIOUS
  <2>1. phase = "body" /\ Top.kind = "for"
    BY DEF EndFor, InBody
  <2> QED
    BY <2>1, ForTargets, TopMet
<1> QED
  BY <1>1, <1>2, <1>3 DEF Backs

\* Constructs that stay keep to it, because no block loses its predecessors.
LEMMA MetKept ==
  ASSUME IInv, phase = "body", Kept, MetInv, Owed
  PROVE  MetInv'
<1> SUFFICES ASSUME NEW i \in DOMAIN open' PROVE Good(open'[i], blocks')
  BY DEF MetInv
<1>1. CASE i \in DOMAIN open /\ Like(open'[i], open[i])
  <2>1. Owned /\ Consistent(blocks)
    BY BodyFacts
  <2>2. Good(open[i], blocks) /\ Shape(open[i]) /\ \A b \in Held(open[i]) : b \in Ids(blocks)
    BY <1>1, <2>1 DEF MetInv, Owned
  <2>3. \A b \in Held(open[i]) : Met(blocks, b) => Met(blocks', b)
    BY <2>1, <2>2, GraphFacts DEF Kept, Met
  <2>4. /\ open[i].kind \in {"array", "while", "for"} => open[i].end \in Held(open[i])
        /\ open[i].kind = "for" => open[i].begin \in Held(open[i])
        /\ open[i].alt # NoBlock => open[i].alt \in Held(open[i])
    BY <2>2 DEF Shape, Held
  <2> QED
    BY <1>1, <2>2, <2>3, <2>4 DEF Good, Like
<1> QED
  BY <1>1 DEF Owed

\* A closed set after the step is, among the blocks there were, one before it.
LEMMA ReachKept ==
  ASSUME IInv, IInv', phase = "body", Kept, ReachInv, EdgesOfStep, Came, Backs
  PROVE  ReachInv'
<1> SUFFICES ASSUME NEW T, Closed(blocks', T)
             PROVE  /\ \A b \in Ids(blocks') : Met(blocks', b) => b \in T
                    /\ Live' => cur' \in T
  BY DEF ReachInv
<1> DEFINE S == T \cap Ids(blocks)
<1>1. /\ /\ Consistent(blocks) /\ Consistent(blocks') /\ cur \in Ids(blocks)
      /\ cur' \in Ids(blocks')
      /\ DOMAIN blocks = Ids(blocks) /\ DOMAIN blocks' = Ids(blocks') /\ Len(blocks) \in Nat
      /\ 1 \in T /\ \A b \in T : Targets(blocks', b) \subseteq T
  BY GraphFacts DEF IInv, TypeOK, Closed
<1>2. \A b \in Ids(blocks) : blocks'[b].term = blocks[b].term =>
                               Targets(blocks', b) = Targets(blocks, b)
  BY SameTargets
<1>3. Closed(blocks, S)
  <2>1. 1 \in Ids(blocks)
    BY <1>1 DEF Ids
  <2>2. ASSUME NEW b \in S PROVE Targets(blocks, b) \subseteq S
    <3>1. Targets(blocks, b) \subseteq Ids(blocks)
      BY <1>1 DEF Consistent
    <3>2. CASE IsOpen(blocks, b)
      <4>1. DOMAIN blocks[b].term.to = {}
        BY <1>1, <3>2 DEF Consistent
      <4> QED
        BY <4>1 DEF Targets
    <3>3. CASE ~IsOpen(blocks, b)
      BY <1>1, <1>2, <3>1, <3>3 DEF Kept
    <3> QED
      BY <3>2, <3>3
  <2> QED
    BY <1>1, <2>1, <2>2 DEF Closed
<1>4. (\A b \in Ids(blocks) : Met(blocks, b) => b \in T) /\ (Live => cur \in T)
  BY <1>3 DEF ReachInv
<1> HIDE DEF S
\* No edge leads out of T: neither one there was before
<1>5. ASSUME NEW a \in Ids(blocks), blocks'[a].term = blocks[a].term
      PROVE  Targets(blocks', a) \subseteq T
  <2> SUFFICES ASSUME NEW b \in Targets(blocks, a) PROVE b \in T
    BY <1>2, <1>5
  <2>1. b \in Ids(blocks) /\ a \in Preds(blocks, b)
    BY <1>1 DEF Consistent
  <2>2. Met(blocks, b)
    BY <2>1 DEF Preds, Met
  <2> QED
    BY <1>4, <2>1, <2>2
\* nor one from the current block, which is within T if it was open
<1>6. Targets(blocks', cur) \subseteq T
  BY <1>1, <1>4, <1>5 DEF Live, Kept
\* nor one from the head or the step of a loop.
<1>7. ASSUME NEW a \in Ids(blocks') PROVE Targets(blocks', a) \subseteq T
  <2>1. CASE NewEdges({cur})
    BY <1>1, <1>5, <1>6, <2>1 DEF NewEdges
  <2>2. CASE (BeginArray \/ BeginFor) /\ NewEdges({cur, Len(blocks) + 1})
    <3>1. Len(blocks) + 1 \in T
      BY <1>6, <2>2 DEF Backs
    <3>2. Targets(blocks', Len(blocks) + 1) \subseteq T
      BY <1>1, <3>1
    <3> QED
      BY <1>1, <1>5, <1>6, <2>2, <3>2 DEF NewEdges
  <2>3. CASE EndFor /\ NewEdges({cur, Top.step})
    <3>1. Top.begin \in Ids(blocks)
      <4>1. Top.kind = "for" /\ Shape(Top) /\ \A b \in Held(Top) : b \in Ids(blocks)
        BY <2>3, BodyFacts DEF EndFor
      <4> QED
        BY <4>1 DEF Shape, Held
    <3>2. Targets(blocks', Top.step) \subseteq T
      BY <1>4, <2>3, <3>1 DEF Backs
    <3> QED
      BY <1>1, <1>5, <1>6, <2>3, <3>2 DEF NewEdges
  <2> QED
    BY <2>1, <2>2, <2>3 DEF EdgesOfStep
<1>8. ASSUME NEW b \in Ids(blocks'), Met(blocks', b) PROVE b \in T
  <2>1. blocks'[b].preds \in Seq(Nat) /\ blocks'[b].preds # <<>>
    BY <1>1, <1>8, GraphFacts DEF Block, Met
  <2>2. 1 \in DOMAIN blocks'[b].preds
    BY <2>1
  <2>3. PICK a : a \in Preds(blocks', b)
    BY <2>2 DEF Preds
  <2>4. a \in Ids(blocks') /\ b \in Targets(blocks', a)
    BY <1>1, <2>3 DEF Consistent
  <2> QED
    BY <1>7, <2>4
<1>9. Live' => cur' \in T
  <2> SUFFICES ASSUME Live' PROVE cur' \in T
    OBVIOUS
  <2>1. CASE cur' = cur
    <3>1. IsOpen(blocks', cur)
      BY <2>1 DEF Live
    <3>2. IsOpen(blocks, cur)
      BY <1>1, <3>1 DEF Kept, IsOpen
    <3> QED
      BY <1>4, <2>1, <3>2 DEF Live
  <2>2. CASE Met(blocks', cur')
    BY <1>1, <1>8, <2>2
  <2> QED
    BY <2>1, <2>2 DEF Came
<1> QED
  BY <1>8, <1>9

\* The entry block is the only one.
LEMMA ReachInit == Init => MetInv /\ ReachInv
<1> SUFFICES ASSUME Init PROVE MetInv /\ ReachInv
  OBVIOUS
<1> DEFINE entry == [FreshBlock EXCEPT !.sealed = TRUE, !.lowered = TRUE]
<1>1. blocks = <<entry>> /\ cur = 1 /\ open = <<Frame>>
  BY DEF Init
<1>a. entry.preds = <<>>
  BY DEF FreshBlock
<1> HIDE DEF entry
<1>2. Ids(blocks) = {1} /\ ~Met(blocks, 1)
  BY <1>1, <1>a DEF Ids, Met
<1>3. ReachInv
  BY <1>1, <1>2 DEF ReachInv, Closed
<1>4. MetInv
  <2>1. DOMAIN open = {1} /\ open[1] = Frame
    BY <1>1
  <2>2. Frame.kind = "fn"
    BY DEF Frame
  <2> QED
    BY <2>1, <2>2 DEF MetInv, Good
<1> QED
  BY <1>3, <1>4

\* In a function without labels, st_lower.c reports a missing return at its end
\* only if control can get there: every set of blocks that holds the entry and is
\* closed under the edges holds the last block.  ST_lower_stmt closes a join at
\* once if nobody branches to it, and no other block stays open unreached.
THEOREM FallThroughIsReal == Spec => [](~Uses("jump") => FallThroughReal)
<1> DEFINE Told == IInv /\ DefersInv /\ (Unmixed => FlowInv)
           Reaches == ~Uses("jump") => MetInv /\ ReachInv
           Inv == Told /\ Reaches
<1>1. Init => Inv
  BY InitInv, DefersInit, FlowInit, ReachInit
<1>2. Inv /\ [Next]_vars => Inv'
  <2> SUFFICES ASSUME Inv, [Next]_vars PROVE Inv'
    OBVIOUS
  <2>1. IInv' /\ DefersInv' /\ Kept
    BY NextKeeps, DefersKept
  <2>2. (Unmixed => FlowInv)'
    BY FlowKept
  <2>3. ASSUME ~Uses("jump")' PROVE MetInv' /\ ReachInv'
    <3>1. ~Uses("jump") /\ Unmixed'
      BY <2>3, ProfileKept DEF Uses, Unmixed
    <3>2. MetInv /\ ReachInv
      BY <3>1
    <3>3. CASE Next
      <4>1. EdgesOfStep /\ phase = "body"
        BY <3>1, <3>3, FlowKept, BodyNext
      <4>2. ~Jump
        BY <3>1 DEF Jump, PlaceLabel, Goto, SkipConstruct, Stmt
      <4>3. Owed /\ Came /\ Backs
        BY <2>1, <3>2, <3>3, <4>2, ReachNext
      <4> QED
        BY <2>1, <3>2, <4>1, <4>3, MetKept, ReachKept
    <3>4. CASE UNCHANGED vars
      BY <3>2, <3>4 DEF vars, MetInv, ReachInv, Live
    <3> QED
      BY <3>3, <3>4
  <2> QED
    BY <2>1, <2>2, <2>3
<1>3. Inv => (~Uses("jump") => FallThroughReal)
  <2> SUFFICES ASSUME IInv, ReachInv, Live, NEW S \in SUBSET DOMAIN blocks,
                      1 \in S, \A b \in S : Targets(blocks, b) \subseteq S
               PROVE  cur \in S
    BY DEF FallThroughReal
  <2>1. DOMAIN blocks = Ids(blocks)
    BY GraphFacts DEF IInv, TypeOK
  <2>2. Closed(blocks, S)
    BY <2>1 DEF Closed
  <2> QED
    BY <2>2 DEF ReachInv
<1> QED
  BY <1>1, <1>2, <1>3, PTL DEF Spec
=============================================================================
