--------------------------- MODULE LowerSSAProofs ----------------------------
(***************************************************************************)
(* Theorems about the hidden variables of a lowered function (LowerSSA),   *)
(* for every set of labels and every kind of function: every read of one   *)
(* comes back, and without labels none comes before the first write.       *)
(*                                                                         *)
(* The steps of the lowering are those of LowerProofs; each is followed    *)
(* here once more, call by call, on the values of the function, with the   *)
(* lemmas of SSAConstruction about each call.  A search that does not come *)
(* back has found a loop that control cannot reach; a function without     *)
(* labels has none, since all that has predecessors can be reached.        *)
(*                                                                         *)
(* A search for a variable stays in the region of its construct: the       *)
(* blocks made since the construct was opened, as long as it is open.  The *)
(* only way in is by a block that has written the variable.                *)
(***************************************************************************)
EXTENDS LowerSSA, LowerProofs, SSAConstruction

-----------------------------------------------------------------------------
(* A function without labels so far has no dead loop. *)

\* As long as no label has a block, control reaches what has predecessors.
NoLabels ==
  LabelBlocks = {} =>
    (phase = "body" => ScopeInv) /\ FlowInv /\ MetInv /\ ReachInv

\* Nothing takes a block from a label.
LEMMA LabelsKept ==
  ASSUME IInv, [Next]_vars, LabelBlocks' = {}
  PROVE  LabelBlocks = {} /\ (Next /\ Jump => \E l \in Label : SkipConstruct(l))
<1>1. \A l \in Label : labels'[l] = NoBlock
  BY DEF LabelBlocks
<1>2. ASSUME NEW l \in Label, PlaceLabel(l) \/ Goto(l) PROVE FALSE
  <2>1. phase = "body" /\ labels' = [labels EXCEPT ![l] = LabelBlock(l)]
    BY <1>2 DEF PlaceLabel, Goto, InBody, Stmt
  <2>2. labels'[l] = LabelBlock(l)
    BY <2>1 DEF IInv, TypeOK
  <2>3. LabelBlock(l) # NoBlock
    <3> DEFINE b == LabelBlock(l)
               g == WithLabelBlock(l)
    <3>1. b \in Nat \ {NoBlock}
      BY <2>1, LabelFacts
    <3> QED
      BY <3>1
  <2> QED
    BY <1>1, <2>2, <2>3
<1>3. labels' = labels
  BY <1>2 DEF vars, Next, Expression, Leaving, Defer, Jump, If, While, For, Switch, BareBlock,
         BeginShort, EndShort, BoundsCheck, BeginArray, EndArray, NoReturnCall, Return, Break,
         Continue, LoopExitOutsideLoop, SkipConstruct, BeginIf, EndThen,
         EndElse, BeginWhile, EnterWhile, EndWhile, BeginFor, EndFor, BeginSwitch, BeginCase,
         EndCase, BeginDefault, EndSwitch, BeginBlock, EndBlock, EndFn, StmtFrame
<1>4. LabelBlocks = {}
  BY <1>3 DEF LabelBlocks
<1> QED
  BY <1>2, <1>4 DEF Jump

LEMMA NoLabelsInit == Init => NoLabels
<1>1. Init => ScopeInv
  <2>1. Init => IInv /\ items = <<>>
    BY InitInv DEF Init
  <2> QED
    BY <2>1, ScopesNone DEF IInv
<1> QED
  BY <1>1, FlowInit, ReachInit DEF NoLabels

LEMMA NoLabelsKept ==
  ASSUME IInv, NoLabels, [Next]_vars
  PROVE  NoLabels'
<1>1. IInv' /\ Kept
  BY NextKeeps
<1> SUFFICES ASSUME LabelBlocks' = {}
             PROVE  (phase' = "body" => ScopeInv') /\ FlowInv' /\ MetInv' /\ ReachInv'
  BY DEF NoLabels
<1>2. LabelBlocks = {} /\ (Next /\ Jump => \E l \in Label : SkipConstruct(l))
  BY LabelsKept
<1>3. (phase = "body" => ScopeInv) /\ FlowInv /\ MetInv /\ ReachInv
  BY <1>2 DEF NoLabels
<1>4. CASE UNCHANGED vars
  <2>1. /\ blocks' = blocks /\ cur' = cur /\ open' = open /\ phase' = phase
        /\ items' = items /\ count' = count /\ labels' = labels /\ depthOf' = depthOf
    BY <1>4 DEF vars
  <2>2. Live' = Live /\ Tables' = Tables /\ Top' = Top
    BY <2>1 DEF Live, Tables, Top
  <2>3. phase' = "body" => ScopeInv'
    BY <1>3, <2>1, <2>2 DEF ScopeInv
  <2>4. FlowInv'
    <3>1. PICK E \in Tables : Settled(blocks, E) /\ (phase = "body" => Waits(E))
      BY <1>3 DEF FlowInv
    <3>2. Settled(blocks', E)
      BY <2>1, <3>1
    <3>3. phase' = "body" => Waits(E)'
      BY <2>1, <2>2, <3>1 DEF Waits, Promised
    <3> QED
      BY <2>2, <3>1, <3>2, <3>3 DEF FlowInv
  <2>5. MetInv' /\ ReachInv'
    BY <1>3, <2>1, <2>2 DEF MetInv, ReachInv
  <2> QED
    BY <2>3, <2>4, <2>5
<1>5. CASE Next
  <2>1. phase = "body" /\ ScopeInv /\ IInv /\ IInv' /\ Kept /\ MetInv /\ ReachInv
    BY <1>1, <1>3, <1>5, BodyNext
  <2>2. PICK E \in Tables : Lists(E)
    BY <1>3, <2>1 DEF FlowInv, Lists
  <2>3. CASE Jump
    <3>1. PICK l \in Label : SkipConstruct(l)
      BY <1>2, <1>5, <2>3
    <3>2. FlowInv'
      BY <2>1, <2>2, <3>1, FlowFixedSteps
    <3>3. /\ blocks' = blocks /\ cur' = cur /\ open' = Branched /\ phase' = phase
          /\ items' = items /\ count' = count /\ depthOf' = depthOf
      BY <3>1 DEF SkipConstruct
    <3>4. Live' = Live /\ open' \in {open, Branched}
      BY <3>3 DEF Live
    <3>5. phase' = "body" => ScopeInv'
      BY <2>1, <3>3, <3>4, ScopesKeep
    <3>6. MetInv'
      <4>1. Owed
        <5>1. DOMAIN open' = DOMAIN open /\ \A i \in DOMAIN open : Like(open'[i], open[i])
          BY <2>1, <3>4, BranchedFacts DEF IInv
        <5> QED
          BY <5>1 DEF Owed
      <4> QED
        BY <2>1, <4>1, MetKept
    <3>7. ReachInv'
      BY <1>3, <3>3, <3>4 DEF ReachInv
    <3> QED
      BY <3>2, <3>5, <3>6, <3>7
  <2>4. CASE ~Jump
    <3>1. FlowInv' /\ EdgesOfStep
      BY <1>5, <2>1, <2>2, <2>4, FlowNext
    <3>2. Owed /\ Came /\ Backs
      BY <1>5, <2>1, <2>4, ReachNext
    <3>3. MetInv' /\ ReachInv'
      BY <2>1, <3>1, <3>2, MetKept, ReachKept
    <3>4. phase' = "body" => ScopeInv'
      <4>1. EndFn => phase' = "done"
        BY DEF EndFn
      <4>2. ~EndFn => ScopeInv'
        BY <1>5, <2>1, <2>4, ScopesNext
      <4> QED
        BY <4>1, <4>2
    <3> QED
      BY <3>1, <3>3, <3>4
  <2> QED
    BY <2>3, <2>4
<1> QED
  BY <1>4, <1>5

\* Control reaches every block with predecessors, so none of them is dead.
LEMMA NoDeadLoop ==
  ASSUME IInv, NoLabels, LabelBlocks = {}
  PROVE  ~DeadLoop(blocks)
<1> SUFFICES ASSUME DeadLoop(blocks) PROVE FALSE
  OBVIOUS
<1>1. /\ Consistent(blocks) /\ DOMAIN blocks = Ids(blocks) /\ ReachInv
  BY GraphFacts DEF IInv, TypeOK, NoLabels
<1>2. PICK S \in SUBSET {b \in DOMAIN blocks : blocks[b].sealed /\ b # 1} :
        S # {} /\ \A b \in S : blocks[b].preds # <<>> /\ Preds(blocks, b) \subseteq S
  BY DEF DeadLoop
<1> DEFINE C == Ids(blocks) \ S
<1>3. Closed(blocks, C)
  <2>1. C \in SUBSET Ids(blocks)
    OBVIOUS
  <2>2. 1 \in C
    <3>1. cur \in Ids(blocks) /\ Len(blocks) \in Nat
      BY <1>1, GraphFacts DEF IInv, TypeOK
    <3>2. 1 \in Ids(blocks)
      BY <3>1 DEF Ids
    <3> QED
      BY <3>2, <1>2
  <2>3. ASSUME NEW b \in C, NEW t \in Targets(blocks, b) PROVE t \in C
    <3>1. t \in Ids(blocks) /\ b \in Preds(blocks, t)
      BY <1>1 DEF Consistent
    <3>2. t \notin S
      BY <3>1, <1>2
    <3> QED
      BY <3>1, <3>2
  <2> QED
    BY <2>1, <2>2, <2>3 DEF Closed
<1>4. PICK b \in S : blocks[b].preds # <<>> /\ b \in Ids(blocks)
  BY <1>1, <1>2
<1>5. b \in C
  BY <1>1, <1>3, <1>4 DEF ReachInv, Met
<1> QED
  BY <1>4, <1>5

-----------------------------------------------------------------------------
(* One step of the lowering, call by call, on the values of the function. *)

\* The graph g with the blocks of S not sealed yet.
Partly(g, S) == [c \in DOMAIN g |-> IF c \in S THEN [g[c] EXCEPT !.sealed = FALSE] ELSE g[c]]

LEMMA BeforeIs ==
  ASSUME NEW S
  PROVE  Before(S) = Partly(blocks', S)
  BY DEF Before, Partly

\* A graph of the lowering: nothing branches to its entry.
Rooted(g) == Consistent(g) /\ 1 \in DOMAIN g /\ g[1].preds = <<>>

LEMMA RootedFacts ==
  ASSUME NEW g, Rooted(g)
  PROVE  /\ Graph(g) /\ Len(g) \in Nat /\ DOMAIN g = Ids(g) /\ DOMAIN g = 1..Len(g)
         /\ Partly(g, {}) = g
<1>1. /\ Len(g) \in Nat /\ DOMAIN g = Ids(g) /\ g \in [Ids(g) -> Block] /\ g \in Seq(Block)
      /\ Consistent(g) /\ 1 \in DOMAIN g /\ g[1].preds = <<>>
  BY GraphFacts DEF Rooted
<1>2. ASSUME NEW b \in DOMAIN g PROVE g[b].preds \in Seq(DOMAIN g) /\ g[b].sealed \in BOOLEAN
  <2>1. g[b] \in Block
    BY <1>1
  <2>2. g[b].preds \in Seq(Nat) /\ g[b].sealed \in BOOLEAN
    BY <2>1 DEF Block
  <2>3. \A i \in 1..Len(g[b].preds) : g[b].preds[i] \in DOMAIN g
    <3>1. Preds(g, b) \subseteq DOMAIN g
      BY <1>1 DEF Consistent
    <3> QED
      BY <2>2, <3>1 DEF Preds
  <2> QED
    BY <2>2, <2>3
<1>3. Graph(g)
  BY <1>1, <1>2 DEF Graph, Ids
<1>4. Partly(g, {}) = g
  BY <1>1 DEF Partly
<1> QED
  BY <1>1, <1>3, <1>4 DEF Ids

LEMMA PartlyIs ==
  ASSUME NEW g, Rooted(g), NEW S
  PROVE  /\ Graph(Partly(g, S)) /\ Len(Partly(g, S)) = Len(g) /\ DOMAIN Partly(g, S) = DOMAIN g
         /\ \A c \in DOMAIN g : /\ Partly(g, S)[c].preds = g[c].preds
                                /\ Partly(g, S)[c].sealed = (g[c].sealed /\ c \notin S)
                                /\ Preds(Partly(g, S), c) = Preds(g, c)
<1>1. /\ Graph(g) /\ Len(g) \in Nat /\ DOMAIN g = Ids(g) /\ DOMAIN g = 1..Len(g)
      /\ g \in [Ids(g) -> Block]
  BY RootedFacts, GraphFacts DEF Rooted
<1> DEFINE h == Partly(g, S)
<1>2. ASSUME NEW c \in DOMAIN g
      PROVE  /\ h[c] \in Block /\ h[c].preds = g[c].preds
             /\ h[c].sealed = (g[c].sealed /\ c \notin S)
  <2>1. g[c] \in Block
    BY <1>1
  <2>2. g[c].sealed \in BOOLEAN
    BY <2>1 DEF Block
  <2>3. [g[c] EXCEPT !.sealed = FALSE] \in Block
    BY <2>1 DEF Block
  <2>4. /\ [g[c] EXCEPT !.sealed = FALSE].preds = g[c].preds
        /\ [g[c] EXCEPT !.sealed = FALSE].sealed = FALSE
    BY <2>1 DEF Block
  <2>5. h[c] = IF c \in S THEN [g[c] EXCEPT !.sealed = FALSE] ELSE g[c]
    BY DEF Partly
  <2> HIDE DEF h
  <2>6. CASE c \in S
    BY <2>3, <2>4, <2>5, <2>6
  <2>7. CASE c \notin S
    BY <2>1, <2>2, <2>5, <2>7
  <2> QED
    BY <2>6, <2>7
<1>3. h \in [Ids(g) -> Block] /\ DOMAIN h = DOMAIN g
  <2>1. DOMAIN h = DOMAIN g /\ h = [c \in DOMAIN g |-> h[c]]
    BY DEF Partly
  <2> HIDE DEF h
  <2> QED
    BY <1>1, <1>2, <2>1
<1>4. Len(h) = Len(g)
  <2> HIDE DEF h
  <2> QED
    BY <1>1, <1>3, SameLength
<1> HIDE DEF h
<1>5. \A c \in DOMAIN g : Preds(h, c) = Preds(g, c)
  BY <1>2 DEF Preds
<1>6. Graph(h)
  <2>1. \A b \in DOMAIN h : h[b].preds \in Seq(DOMAIN h) /\ h[b].sealed \in BOOLEAN
    BY <1>1, <1>2, <1>3 DEF Graph
  <2> QED
    BY <1>1, <1>2, <1>3, <1>4, <2>1 DEF Graph
<1>7. /\ Graph(h) /\ Len(h) = Len(g) /\ DOMAIN h = DOMAIN g
      /\ \A c \in DOMAIN g : /\ h[c].preds = g[c].preds
                             /\ h[c].sealed = (g[c].sealed /\ c \notin S)
                             /\ Preds(h, c) = Preds(g, c)
  BY <1>2, <1>3, <1>4, <1>5, <1>6
<1> QED
  BY <1>7 DEF h

\* The values fit the graph, or a call has met a dead loop in it.
Alright(g, X, s) ==
  /\ s \in SSAOf(X)
  /\ s.lost => DeadLoop(g)
  /\ ~s.lost => \E w, r, of : Sound(g, X, w, {}, s, r, of)

\* More sealed blocks, no fewer dead loops.
LEMMA DeadLater ==
  ASSUME NEW g, Rooted(g), NEW S, NEW R, R \subseteq S, DeadLoop(Partly(g, S))
  PROVE  DeadLoop(Partly(g, R))
<1> DEFINE h == Partly(g, S)
           k == Partly(g, R)
<1>1. /\ DOMAIN h = DOMAIN g
      /\ \A c \in DOMAIN g : /\ h[c].preds = g[c].preds
                             /\ h[c].sealed = (g[c].sealed /\ c \notin S)
                             /\ Preds(h, c) = Preds(g, c)
  BY PartlyIs
<1>2. /\ DOMAIN k = DOMAIN g
      /\ \A c \in DOMAIN g : /\ k[c].preds = g[c].preds
                             /\ k[c].sealed = (g[c].sealed /\ c \notin R)
                             /\ Preds(k, c) = Preds(g, c)
  BY PartlyIs
<1>0. DeadLoop(h)
  OBVIOUS
<1> HIDE DEF h, k
<1>3. PICK D \in SUBSET {b \in DOMAIN h : h[b].sealed /\ b # 1} :
        D # {} /\ \A b \in D : h[b].preds # <<>> /\ Preds(h, b) \subseteq D
  BY <1>0 DEF DeadLoop
<1>4. D \in SUBSET {b \in DOMAIN k : k[b].sealed /\ b # 1}
  BY <1>1, <1>2, <1>3
<1>5. \A b \in D : k[b].preds # <<>> /\ Preds(k, b) \subseteq D
  BY <1>1, <1>2, <1>3
<1>6. DeadLoop(k)
  BY <1>3, <1>4, <1>5 DEF DeadLoop
<1> QED
  BY <1>6 DEF k

LEMMA ReadAlright ==
  ASSUME NEW g, Graph(g), NEW X, NEW s, Alright(g, X, s), NEW b \in DOMAIN g, NEW x \in X
  PROVE  Alright(g, X, ReadIn(g, s, b, x))
<1>1. CASE s.lost
  <2>1. ReadIn(g, s, b, x) = s
    BY <1>1 DEF ReadIn
  <2> QED
    BY <2>1
<1>2. CASE ~s.lost
  <2> DEFINE a == Read(g, s, b, x)
  <2>1. ReadIn(g, s, b, x) = a.s
    BY <1>2 DEF ReadIn
  <2>2. PICK w, r, of : Sound(g, X, w, {}, s, r, of)
    BY <1>2 DEF Alright
  <2>3. Answer(g, X, x, w, {}, s, r, of, b, a)
    BY <2>2, ReadSound
  <2> HIDE DEF a
  <2>4. a.s \in SSAOf(X) /\ (a.s.lost => DeadLoop(g))
    BY <2>3 DEF Answer
  <2>5. ~a.s.lost => \E q, o : Sound(g, X, w, {}, a.s, q, o)
    BY <2>3 DEF Answer, Follows
  <2>6. Alright(g, X, a.s)
    BY <2>4, <2>5 DEF Alright
  <2> QED
    BY <2>1, <2>6
<1> QED
  BY <1>1, <1>2

LEMMA SealAlright ==
  ASSUME NEW g, Rooted(g), NEW X, NEW S, NEW b \in S, S \subseteq {c \in DOMAIN g : g[c].sealed},
         NEW s, Alright(Partly(g, S), X, s)
  PROVE  Alright(Partly(g, S \ {b}), X, SealIn(Partly(g, S \ {b}), s, b))
<1> DEFINE h == Partly(g, S)
           k == Partly(g, S \ {b})
<1>1. /\ Graph(h) /\ Len(h) = Len(g) /\ DOMAIN h = DOMAIN g
      /\ \A c \in DOMAIN g : /\ h[c].preds = g[c].preds
                             /\ h[c].sealed = (g[c].sealed /\ c \notin S)
  BY PartlyIs
<1>2. /\ Graph(k) /\ Len(k) = Len(g) /\ DOMAIN k = DOMAIN g
      /\ \A c \in DOMAIN g : /\ k[c].preds = g[c].preds
                             /\ k[c].sealed = (g[c].sealed /\ c \notin S \ {b})
  BY PartlyIs
<1>3. DeadLoop(h) => DeadLoop(k)
  <2>1. S \ {b} \subseteq S
    OBVIOUS
  <2> QED
    BY <2>1, DeadLater
<1>4. Alright(h, X, s)
  OBVIOUS
<1> HIDE DEF h, k
<1>5. b \in DOMAIN g /\ g[b].sealed
  OBVIOUS
<1>6. CASE s.lost
  <2>1. SealIn(k, s, b) = s
    BY <1>6 DEF SealIn
  <2>2. Alright(k, X, s)
    BY <1>3, <1>4, <1>6 DEF Alright
  <2> QED
    BY <2>1, <2>2 DEF k
<1>7. CASE ~s.lost
  <2>1. PICK w, r, of : Sound(h, X, w, {}, s, r, of)
    BY <1>4, <1>7 DEF Alright
  <2>2. SealedAt(h, b, k)
    BY <1>1, <1>2, <1>5 DEF SealedAt
  <2>3. b \in DOMAIN h /\ ~h[b].sealed
    BY <1>1, <1>5
  <2> DEFINE e == CompletePhis(k, s, b)
  <2>4. Sealing(k, X, w, s, r, of, e)
    BY <1>1, <2>1, <2>2, <2>3, CompleteSound
  <2>5. SealIn(k, s, b) = e
    BY <1>7 DEF SealIn
  <2> HIDE DEF e
  <2>6. Alright(k, X, e)
    BY <2>4 DEF Sealing, Alright
  <2> QED
    BY <2>5, <2>6 DEF k
<1> QED
  BY <1>6, <1>7

LEMMA DefineAlright ==
  ASSUME NEW g, Graph(g), NEW X, NEW s, Alright(g, X, s), NEW b \in DOMAIN g, NEW x \in X,
         \A c \in DOMAIN g : b \in Preds(g, c) => ~g[c].sealed
  PROVE  Alright(g, X, Define(s, b, x))
<1>1. CASE s.lost
  <2>1. Define(s, b, x) = s
    BY <1>1 DEF Define
  <2> QED
    BY <2>1
<1>2. CASE ~s.lost
  <2> DEFINE n == Len(s.vals) + 1
             e == WriteVar(Emit(s, b, "def"), b, x, n)
  <2>1. Define(s, b, x) = e
    BY <1>2 DEF Define
  <2>2. PICK w, r, of : Sound(g, X, w, {}, s, r, of)
    BY <1>2 DEF Alright
  <2>3. Sound(g, X, WrittenAt(w, b, x, n), {}, e, r, [of EXCEPT ![n] = x])
    BY <2>2, WriteSound
  <2> HIDE DEF e, n
  <2>4. e \in SSAOf(X) /\ e.lost = FALSE
    BY <2>3 DEF Sound, Typed
  <2>5. Alright(g, X, e)
    BY <2>3, <2>4 DEF Alright
  <2> QED
    BY <2>1, <2>5
<1> QED
  BY <1>1, <1>2

\* Completed, for any graph.
OneSealed(g, bs, b, s) == IF b \in bs THEN SealIn(Partly(g, {c \in bs : c > b}), s, b) ELSE s
CompletedIn(g, s, bs) ==
  LET after[b \in 0..Len(g)] == IF b = 0 THEN s ELSE OneSealed(g, bs, b, after[b - 1])
  IN  after[Len(g)]

LEMMA CompletedSteps ==
  ASSUME NEW g, Len(g) \in Nat, NEW s, NEW bs
  PROVE  \E f : /\ f[0] = s
                /\ \A i \in 1..Len(g) : f[i] = OneSealed(g, bs, i, f[i - 1])
                /\ CompletedIn(g, s, bs) = f[Len(g)]
<1> DEFINE N == Len(g)
           body(f, k) == [i \in 0..k |-> IF i = 0 THEN s ELSE OneSealed(g, bs, i, f[i - 1])]
           Bad == {k \in Nat : ~ \E f : f = body(f, k)}
<1>1. Bad = {}
  <2>1. SUFFICES ASSUME Bad # {} PROVE FALSE
    OBVIOUS
  <2>2. PICK k \in Bad : \A j \in Bad : k <= j
    BY <2>1, LeastOf
  <2>3. k \in Nat /\ ~ \E f : f = body(f, k)
    BY <2>2
  <2>4. ASSUME NEW j \in Nat, j < k PROVE \E f : f = body(f, j)
    <3>1. j \notin Bad
      <4> HIDE DEF Bad
      <4> QED
        BY <2>2, <2>3, <2>4
    <3> QED
      BY <3>1
  <2> HIDE DEF Bad
  <2>5. CASE k = 0
    <3> DEFINE h == [i \in 0..k |-> s]
    <3>1. \A i \in 0..k : i = 0
      BY <2>3, <2>5
    <3>2. h = body(h, k)
      BY <3>1
    <3> QED
      BY <2>3, <3>2
  <2>6. CASE k # 0
    <3>1. k - 1 \in Nat /\ k - 1 < k
      BY <2>3, <2>6
    <3>2. PICK f : f = body(f, k - 1)
      BY <2>4, <3>1
    <3> DEFINE h == [i \in 0..k |-> IF i = k THEN OneSealed(g, bs, k, f[k - 1]) ELSE f[i]]
               val(i) == IF i = 0 THEN s ELSE OneSealed(g, bs, i, h[i - 1])
    <3>3. ASSUME NEW i \in 0..k PROVE h[i] = val(i)
      <4>1. CASE i = k
        <5>1. i # 0 /\ i - 1 \in 0..k /\ i - 1 # k
          BY <4>1, <2>6, <3>1
        <5>2. h[i] = OneSealed(g, bs, k, f[k - 1]) /\ h[i - 1] = f[k - 1]
          BY <4>1, <5>1
        <5> HIDE DEF h
        <5> QED
          BY <5>1, <5>2, <4>1
      <4>2. CASE i # k
        <5>1. i \in 0..(k - 1) /\ (i # 0 => i - 1 \in 0..k /\ i - 1 # k)
          BY <4>2, <3>1, <2>3
        <5>2. f[i] = IF i = 0 THEN s ELSE OneSealed(g, bs, i, f[i - 1])
          BY <3>2, <5>1
        <5>3. h[i] = f[i] /\ (i # 0 => h[i - 1] = f[i - 1])
          BY <4>2, <5>1
        <5> HIDE DEF h
        <5> QED
          BY <5>1, <5>2, <5>3
      <4> QED
        BY <4>1, <4>2
    <3>4. h = [i \in 0..k |-> h[i]]
      OBVIOUS
    <3> HIDE DEF h
    <3>5. h = body(h, k)
      BY <3>3, <3>4
    <3> QED
      BY <2>3, <3>5
  <2> QED
    BY <2>5, <2>6
<1> DEFINE c == CHOOSE f : f = body(f, N)
<1>2. N \in Nat
  OBVIOUS
<1>3. \E f : f = body(f, N)
  BY <1>1, <1>2
<1>4. c = body(c, N)
  BY <1>3
<1>5. c[0] = s /\ \A i \in 1..N : c[i] = OneSealed(g, bs, i, c[i - 1])
  <2> HIDE DEF c
  <2>1. \A i \in 0..N : c[i] = IF i = 0 THEN s ELSE OneSealed(g, bs, i, c[i - 1])
    BY <1>4
  <2> QED
    BY <2>1, <1>2
<1>6. CompletedIn(g, s, bs) = c[Len(g)]
  BY DEF CompletedIn
<1> QED
  BY <1>5, <1>6

LEMMA CompletedIs ==
  ASSUME NEW s, NEW bs
  PROVE  Completed(s, bs) = CompletedIn(blocks', s, bs)
  BY BeforeIs DEF Completed, CompletedIn, OneSealed

\* The blocks a step seals, one after the other in their order.
LEMMA CompletedAlright ==
  ASSUME NEW g, Rooted(g), NEW X, NEW S, S \subseteq {c \in DOMAIN g : g[c].sealed},
         NEW s, Alright(Partly(g, S), X, s)
  PROVE  Alright(g, X, CompletedIn(g, s, S))
<1> DEFINE N == Len(g)
           L(i) == {c \in S : c > i}
<1>1. N \in Nat /\ DOMAIN g = 1..N /\ Partly(g, {}) = g
  BY RootedFacts
<1>2. PICK f : /\ f[0] = s
               /\ \A i \in 1..N : f[i] = OneSealed(g, S, i, f[i - 1])
               /\ CompletedIn(g, s, S) = f[N]
  <2>1. Len(g) \in Nat
    BY <1>1
  <2>2. \E f : /\ f[0] = s
               /\ \A i \in 1..Len(g) : f[i] = OneSealed(g, S, i, f[i - 1])
               /\ CompletedIn(g, s, S) = f[Len(g)]
    BY ONLY <2>1, CompletedSteps
  <2> QED
    BY ONLY <2>2 DEF N
<1>3. L(0) = S /\ L(N) = {}
  BY <1>1
<1>4. ASSUME NEW i \in 1..N, Alright(Partly(g, L(i - 1)), X, f[i - 1])
      PROVE  Alright(Partly(g, L(i)), X, f[i])
  <2>1. i \in Nat /\ i - 1 \in Nat
    BY <1>1
  <2>2. CASE i \in S
    <3> DEFINE M == L(i - 1)
    <3>1. M \subseteq {c \in DOMAIN g : g[c].sealed} /\ i \in M /\ L(i) = M \ {i}
      <4>1. \A c \in S : c \in Nat /\ (c > i <=> c > i - 1 /\ c # i)
        BY <1>1, <2>1
      <4>2. L(i) = M \ {i}
        BY <4>1
      <4>3. i > i - 1
        BY <2>1
      <4> QED
        BY <4>2, <4>3, <2>2
    <3>2. f[i] = SealIn(Partly(g, L(i)), f[i - 1], i)
      BY <1>2, <2>2 DEF OneSealed
    <3>3. Alright(Partly(g, M), X, f[i - 1])
      BY <1>4
    <3> HIDE DEF M, L
    <3>4. Alright(Partly(g, M \ {i}), X, SealIn(Partly(g, M \ {i}), f[i - 1], i))
      BY <3>1, <3>3, SealAlright
    <3> QED
      BY <3>1, <3>2, <3>4
  <2>3. CASE i \notin S
    <3>1. f[i] = f[i - 1]
      BY <1>2, <2>3 DEF OneSealed
    <3>2. L(i) = L(i - 1)
      BY <1>1, <2>1, <2>3
    <3> HIDE DEF L
    <3> QED
      BY <1>4, <3>1, <3>2
  <2> QED
    BY <2>2, <2>3
<1>5. Alright(Partly(g, L(0)), X, f[0])
  BY <1>2, <1>3
<1> HIDE DEF N, L
<1> DEFINE Bad == {i \in 0..N : ~Alright(Partly(g, L(i)), X, f[i])}
<1>6. Bad = {}
  <2>1. SUFFICES ASSUME Bad # {} PROVE FALSE
    OBVIOUS
  <2>2. Bad \subseteq Nat
    BY <1>1
  <2>3. PICK k \in Bad : \A j \in Bad : k <= j
    <3> HIDE DEF Bad
    <3> QED
      BY <2>1, <2>2, LeastOf
  <2>4. k \in 0..N /\ ~Alright(Partly(g, L(k)), X, f[k])
    OBVIOUS
  <2>5. k # 0
    BY <2>4, <1>5
  <2>6. k \in 1..N /\ k - 1 \in 0..N /\ ~ (k <= k - 1)
    BY <2>4, <2>5, <1>1
  <2>7. k - 1 \notin Bad
    <3> HIDE DEF Bad
    <3> QED
      BY <2>3, <2>6
  <2>8. Alright(Partly(g, L(k - 1)), X, f[k - 1])
    BY <2>6, <2>7
  <2> QED
    BY <2>4, <2>6, <2>8, <1>4
<1>7. Alright(Partly(g, L(N)), X, f[N])
  <2>1. N \in 0..N
    BY <1>1
  <2> QED
    BY <2>1, <1>6
<1> QED
  BY <1>1, <1>2, <1>3, <1>7 DEF N

\* What one step of the lowering does to the graph it has.
OneStep == IInv /\ IInv' /\ Kept /\ Rooted(blocks) /\ Rooted(blocks')
NewOnes == Len(blocks') - Len(blocks)

LEMMA OneStepFacts ==
  ASSUME OneStep
  PROVE  /\ Len(blocks) \in Nat /\ Len(blocks') \in Nat /\ NewOnes \in Nat
         /\ DOMAIN blocks = 1..Len(blocks) /\ DOMAIN blocks' = 1..Len(blocks')
         /\ DOMAIN blocks = Ids(blocks) /\ DOMAIN blocks' = Ids(blocks')
         /\ DOMAIN blocks \subseteq DOMAIN blocks'
<1>1. /\ Len(blocks) \in Nat /\ Len(blocks') \in Nat
      /\ DOMAIN blocks = 1..Len(blocks) /\ DOMAIN blocks' = 1..Len(blocks')
      /\ DOMAIN blocks = Ids(blocks) /\ DOMAIN blocks' = Ids(blocks')
  BY RootedFacts DEF OneStep
<1>2. DOMAIN blocks \subseteq DOMAIN blocks'
  BY DEF OneStep, Kept
<1>3. Len(blocks) <= Len(blocks')
  <2>1. CASE Len(blocks) = 0
    BY <1>1, <2>1
  <2>2. CASE Len(blocks) # 0
    <3>1. Len(blocks) \in DOMAIN blocks
      BY <1>1, <2>2
    <3>2. Len(blocks) \in 1..Len(blocks')
      BY <1>1, <1>2, <3>1
    <3> QED
      BY <1>1, <3>2
  <2> QED
    BY <2>1, <2>2
<1>4. NewOnes \in Nat
  BY <1>1, <1>3 DEF NewOnes
<1> QED
  BY <1>1, <1>2, <1>4

\* An edge is for good.
LEMMA PredsStay ==
  ASSUME OneStep, NEW b \in DOMAIN blocks
  PROVE  Preds(blocks, b) \subseteq Preds(blocks', b)
<1>1. /\ Consistent(blocks) /\ Consistent(blocks') /\ b \in Ids(blocks) /\ b \in Ids(blocks')
      /\ Ids(blocks) \subseteq Ids(blocks')
  BY OneStepFacts DEF OneStep, Rooted
<1> SUFFICES ASSUME NEW a \in Preds(blocks, b) PROVE a \in Preds(blocks', b)
  OBVIOUS
<1>2. a \in Ids(blocks) /\ b \in Targets(blocks, a)
  BY <1>1 DEF Consistent
<1>3. ~IsOpen(blocks, a)
  <2>1. ASSUME IsOpen(blocks, a) PROVE FALSE
    <3>1. blocks[a].term.to = <<>>
      BY <1>1, <1>2, <2>1 DEF Consistent
    <3> QED
      BY <1>2, <3>1 DEF Targets
  <2> QED
    BY <2>1
<1>4. blocks'[a].term = blocks[a].term
  BY <1>2, <1>3, OneStepFacts DEF OneStep, Kept
<1>5. b \in Targets(blocks', a)
  BY <1>2, <1>4 DEF Targets
<1> QED
  BY <1>1, <1>2, <1>5 DEF Consistent

\* The blocks a step adds have no values; the edges it adds lead to blocks
\* that were not sealed.
LEMMA AddedAlright ==
  ASSUME OneStep, NEW X, NEW s, ~s.lost, Alright(blocks, X, s)
  PROVE  Alright(Partly(blocks', SealedNow), X, WithDefs(s, X, NewOnes))
<1> DEFINE n == NewOnes
           k == WithBlocks(blocks, n)
           h == Partly(blocks', SealedNow)
           e == WithDefs(s, X, n)
<1>1. PICK w, r, of : Sound(blocks, X, w, {}, s, r, of)
  BY DEF Alright
<1>2. /\ n \in Nat /\ Len(blocks) \in Nat /\ Len(blocks') = Len(blocks) + n
      /\ DOMAIN blocks = 1..Len(blocks) /\ DOMAIN blocks' = 1..Len(blocks')
      /\ DOMAIN blocks = Ids(blocks) /\ DOMAIN blocks \subseteq DOMAIN blocks'
  BY OneStepFacts DEF NewOnes
<1>3. /\ Rooted(blocks) /\ Rooted(blocks') /\ Kept /\ TypeOK /\ Graph(blocks)
  BY RootedFacts DEF OneStep, IInv
<1> HIDE DEF n
<1>4. /\ Consistent(k) /\ Ids(k) = 1..(Len(blocks) + n) /\ Len(k) = Len(blocks) + n
      /\ \A b \in Ids(blocks) : k[b] = blocks[b]
      /\ \A b \in (Len(blocks) + 1)..(Len(blocks) + n) : k[b] = FreshBlock
  <2>1. Consistent(blocks)
    BY <1>3 DEF Rooted
  <2>2. Edits(blocks, k, {}, {})
    BY <1>2, <2>1, GrowEdits
  <2>3. Consistent(k)
    BY <2>2, EditsBounds
  <2>4. /\ Len(k) = Len(blocks) + n
        /\ \A b \in Ids(blocks) : k[b] = blocks[b]
        /\ \A b \in (Len(blocks) + 1)..(Len(blocks) + n) : k[b] = FreshBlock
    BY <1>2, <2>1, GrowEdits
  <2> QED
    BY <2>3, <2>4 DEF Ids
<1> HIDE DEF k
<1>5. Rooted(k) /\ Graph(k) /\ DOMAIN k = 1..(Len(blocks) + n)
  <2>1. 1 \in DOMAIN blocks /\ blocks[1].preds = <<>>
    BY <1>3 DEF Rooted
  <2>2. DOMAIN k = Ids(k)
    BY <1>4, GraphFacts
  <2>3. 1 \in DOMAIN k /\ k[1].preds = <<>>
    BY <1>2, <1>4, <2>1, <2>2
  <2>4. Rooted(k)
    BY <1>4, <2>3 DEF Rooted
  <2> QED
    BY <1>4, <2>2, <2>4, RootedFacts
<1>6. \A c \in DOMAIN k : c \notin DOMAIN blocks =>
         k[c].preds = <<>> /\ ~k[c].sealed /\ Preds(k, c) = {}
  <2> SUFFICES ASSUME NEW c \in DOMAIN k, c \notin DOMAIN blocks
               PROVE  k[c].preds = <<>> /\ ~k[c].sealed /\ Preds(k, c) = {}
    OBVIOUS
  <2>1. c \in (Len(blocks) + 1)..(Len(blocks) + n)
    BY <1>2, <1>5
  <2>2. k[c] = FreshBlock
    BY <1>4, <2>1
  <2> QED
    BY <2>2 DEF FreshBlock, Preds
<1>7. BlocksAdded(blocks, n, k)
  BY <1>2, <1>4, <1>5, <1>6 DEF BlocksAdded
<1>8. Sound(k, X, MoreWrites(X, w, k), {}, e, r, of)
  BY <1>1, <1>2, <1>3, <1>7, BlocksSound
<1> HIDE DEF e
<1>9. /\ Graph(h) /\ Len(h) = Len(blocks') /\ DOMAIN h = DOMAIN blocks'
      /\ \A c \in DOMAIN blocks' : /\ h[c].preds = blocks'[c].preds
                                   /\ h[c].sealed = (blocks'[c].sealed /\ c \notin SealedNow)
                                   /\ Preds(h, c) = Preds(blocks', c)
  BY <1>3, PartlyIs
<1> HIDE DEF h
<1>10. ASSUME NEW c \in DOMAIN k
       PROVE  /\ h[c].sealed = k[c].sealed
              /\ k[c].sealed => h[c].preds = k[c].preds
              /\ Preds(k, c) \subseteq Preds(h, c)
  <2>1. c \in DOMAIN blocks'
    BY <1>2, <1>5
  <2>0. h[c].sealed \in BOOLEAN /\ k[c].sealed \in BOOLEAN
    BY <1>5, <1>9, <2>1 DEF Graph
  <2>2. CASE c \in DOMAIN blocks
    <3>1. k[c] = blocks[c]
      BY <1>2, <1>4, <2>2
    <3>2. blocks[c].sealed => blocks'[c].sealed /\ blocks'[c].preds = blocks[c].preds
      BY <1>3, <2>2 DEF Kept
    <3>3. Preds(blocks, c) \subseteq Preds(blocks', c)
      BY <2>2, PredsStay
    <3>4. Preds(k, c) = Preds(blocks, c)
      BY <3>1 DEF Preds
    <3>5. h[c].sealed <=> k[c].sealed
      BY <1>9, <2>1, <2>2, <3>1, <3>2 DEF SealedNow
    <3> QED
      BY <1>9, <2>0, <2>1, <3>1, <3>2, <3>3, <3>4, <3>5
  <2>3. CASE c \notin DOMAIN blocks
    <3>1. ~h[c].sealed
      BY <1>9, <2>1, <2>3 DEF SealedNow
    <3> QED
      BY <1>6, <2>0, <2>3, <3>1
  <2> QED
    BY <2>2, <2>3
<1>11. Sound(h, X, MoreWrites(X, w, k), {}, e, r, of)
  <2>1. Len(h) = Len(k)
    BY <1>2, <1>4, <1>9
  <2> QED
    BY <1>5, <1>8, <1>9, <1>10, <2>1, EdgesSound
<1>12. Alright(h, X, e)
  <2>1. e \in SSAOf(X) /\ e.lost = FALSE
    BY <1>11 DEF Sound, Typed
  <2> QED
    BY <1>11, <2>1 DEF Alright
<1> QED
  BY <1>12 DEF h, e, n

\* No sealed block knows an open one as its predecessor, at the end of the
\* step or before the step seals what it seals.
LEMMA OpenPrecedesNone ==
  ASSUME OneStep, NEW b \in DOMAIN blocks, IsOpen(blocks, b)
  PROVE  \A c \in DOMAIN Partly(blocks', SealedNow) :
           b \in Preds(Partly(blocks', SealedNow), c) => ~Partly(blocks', SealedNow)[c].sealed
<1> DEFINE h == Partly(blocks', SealedNow)
<1>1. /\ DOMAIN h = DOMAIN blocks'
      /\ \A c \in DOMAIN blocks' : /\ h[c].sealed = (blocks'[c].sealed /\ c \notin SealedNow)
                                   /\ Preds(h, c) = Preds(blocks', c)
  BY PartlyIs DEF OneStep
<1>2. Consistent(blocks) /\ DOMAIN blocks = Ids(blocks)
  BY OneStepFacts DEF OneStep, Rooted
<1> HIDE DEF h
<1> SUFFICES ASSUME NEW c \in DOMAIN h, b \in Preds(h, c), h[c].sealed PROVE FALSE
  BY DEF h
<1>3. c \in DOMAIN blocks /\ blocks[c].sealed
  BY <1>1 DEF SealedNow
<1>4. blocks'[c].preds = blocks[c].preds
  BY <1>3 DEF OneStep, Kept
<1>5. b \in Preds(blocks, c)
  BY <1>1, <1>4 DEF Preds
<1>6. c \in Targets(blocks, b)
  BY <1>2, <1>3, <1>5 DEF Consistent
<1>7. blocks[b].term.to = <<>>
  BY <1>2 DEF Consistent
<1> QED
  BY <1>6, <1>7 DEF Targets

\* A function is lowered to no more blocks than its kind has room for.
Sized == profile \in Profiles /\ Len(blocks) <= profile.blocks

LEMMA GrownDomain ==
  ASSUME NEW g, NEW n \in Nat, NEW m \in Nat, DOMAIN g = 1..m
  PROVE  DOMAIN WithBlocks(g, n) = 1..(m + n)
  BY DEF WithBlocks

LEMMA DomainKept ==
  /\ \A g, a, b : DOMAIN Br(g, a, b) = DOMAIN g
  /\ \A g, a, b, c : DOMAIN CondBr(g, a, b, c) = DOMAIN g
  /\ \A g, a : DOMAIN Ret(g, a) = DOMAIN g
  /\ \A g, a : DOMAIN Unreachable(g, a) = DOMAIN g
  /\ \A g, a : DOMAIN Seal(g, a) = DOMAIN g
  /\ \A g, a : DOMAIN SealAll(g, a) = DOMAIN g
  /\ \A g, a : DOMAIN CloseUnreached(g, a) = DOMAIN g
  /\ \A g, a : DOMAIN RunDefers(g, a) = DOMAIN g
  /\ \A g, a : DOMAIN CloseBody(g, a) = DOMAIN g
  /\ \A g : DOMAIN Join(g) = DOMAIN g
  BY DEF Br, CondBr, Ret, Unreachable, Seal, SealAll, CloseUnreached, RunDefers, CloseBody, Join

LEMMA StartDomain ==
  ASSUME NEW g, NEW b, NEW n, StartBlock(g, b, n)
  PROVE  DOMAIN blocks' = DOMAIN g
  BY DEF StartBlock

LEMMA DeadDomain ==
  ASSUME NEW g, NEW n, NEW m \in Nat, DOMAIN g = 1..m, StartDeadBlock(g, n)
  PROVE  DOMAIN blocks' = 1..(m + 1)
<1> DEFINE h == WithBlocks(g, 1)
           d == Len(g) + 1
<1>1. DOMAIN h = 1..(m + 1)
  BY GrownDomain
<1> HIDE DEF h, d
<1>2. DOMAIN Unreachable(Seal(h, d), d) = DOMAIN h
  BY DomainKept
<1>3. StartBlock(Unreachable(Seal(h, d), d), d, n)
  BY DEF StartDeadBlock, h, d
<1>4. DOMAIN blocks' = DOMAIN Unreachable(Seal(h, d), d)
  BY <1>3, StartDomain
<1> QED
  BY <1>1, <1>2, <1>4

\* What a step makes of the blocks, if it fits.
Spare(m) == m \in Nat /\ m <= profile.blocks

LEMMA FitsAll ==
  ASSUME IInv, Sized, [Next]_vars
  PROVE  \E m : Spare(m) /\ DOMAIN blocks' = 1..m
<1> DEFINE L == Len(blocks)
<1>1. /\ L \in Nat /\ DOMAIN blocks = 1..L /\ L <= profile.blocks /\ profile.blocks \in Nat
  <2>1. L \in Nat /\ DOMAIN blocks = 1..L
    BY GraphFacts DEF IInv, TypeOK, Ids
  <2>2. profile \in Profiles
    BY DEF Sized
  <2>3. profile.blocks \in Nat
    BY <2>2, LowerProfiles
  <2> QED
    BY <2>1, <2>3 DEF Sized
<1> HIDE DEF L
<1>2. Spare(L)
  BY <1>1 DEF Spare
<1>3. \A n \in Nat : Fits(n) => Spare(L + n) /\ DOMAIN WithBlocks(blocks, n) = 1..(L + n)
  <2> SUFFICES ASSUME NEW n \in Nat, Fits(n)
               PROVE  Spare(L + n) /\ DOMAIN WithBlocks(blocks, n) = 1..(L + n)
    OBVIOUS
  <2>1. DOMAIN WithBlocks(blocks, n) = 1..(L + n)
    BY <1>1, GrownDomain
  <2>2. Spare(L + n)
    BY <1>1 DEF Fits, Spare, L
  <2> QED
    BY <2>1, <2>2
<1>4. CASE blocks' = blocks
  BY <1>1, <1>2, <1>4
<1>5. ASSUME NEW g, DOMAIN g = 1..L, NEW b, NEW n, StartBlock(g, b, n)
      PROVE  Spare(L) /\ DOMAIN blocks' = 1..L
  BY <1>2, <1>5, StartDomain
<1>6. ASSUME NEW k \in Nat, Fits(k), NEW g, DOMAIN g = DOMAIN WithBlocks(blocks, k),
             NEW b, NEW n, StartBlock(g, b, n)
      PROVE  Spare(L + k) /\ DOMAIN blocks' = 1..(L + k)
  <2>1. DOMAIN blocks' = DOMAIN g
    BY <1>6, StartDomain
  <2> QED
    BY <1>3, <1>6, <2>1
<1>7. ASSUME Fits(1), NEW g, DOMAIN g = 1..L, NEW n, StartDeadBlock(g, n)
      PROVE  Spare(L + 1) /\ DOMAIN blocks' = 1..(L + 1)
  <2>1. DOMAIN blocks' = 1..(L + 1)
    BY <1>1, <1>7, DeadDomain
  <2> QED
    BY <1>3, <1>7, <2>1
<1>8. CASE BeginShort
  <2> DEFINE h == WithBlocks(blocks, 2)
             r == Len(blocks) + 1
             g == Seal(CondBr(h, cur, r, Len(blocks) + 2), r)
  <2>1. Fits(2) /\ StartBlock(g, r, count)
    BY <1>8 DEF BeginShort
  <2>2. DOMAIN g = DOMAIN h
    BY DomainKept
  <2> HIDE DEF g, r
  <2> QED
    BY <1>6, <2>1, <2>2
<1>9. CASE BoundsCheck
  <2> DEFINE h == WithBlocks(blocks, 2)
             f == Len(blocks) + 1
             k == Len(blocks) + 2
             u == CondBr(h, cur, f, k)
             g == Seal(Unreachable(Seal(u, f), f), k)
  <2>1. Fits(2) /\ StartBlock(g, k, count)
    BY <1>9 DEF BoundsCheck
  <2>2. DOMAIN g = DOMAIN h
    BY DomainKept
  <2> HIDE DEF g, k
  <2> QED
    BY <1>6, <2>1, <2>2
<1>10. ASSUME NEW h, NEW b, NEW d, NEW e PROVE DOMAIN WithLoopHead(h, b, d, e) = DOMAIN h
  <2> DEFINE p == Br(h, cur, b)
             q == [p EXCEPT ![b].lowered = TRUE, ![b].enter = Pending(count), ![b].pend = Pending(count)]
  <2>1. DOMAIN p = DOMAIN h
    BY DomainKept
  <2> HIDE DEF p
  <2>2. DOMAIN q = DOMAIN p
    OBVIOUS
  <2> HIDE DEF q
  <2>3. DOMAIN Seal(CondBr(q, b, d, e), d) = DOMAIN q
    BY DomainKept
  <2>4. WithLoopHead(h, b, d, e) = Seal(CondBr(q, b, d, e), d)
    BY DEF WithLoopHead, p, q
  <2> QED
    BY <2>1, <2>2, <2>3, <2>4
<1>11. CASE BeginArray
  <2> DEFINE h == WithBlocks(blocks, 3)
             b == Len(blocks) + 1
             d == Len(blocks) + 2
             g == WithLoopHead(h, b, d, Len(blocks) + 3)
  <2>1. Fits(3) /\ StartBlock(g, d, count)
    BY <1>11 DEF BeginArray
  <2>2. DOMAIN g = DOMAIN h
    BY <1>10
  <2> HIDE DEF g, d
  <2> QED
    BY <1>6, <2>1, <2>2
<1>12. CASE BeginFor
  <2> DEFINE h == WithBlocks(blocks, 4)
             b == Len(blocks) + 1
             d == Len(blocks) + 2
             g == WithLoopHead(h, b, d, Len(blocks) + 4)
  <2>1. Fits(4) /\ StartBlock(g, d, count)
    BY <1>12 DEF BeginFor, Opens
  <2>2. DOMAIN g = DOMAIN h
    BY <1>10
  <2> HIDE DEF g, d
  <2> QED
    BY <1>6, <2>1, <2>2
<1>13. CASE EndShort
  <2> DEFINE g == IF Live THEN Br(blocks, cur, Top.end) ELSE blocks
             k == CloseUnreached(Seal(g, Top.end), Top.end)
  <2>1. StartBlock(k, Top.end, count)
    BY <1>13 DEF EndShort
  <2>2. DOMAIN g = DOMAIN blocks
    BY DomainKept
  <2> HIDE DEF g
  <2>3. DOMAIN k = DOMAIN g
    BY DomainKept
  <2> HIDE DEF k
  <2> QED
    BY <1>1, <1>5, <2>1, <2>2, <2>3
<1>14. CASE EndArray
  <2> DEFINE k == SealAll(Br(blocks, cur, Top.begin), {Top.begin, Top.end})
  <2>1. StartBlock(k, Top.end, count)
    BY <1>14 DEF EndArray
  <2>2. DOMAIN k = DOMAIN blocks
    BY DomainKept
  <2> HIDE DEF k
  <2> QED
    BY <1>1, <1>5, <2>1, <2>2
<1>15. CASE Leaving
  <2>1. CASE NoReturnCall
    <3> DEFINE g == Unreachable(RunDefers(blocks, 0), cur)
    <3>1. Fits(1) /\ StartDeadBlock(g, 0)
      BY <2>1 DEF NoReturnCall
    <3>2. DOMAIN g = DOMAIN blocks
      BY DomainKept
    <3> HIDE DEF g
    <3> QED
      BY <1>1, <1>7, <3>1, <3>2
  <2>2. CASE Return
    <3> DEFINE g == Ret(RunDefers(blocks, 0), cur)
    <3>1. Fits(1) /\ StartDeadBlock(g, 0)
      BY <2>2 DEF Return
    <3>2. DOMAIN g = DOMAIN blocks
      BY DomainKept
    <3> HIDE DEF g
    <3> QED
      BY <1>1, <1>7, <3>1, <3>2
  <2>3. CASE Break \/ Continue
    <3>1. PICK to : Fits(1) /\ LeaveLoop(to)
      BY <2>3 DEF Break, Continue
    <3> DEFINE g == Br(RunDefers(blocks, Loop.mark), cur, to)
    <3>2. StartDeadBlock(g, Loop.mark)
      BY <3>1 DEF LeaveLoop
    <3>3. DOMAIN g = DOMAIN blocks
      BY DomainKept
    <3> HIDE DEF g
    <3> QED
      BY <1>1, <1>7, <3>1, <3>2, <3>3
  <2>4. LoopExitOutsideLoop => blocks' = blocks
    BY DEF LoopExitOutsideLoop
  <2> QED
    BY <1>4, <1>15, <2>1, <2>2, <2>3, <2>4 DEF Leaving
<1>16. CASE Defer
  <2>1. DOMAIN blocks' = DOMAIN blocks
    BY <1>16 DEF Defer
  <2> QED
    BY <1>1, <1>2, <2>1
<1>17. CASE Jump
  <2>1. PICK l \in Label : PlaceLabel(l) \/ Goto(l) \/ SkipConstruct(l)
    BY <1>17 DEF Jump
  <2> DEFINE g == WithLabelBlock(l)
  <2>2. PICK m \in Nat : DOMAIN g = 1..m /\ Len(g) = m
    <3>1. DOMAIN WithBlocks(blocks, 1) = 1..(L + 1)
      BY <1>1, GrownDomain
    <3>2. g = blocks \/ g = WithBlocks(blocks, 1)
      BY DEF WithLabelBlock
    <3> HIDE DEF g
    <3>3. \E m \in Nat : DOMAIN g = 1..m
      BY <1>1, <3>1, <3>2
    <3> QED
      BY <3>3
  <2>3. CASE PlaceLabel(l)
    <3> DEFINE k == IF Live THEN Br(g, cur, LabelBlock(l)) ELSE g
    <3>1. Len(g) <= profile.blocks /\ StartBlock(k, LabelBlock(l), count)
      BY <2>3 DEF PlaceLabel
    <3> HIDE DEF g
    <3>2. DOMAIN k = DOMAIN g
      BY DomainKept
    <3> HIDE DEF k
    <3>3. DOMAIN blocks' = 1..m
      BY <2>2, <3>1, <3>2, StartDomain
    <3> QED
      BY <2>2, <3>1, <3>3 DEF Spare
  <2>4. CASE Goto(l)
    <3> DEFINE k == Br(RunDefers(g, 0), cur, LabelBlock(l))
    <3>1. Len(g) < profile.blocks /\ StartDeadBlock(k, 0)
      BY <2>4 DEF Goto
    <3> HIDE DEF g
    <3>2. DOMAIN k = DOMAIN g
      BY DomainKept
    <3> HIDE DEF k
    <3>3. DOMAIN blocks' = 1..(m + 1)
      BY <2>2, <3>1, <3>2, DeadDomain
    <3>4. Spare(m + 1)
      BY <1>1, <2>2, <3>1 DEF Spare
    <3> QED
      BY <3>3, <3>4
  <2>5. SkipConstruct(l) => blocks' = blocks
    BY DEF SkipConstruct
  <2> QED
    BY <1>4, <2>1, <2>3, <2>4, <2>5
<1>18. CASE If
  <2>1. ASSUME NEW hasElse \in BOOLEAN, BeginIf(hasElse)
        PROVE  \E m : Spare(m) /\ DOMAIN blocks' = 1..m
    <3> DEFINE k == IF hasElse THEN 3 ELSE 2
               then == Len(blocks) + 1
               els == IF hasElse THEN Len(blocks) + 2 ELSE NoBlock
               join == Len(blocks) + k
               h == WithBlocks(blocks, join - Len(blocks))
               g == Seal(CondBr(h, cur, then, IF hasElse THEN els ELSE join), then)
    <3>1. Fits(k) /\ StartBlock(g, then, count)
      <4>1. join = Len(blocks) + (IF hasElse THEN 3 ELSE 2)
        OBVIOUS
      <4> QED
        BY <2>1 DEF BeginIf, Opens
    <3>2. k \in Nat /\ join - Len(blocks) = k
      BY <1>1 DEF L
    <3>3. DOMAIN g = DOMAIN h
      BY DomainKept
    <3> HIDE DEF g, k, then
    <3>4. DOMAIN h = DOMAIN WithBlocks(blocks, k)
      BY <3>2
    <3> HIDE DEF h
    <3> QED
      BY <1>6, <3>1, <3>2, <3>3, <3>4
  <2> DEFINE g == CloseBody(blocks, Top.end)
             j == Join(g)
             a == Seal(g, Top.alt)
  <2>2. DOMAIN j = DOMAIN blocks /\ DOMAIN a = DOMAIN blocks
    BY DomainKept
  <2>3. EndThen => StartBlock(j, Top.end, Top.mark) \/ StartBlock(a, Top.alt, Top.mark)
    BY DEF EndThen
  <2>4. EndElse => StartBlock(j, Top.end, Top.mark)
    BY DEF EndElse
  <2> HIDE DEF j, a
  <2>5. EndThen \/ EndElse => Spare(L) /\ DOMAIN blocks' = 1..L
    BY <1>1, <1>5, <2>2, <2>3, <2>4
  <2> QED
    BY <1>18, <2>1, <2>5 DEF If
<1>19. CASE While
  <2>1. CASE BeginWhile
    <3> DEFINE h == WithBlocks(blocks, 3)
               b == Len(blocks) + 1
               g == Br(h, cur, b)
    <3>1. Fits(3) /\ StartBlock(g, b, count)
      BY <2>1 DEF BeginWhile, Opens
    <3>2. DOMAIN g = DOMAIN h
      BY DomainKept
    <3> HIDE DEF g, b
    <3> QED
      BY <1>6, <3>1, <3>2
  <2> DEFINE e == Seal(CondBr(blocks, cur, Top.alt, Top.end), Top.alt)
             f == SealAll(CloseBody(blocks, Top.begin), {Top.begin, Top.end})
  <2>2. DOMAIN e = DOMAIN blocks /\ DOMAIN f = DOMAIN blocks
    BY DomainKept
  <2>3. EnterWhile => StartBlock(e, Top.alt, count)
    BY DEF EnterWhile
  <2>4. EndWhile => StartBlock(f, Top.end, Top.mark)
    BY DEF EndWhile
  <2> HIDE DEF e, f
  <2>5. EnterWhile \/ EndWhile => Spare(L) /\ DOMAIN blocks' = 1..L
    BY <1>1, <1>5, <2>2, <2>3, <2>4
  <2> QED
    BY <1>19, <2>1, <2>5 DEF While
<1>20. CASE EndFor
  <2> DEFINE c == Seal(CloseBody(blocks, Top.step), Top.step)
             t == TakenUp(c, Top.step, Pending(Top.mark))
             k == SealAll(Br(t, Top.step, Top.begin), {Top.begin, Top.end})
  <2>1. StartBlock(k, Top.end, Top.mark)
    BY <1>20 DEF EndFor, TakenUp
  <2>2. DOMAIN c = DOMAIN blocks
    BY DomainKept
  <2> HIDE DEF c
  <2>3. DOMAIN t = DOMAIN c
    BY DEF TakenUp
  <2> HIDE DEF t
  <2>4. DOMAIN k = DOMAIN t
    BY DomainKept
  <2> HIDE DEF k
  <2> QED
    BY <1>1, <1>5, <2>1, <2>2, <2>3, <2>4
<1>21. CASE Switch
  <2>1. CASE BeginSwitch
    <3>1. Fits(1) /\ blocks' = WithBlocks(blocks, 1)
      BY <2>1 DEF BeginSwitch, Opens
    <3> QED
      BY <1>3, <3>1
  <2>2. CASE BeginCase
    <3> DEFINE h == WithBlocks(blocks, 2)
               b == Len(blocks) + 1
               g == Seal(CondBr(h, cur, b, Len(blocks) + 2), b)
    <3>1. Fits(2) /\ StartBlock(g, b, count)
      BY <2>2 DEF BeginCase
    <3>2. DOMAIN g = DOMAIN h
      BY DomainKept
    <3> HIDE DEF g, b
    <3> QED
      BY <1>6, <3>1, <3>2
  <2>3. CASE EndCase
    <3> DEFINE g == Seal(CloseBody(blocks, Top.end), Top.alt)
    <3>1. StartBlock(g, Top.alt, Top.mark)
      BY <2>3 DEF EndCase
    <3>2. DOMAIN g = DOMAIN blocks
      BY DomainKept
    <3> HIDE DEF g
    <3> QED
      BY <1>1, <1>5, <3>1, <3>2
  <2>4. CASE EndSwitch
    <3> DEFINE g == CASE Top.kind = "default" -> CloseBody(blocks, Top.end)
                      [] Top.kind = "switch"  -> IF Live THEN Br(blocks, cur, Top.end) ELSE blocks
    <3>1. StartBlock(Join(g), Top.end, Top.mark) /\ Top.kind \in {"switch", "default"}
      BY <2>4 DEF EndSwitch
    <3>2. DOMAIN g = DOMAIN blocks
      <4>1. /\ DOMAIN CloseBody(blocks, Top.end) = DOMAIN blocks
            /\ DOMAIN Br(blocks, cur, Top.end) = DOMAIN blocks
        BY DomainKept
      <4>2. CASE Top.kind = "default"
        BY <4>1, <4>2
      <4>3. CASE Top.kind = "switch"
        BY <4>1, <4>3
      <4> QED
        BY <3>1, <4>2, <4>3
    <3> HIDE DEF g
    <3>3. DOMAIN Join(g) = DOMAIN g
      BY DomainKept
    <3> QED
      BY <1>1, <1>5, <3>1, <3>2, <3>3
  <2>5. BeginDefault => blocks' = blocks
    BY DEF BeginDefault
  <2> QED
    BY <1>4, <1>21, <2>1, <2>2, <2>3, <2>4, <2>5 DEF Switch
<1>22. CASE BareBlock \/ UNCHANGED vars
  <2>1. blocks' = blocks
    BY <1>22 DEF BareBlock, BeginBlock, EndBlock, vars
  <2> QED
    BY <1>4, <2>1
<1>23. CASE EndFn
  <2> DEFINE g == SealAll(blocks, LabelBlocks)
             k == Ret(RunDefers(g, 0), cur)
  <2>1. DOMAIN g = DOMAIN blocks /\ DOMAIN k = DOMAIN blocks
    BY DomainKept
  <2>2. blocks' = g \/ blocks' = k
    BY <1>23 DEF EndFn
  <2> HIDE DEF g, k
  <2> QED
    BY <1>1, <1>2, <2>1, <2>2
<1> QED
  BY <1>8, <1>9, <1>11, <1>12, <1>13, <1>14, <1>15, <1>16, <1>17, <1>18, <1>19, <1>20, <1>21,
     <1>22, <1>23 DEF Next, Expression, For

LEMMA SizedKept ==
  ASSUME IInv, Sized, [Next]_vars
  PROVE  Sized'
<1>1. PICK m : Spare(m) /\ DOMAIN blocks' = 1..m
  BY FitsAll
<1>2. m \in Nat /\ m <= profile.blocks
  BY <1>1 DEF Spare
<1>3. Len(blocks') = m
  BY <1>1, <1>2
<1>4. profile' = profile
  BY ProfileKept
<1> QED
  BY <1>2, <1>3, <1>4 DEF Sized

LEMMA WrittenAlright ==
  ASSUME OneStep, NEW X, ~ssa.lost, Alright(blocks, X, ssa), X = Hidden,
         NEW b \in DOMAIN blocks, IsOpen(blocks, b), NEW x \in X
  PROVE  Alright(Partly(blocks', SealedNow), X, Define(Added, b, x))
<1> DEFINE h == Partly(blocks', SealedNow)
           a == Added
<1>1. Alright(h, X, WithDefs(ssa, X, NewOnes))
  BY AddedAlright
<1>2. a = WithDefs(ssa, X, NewOnes)
  BY DEF Added, NewOnes
<1>3. Graph(h) /\ DOMAIN h = DOMAIN blocks'
  BY PartlyIs DEF OneStep
<1>4. \A c \in DOMAIN h : b \in Preds(h, c) => ~h[c].sealed
  BY OpenPrecedesNone
<1>5. b \in DOMAIN h
  BY <1>3, OneStepFacts
<1> HIDE DEF h, a
<1>6. Alright(h, X, a)
  BY <1>1, <1>2
<1>7. Alright(h, X, Define(a, b, x))
  BY <1>3, <1>4, <1>5, <1>6, DefineAlright
<1> QED
  BY <1>7 DEF h, a

LEMMA CompletedAll ==
  ASSUME OneStep, NEW X, NEW s, Alright(Partly(blocks', SealedNow), X, s)
  PROVE  Alright(blocks', X, Completed(s, SealedNow))
<1>1. SealedNow \subseteq {c \in DOMAIN blocks' : blocks'[c].sealed}
  BY DEF SealedNow
<1>2. Rooted(blocks')
  BY DEF OneStep
<1>3. Alright(blocks', X, CompletedIn(blocks', s, SealedNow))
  BY <1>1, <1>2, CompletedAlright
<1> QED
  BY <1>3, CompletedIs

\* The step of a for is sealed when it is lowered, before the head.
LEMMA ForSealsStep ==
  ASSUME IInv, EndFor
  PROVE  blocks'[Top.step].sealed
<1> DEFINE step == Top.step
           end == Top.end
           begin == Top.begin
           p == Pending(Top.mark)
           closed == CloseBody(blocks, step)
           g1 == Seal(closed, step)
           g2 == TakenUp(g1, step, p)
           g3 == Br(g2, step, begin)
           g4 == SealAll(g3, {begin, end})
           D == Ids(blocks)
<1>1. phase = "body" /\ Top.kind = "for" /\ StartBlock(g4, end, Top.mark)
  BY DEF EndFor, InBody, TakenUp
<1>2. /\ TypeOK /\ Consistent(blocks) /\ cur \in D /\ Top.mark \in 0 .. Len(items)
      /\ step \in D /\ end \in D /\ begin \in D /\ ~blocks[step].sealed
      /\ Top.mark \in Nat /\ step # begin /\ step # end
  BY <1>1, BodyFacts DEF Shape, Held
<1>3. p \in Seq(Nat)
  BY <1>2, PendingIsList
<1>4. closed \in [D -> Block]
  <2>1. Edits(blocks, closed, {cur}, {}) /\ Len(closed) = Len(blocks)
    BY <1>2, CloseBodyEdits
  <2> HIDE DEF closed
  <2>2. Consistent(closed) /\ Ids(closed) = D
    BY <2>1, EditsBounds DEF Ids
  <2> QED
    BY <2>2, GraphFacts
<1>0. DOMAIN closed = D
  BY <1>4
<1> HIDE DEF closed, p, D, step, end, begin
<1>5. g1[step].sealed = TRUE /\ DOMAIN g1 = D
  <2>1. closed[step] \in Block
    BY <1>2, <1>4
  <2>2. [closed[step] EXCEPT !.sealed = TRUE].sealed = TRUE
    BY <2>1 DEF Block
  <2>3. g1[step] = [closed[step] EXCEPT !.sealed = TRUE] /\ DOMAIN g1 = D
    BY <1>0, <1>2 DEF Seal
  <2> QED
    BY <2>2, <2>3
<1>6. g1 \in [D -> Block]
  BY <1>2, <1>4, SealUpdate
<1> HIDE DEF g1
<1>7. g2[step].sealed = TRUE /\ g2 \in [D -> Block]
  <2>1. g1[step] \in Block
    BY <1>2, <1>6
  <2>2. [[[g1[step] EXCEPT !.lowered = TRUE] EXCEPT !.enter = p] EXCEPT !.pend = p].sealed = g1[step].sealed
    BY <2>1 DEF Block
  <2>3. g2[step] = [[[g1[step] EXCEPT !.lowered = TRUE] EXCEPT !.enter = p] EXCEPT !.pend = p]
    BY <1>2, <1>5 DEF TakenUp
  <2>4. D \in IdSets
    BY <1>2, GraphFacts DEF IdSets, D
  <2>5. g2 \in [D -> Block]
    BY <1>2, <1>3, <1>6, <2>4, TakenTerm
  <2> QED
    BY <1>5, <2>2, <2>3, <2>5
<1> HIDE DEF g2
<1>8. g3[step].sealed = TRUE /\ DOMAIN g3 = D
  <2>1. g2[step] \in Block
    BY <1>2, <1>7
  <2> DEFINE t == [kind |-> "br", to |-> <<begin>>]
  <2>2. [g2[step] EXCEPT !.term = t].sealed = g2[step].sealed
    BY <2>1 DEF Block
  <2>3. g3[step] = [g2[step] EXCEPT !.term = t] /\ DOMAIN g3 = D
    <3>1. DOMAIN g2 = D
      BY <1>7
    <3> HIDE DEF t
    <3>2. g3 = [g2 EXCEPT ![step].term = t, ![begin].preds = Append(@, step)]
      BY DEF Br, t
    <3> QED
      BY <1>2, <3>1, <3>2
  <2> QED
    BY <1>7, <2>2, <2>3
<1> HIDE DEF g3
<1>9. g4[step] = g3[step] /\ DOMAIN g4 = D
  BY <1>2, <1>8 DEF SealAll
<1> HIDE DEF g4
<1>10. blocks'[step] = g4[step]
  BY <1>1, <1>2, <1>9 DEF StartBlock
<1> QED
  BY <1>8, <1>9, <1>10 DEF step

\* The step of a for: its phis, the read of the index, its new value, the head.
LEMMA StepAlright ==
  ASSUME OneStep, NEW X, ~ssa.lost, Alright(blocks, X, ssa), X = Hidden,
         EndFor, Top.begin \in X
  PROVE  Alright(blocks', X, StepSSA)
<1> DEFINE step == Top.step
           begin == Top.begin
           S == SealedNow
           R == S \ {step}
           h == Partly(blocks', S)
           k == Partly(blocks', R)
           a == Added
           b == SealIn(k, a, step)
           c == ReadIn(k, b, step, begin)
           d == Define(c, step, begin)
<1>1. IInv /\ phase = "body" /\ Top.kind = "for"
  BY DEF EndFor, InBody, OneStep
<1>2. /\ step \in Ids(blocks) /\ ~blocks[step].sealed /\ IsOpen(blocks, step)
      /\ step # begin
  BY <1>1, BodyFacts DEF Shape, Held, Awaits
<1>3. blocks'[step].sealed /\ Targets(blocks', step) = {begin}
  BY <1>1, ForSealsStep, ForTargets
<1>4. step \in DOMAIN blocks /\ step \in DOMAIN blocks'
  BY <1>2, OneStepFacts
<1>5. step \in S /\ S \subseteq {e \in DOMAIN blocks' : blocks'[e].sealed}
      /\ R \subseteq {e \in DOMAIN blocks' : blocks'[e].sealed}
  BY <1>2, <1>3, <1>4 DEF SealedNow
<1>6. Rooted(blocks') /\ Consistent(blocks') /\ DOMAIN blocks' = Ids(blocks')
  BY OneStepFacts DEF OneStep, Rooted
<1>7. /\ DOMAIN h = DOMAIN blocks'
      /\ \A e \in DOMAIN blocks' : /\ h[e].sealed = (blocks'[e].sealed /\ e \notin S)
                                   /\ Preds(h, e) = Preds(blocks', e)
  BY <1>6, PartlyIs
<1>8. /\ Graph(k) /\ DOMAIN k = DOMAIN blocks'
      /\ \A e \in DOMAIN blocks' : /\ k[e].sealed = (blocks'[e].sealed /\ e \notin R)
                                   /\ Preds(k, e) = Preds(blocks', e)
  BY <1>6, PartlyIs
<1>9. \A e \in DOMAIN h : step \in Preds(h, e) => ~h[e].sealed
  BY <1>2, <1>4, OpenPrecedesNone
<1>10. Alright(h, X, a)
  <2>1. Alright(h, X, WithDefs(ssa, X, NewOnes))
    BY AddedAlright
  <2> HIDE DEF h
  <2> QED
    BY <2>1 DEF Added, NewOnes
<1>11. StepSSA = Completed(d, R)
  <2>1. Before(R) = k
    BY BeforeIs
  <2> QED
    BY <2>1 DEF StepSSA
<1> HIDE DEF step, begin, S, a
<1>12. Alright(k, X, b)
  <2> HIDE DEF b
  <2>1. Alright(Partly(blocks', S \ {step}), X, SealIn(Partly(blocks', S \ {step}), a, step))
    BY <1>5, <1>6, <1>10, SealAlright
  <2> QED
    BY <2>1 DEF b
<1> HIDE DEF h, k, b
<1>13. Alright(k, X, c)
  <2> HIDE DEF c
  <2>1. step \in DOMAIN k /\ begin \in X
    BY <1>4, <1>8 DEF begin
  <2>2. Alright(k, X, ReadIn(k, b, step, begin))
    BY <1>8, <1>12, <2>1, ReadAlright
  <2> QED
    BY <2>2 DEF c
<1> HIDE DEF c
<1>14. \A e \in DOMAIN k : step \in Preds(k, e) => ~k[e].sealed
  <2> SUFFICES ASSUME NEW e \in DOMAIN k, step \in Preds(k, e), k[e].sealed PROVE FALSE
    OBVIOUS
  <2>1. e \in DOMAIN blocks' /\ step \in Preds(blocks', e) /\ blocks'[e].sealed /\ e \notin R
    BY <1>8
  <2>2. CASE e = step
    <3>1. step \in Targets(blocks', step)
      BY <1>6, <2>1, <2>2 DEF Consistent
    <3> QED
      BY <1>2, <1>3, <3>1
  <2>3. CASE e # step
    <3>1. e \notin S
      BY <2>1, <2>3
    <3>2. h[e].sealed /\ step \in Preds(h, e)
      BY <1>7, <2>1, <3>1
    <3> QED
      BY <1>7, <1>9, <2>1, <3>2
  <2> QED
    BY <2>2, <2>3
<1>15. Alright(k, X, d)
  <2> HIDE DEF d
  <2>1. step \in DOMAIN k /\ begin \in X
    BY <1>4, <1>8 DEF begin
  <2>2. Alright(k, X, Define(c, step, begin))
    BY <1>8, <1>13, <1>14, <2>1, DefineAlright
  <2> QED
    BY <2>2 DEF d
<1> HIDE DEF d
<1>16. Alright(blocks', X, CompletedIn(blocks', d, R))
  <2>1. Alright(Partly(blocks', R), X, d)
    BY <1>15 DEF k
  <2> HIDE DEF R
  <2> QED
    BY <1>5, <1>6, <2>1, CompletedAlright
<1>17. Completed(d, R) = CompletedIn(blocks', d, R)
  <2> HIDE DEF R
  <2> QED
    BY CompletedIs
<1> QED
  BY <1>11, <1>16, <1>17

\* A loop over an array or over the elements of one.
LEMMA LoopAlright ==
  ASSUME OneStep, NEW X, ~ssa.lost, Alright(blocks, X, ssa), X = Hidden,
         DOMAIN blocks' \subseteq X, BeginFor \/ BeginArray
  PROVE  /\ Alright(blocks', X, ForSSA)
         /\ Alright(blocks', X, ReadIn(Before({}), ForSSA, Len(blocks) + 2, Len(blocks) + 1))
<1> DEFINE begin == Len(blocks) + 1
           S == SealedNow
           h == Partly(blocks', S)
           d == Define(Added, cur, begin)
           e == ReadIn(h, d, begin, begin)
           f == Completed(e, S)
<1>1. Live /\ cur' = Len(blocks) + 2
  BY DEF BeginFor, BeginArray, Opens, Stmt, StartBlock
<1>2. /\ Len(blocks) \in Nat /\ Len(blocks') \in Nat /\ DOMAIN blocks' = 1..Len(blocks')
      /\ DOMAIN blocks = Ids(blocks) /\ DOMAIN blocks' = Ids(blocks')
  BY OneStepFacts
<1>3. cur \in DOMAIN blocks /\ cur' \in DOMAIN blocks'
  BY <1>2 DEF OneStep, IInv, TypeOK
<1>4. begin \in DOMAIN blocks' /\ Len(blocks) + 2 \in DOMAIN blocks' /\ begin \in X
  BY <1>1, <1>2, <1>3
<1>5. Rooted(blocks') /\ Graph(blocks') /\ Partly(blocks', {}) = blocks'
  BY RootedFacts DEF OneStep
<1>6. Graph(h) /\ DOMAIN h = DOMAIN blocks'
  BY <1>5, PartlyIs
<1>7. ForSSA = f
  <2>1. Before(S) = h
    BY BeforeIs
  <2> QED
    BY <2>1 DEF ForSSA
<1>8. Before({}) = blocks'
  BY <1>5, BeforeIs
<1> HIDE DEF begin, S
<1>9. Alright(h, X, d)
  <2>1. IsOpen(blocks, cur)
    BY <1>1 DEF Live
  <2> QED
    BY <1>3, <1>4, <2>1, WrittenAlright DEF S
<1> HIDE DEF h, d
<1>10. Alright(h, X, e)
  BY <1>4, <1>6, <1>9, ReadAlright
<1> HIDE DEF e
<1>11. Alright(blocks', X, f)
  BY <1>10, CompletedAll DEF h, S
<1> HIDE DEF f
<1>12. Alright(blocks', X, ReadIn(blocks', f, Len(blocks) + 2, begin))
  BY <1>4, <1>5, <1>11, ReadAlright
<1> QED
  BY <1>7, <1>8, <1>11, <1>12 DEF begin

\* The other steps that write a variable before they seal.
LEMMA WriteAlright ==
  ASSUME OneStep, NEW X, ~ssa.lost, Alright(blocks, X, ssa), X = Hidden,
         Live, NEW x \in X
  PROVE  Alright(blocks', X, Completed(Define(Added, cur, x), SealedNow))
<1> DEFINE d == Define(Added, cur, x)
<1>1. cur \in DOMAIN blocks /\ IsOpen(blocks, cur)
  BY OneStepFacts DEF OneStep, IInv, TypeOK, Live
<1>2. Alright(Partly(blocks', SealedNow), X, d)
  BY <1>1, WrittenAlright
<1> HIDE DEF d
<1>3. Alright(blocks', X, Completed(d, SealedNow))
  BY <1>2, CompletedAll
<1> QED
  BY <1>3 DEF d

LEMMA SSAStep ==
  ASSUME OneStep, NEW X, Alright(blocks, X, ssa), X = Hidden, DOMAIN blocks' \subseteq X,
         profile.blocks \in Nat, SSANext
  PROVE  Alright(blocks', X, ssa')
<1>1. ~ssa.lost /\ IInv
  BY DEF SSANext, OneStep
<1>2. /\ DOMAIN blocks \subseteq DOMAIN blocks' /\ DOMAIN blocks = Ids(blocks)
      /\ DOMAIN blocks' = Ids(blocks') /\ DOMAIN blocks' = 1..Len(blocks')
      /\ Len(blocks) \in Nat /\ Len(blocks') \in Nat
  BY OneStepFacts
<1>3. phase = "body" => \A b \in Held(Top) : b \in DOMAIN blocks /\ b \in X
  BY <1>1, <1>2, BodyFacts
<1>4. CASE BeginFor /\ ssa' = ForSSA
  BY <1>1, <1>4, LoopAlright
<1>5. CASE EndFor /\ ssa' = StepSSA
  <2>1. phase = "body" /\ Top.kind = "for"
    BY <1>5 DEF EndFor, InBody
  <2>2. Top.begin \in Held(Top)
    BY <1>1, <2>1, BodyFacts DEF Held, Shape
  <2>3. Top.begin \in X
    BY <1>3, <2>1, <2>2
  <2> QED
    BY <1>1, <1>5, <2>3, StepAlright
<1>6. CASE BeginArray /\ ssa' = ArraySSA
  <2>1. ArraySSA = ReadIn(Before({}), ForSSA, Len(blocks) + 2, Len(blocks) + 1)
    <3>1. Len(blocks) + 1 + 1 = Len(blocks) + 2
      BY <1>2
    <3> QED
      BY <3>1 DEF ArraySSA
  <2>2. Alright(blocks', X, ReadIn(Before({}), ForSSA, Len(blocks) + 2, Len(blocks) + 1))
    BY <1>1, <1>6, LoopAlright
  <2> QED
    BY <1>6, <2>1, <2>2
<1>7. CASE EndArray /\ ssa' = ElemSSA
  <2>1. phase = "body" /\ Top.kind = "array"
    BY <1>7 DEF EndArray
  <2>2. Live /\ Top.begin \in Held(Top)
    BY <1>1, <2>1, BodyFacts DEF Held, Shape, NeedsOpen, Live
  <2>3. Top.begin \in X
    BY <1>3, <2>1, <2>2
  <2> QED
    BY <1>1, <1>7, <2>2, <2>3, WriteAlright DEF ElemSSA
<1>8. CASE BeginShort /\ ssa' = ShortSSA
  <2> DEFINE x == Len(blocks) + 2
  <2>1. Live /\ Fits(2)
    BY <1>8 DEF BeginShort
  <2>2. x \in X
    <3>1. 1 \in DOMAIN blocks
      BY DEF OneStep, Rooted
    <3>2. 1..profile.blocks = X
      BY DEF Hidden
    <3>3. x <= profile.blocks
      BY <2>1 DEF Fits
    <3> QED
      BY <1>2, <3>2, <3>3
  <2> HIDE DEF x
  <2>3. Alright(blocks', X, Completed(Define(Added, cur, x), SealedNow))
    BY <1>1, <2>1, <2>2, WriteAlright
  <2> QED
    BY <1>8, <2>3 DEF ShortSSA, x
<1>9. CASE EndShort /\ ssa' = JoinSSA
  <2> DEFINE end == Top.end
             d == Completed(Define(Added, cur, end), SealedNow)
  <2>1. phase = "body" /\ Top.kind = "short"
    BY <1>9 DEF EndShort
  <2>2. Live /\ end \in Held(Top)
    BY <1>1, <2>1, BodyFacts DEF Held, Shape, NeedsOpen, Live
  <2>3. end \in X /\ end \in DOMAIN blocks'
    BY <1>2, <1>3, <2>1, <2>2
  <2>4. Graph(blocks') /\ Before({}) = blocks'
    BY RootedFacts, BeforeIs DEF OneStep
  <2>5. ssa' = IF blocks'[end].preds = <<>> THEN d ELSE ReadIn(blocks', d, end, end)
    BY <1>9, <2>4 DEF JoinSSA
  <2> HIDE DEF end
  <2>6. Alright(blocks', X, d)
    BY <1>1, <2>2, <2>3, WriteAlright
  <2> HIDE DEF d
  <2>7. Alright(blocks', X, ReadIn(blocks', d, end, end))
    BY <2>3, <2>4, <2>6, ReadAlright
  <2> QED
    BY <2>5, <2>6, <2>7
<1>10. CASE NoHidden /\ ssa' = Completed(Added, SealedNow)
  <2>1. Alright(Partly(blocks', SealedNow), X, WithDefs(ssa, X, NewOnes))
    BY <1>1, AddedAlright
  <2>2. Added = WithDefs(ssa, X, NewOnes)
    BY DEF Added, NewOnes
  <2>3. Alright(blocks', X, Completed(WithDefs(ssa, X, NewOnes), SealedNow))
    BY <2>1, CompletedAll
  <2> QED
    BY <1>10, <2>2, <2>3
<1> QED
  BY <1>4, <1>5, <1>6, <1>7, <1>8, <1>9, <1>10 DEF SSANext

\* Every step of the two together is one of the lowering.
LEMMA StepIsNext ==
  ASSUME SSANext
  PROVE  Next
  BY DEF SSANext, NoHidden, Next, Expression, For

Entry == 1 \in DOMAIN blocks /\ blocks[1].sealed /\ blocks[1].preds = <<>>

SSAInv == IInv /\ Entry /\ Sized /\ NoLabels /\ Alright(blocks, Hidden, ssa)

LEMMA EmptyAlright ==
  ASSUME NEW X, NEW g, g = <<[FreshBlock EXCEPT !.sealed = TRUE, !.lowered = TRUE]>>
  PROVE  Alright(g, X, EmptySSA(X))
<1> DEFINE f == [FreshBlock EXCEPT !.sealed = TRUE, !.lowered = TRUE]
           s == EmptySSA(X)
           w == [b \in DOMAIN g |-> [x \in X |-> NoVal]]
           of == [n \in Nat |-> 0]
<1>1. f.preds = <<>> /\ f.sealed = TRUE
  BY DEF FreshBlock
<1> HIDE DEF f
<1>2. Len(g) = 1 /\ DOMAIN g = {1} /\ g[1] = f
  BY DEF f
<1>3. /\ s.vals = <<>> /\ s.defs = <<[x \in X |-> NoVal]>> /\ s.pending = <<<<>>>> /\ s.lost = FALSE
      /\ s \in SSAOf(X)
  <2>1. /\ <<>> \in Seq(Insts) /\ <<<<>>>> \in Seq(Seq(X \X Nat))
        /\ [x \in X |-> NoVal] \in [X -> Nat]
    BY DEF NoVal
  <2>2. <<[x \in X |-> NoVal]>> \in Seq([X -> Nat])
    BY <2>1
  <2> QED
    BY <2>1, <2>2 DEF EmptySSA, SSAOf
<1>4. Vals(s) = {} /\ Len(s.defs) = 1 /\ Len(s.pending) = 1
  <2>1. Len(<<>>) = 0 /\ 1..0 = {}
    OBVIOUS
  <2> QED
    BY <2>1, <1>3 DEF Vals
<1>5. \A x \in X : s.defs[1][x] = NoVal
  BY <1>3
<1> HIDE DEF s
<1>6. Typed(g, X, s) /\ Definitions(g, X, w, s, {})
  BY <1>2, <1>3, <1>4, <1>5 DEF Typed, Definitions
<1>7. w \in [DOMAIN g -> [X -> Nat]] /\ \A b \in DOMAIN g, x \in X : w[b][x] = NoVal
  BY DEF NoVal
<1>8. DOMAIN of = Nat /\ of = [n \in Nat |-> of[n]]
  OBVIOUS
<1> HIDE DEF w, of
<1>9. Ghosts(g, X, w, s, {}, of) /\ Writes(g, X, w, s, of)
  BY <1>4, <1>7, <1>8 DEF Ghosts, Writes
<1>10. /\ Flows(g, X, w, s, {}) /\ Linked(g, X, s, {}) /\ Operands(g, w, s, {}, of)
       /\ Filled(g, {}, s) /\ Removed(g, {}, w, s, {}, of)
  BY <1>4 DEF Flows, Linked, Operands, Filled, Removed
<1>11. PhisDue(g, {}, s, of)
  BY <1>1, <1>2, <1>4 DEF PhisDue
<1>12. Sound(g, X, w, {}, s, {}, of)
  BY <1>6, <1>9, <1>10, <1>11 DEF Sound
<1> QED
  BY <1>3, <1>12 DEF Alright, s

LEMMA SSAInvInit == SSAInit => SSAInv
<1> SUFFICES ASSUME SSAInit PROVE SSAInv
  OBVIOUS
<1>1. Init /\ ssa = EmptySSA(Hidden)
  BY DEF SSAInit
<1>2. IInv /\ NoLabels
  BY <1>1, InitInv, NoLabelsInit
<1>3. blocks = <<[FreshBlock EXCEPT !.sealed = TRUE, !.lowered = TRUE]>>
  BY <1>1 DEF Init
<1>4. Alright(blocks, Hidden, ssa)
  BY <1>1, <1>3, EmptyAlright
<1>5. Entry
  <2> DEFINE f == [FreshBlock EXCEPT !.sealed = TRUE, !.lowered = TRUE]
  <2>1. f.preds = <<>> /\ f.sealed = TRUE
    BY DEF FreshBlock
  <2>2. blocks = <<f>>
    BY <1>3
  <2> HIDE DEF f
  <2> QED
    BY <2>1, <2>2 DEF Entry
<1>6. Sized
  <2>1. profile \in Profiles /\ Len(blocks) = 1
    BY <1>1, <1>3 DEF Init
  <2>2. profile.blocks \in Nat \ {0}
    BY <2>1, LowerProfiles
  <2> QED
    BY <2>1, <2>2 DEF Sized
<1> QED
  BY <1>2, <1>4, <1>5, <1>6 DEF SSAInv

LEMMA SSAInvKept ==
  ASSUME SSAInv, [SSANext]_bothVars
  PROVE  SSAInv'
<1>1. CASE UNCHANGED bothVars
  <2>1. UNCHANGED vars /\ ssa' = ssa
    BY <1>1 DEF bothVars
  <2>2. IInv' /\ NoLabels'
    BY <2>1, NextKeeps, NoLabelsKept DEF SSAInv
  <2>3. blocks' = blocks /\ profile' = profile
    BY <2>1 DEF vars
  <2>4. Alright(blocks', Hidden', ssa')
    BY <2>1, <2>3 DEF SSAInv, Hidden
  <2> QED
    BY <2>2, <2>3, <2>4 DEF SSAInv, Entry, Sized
<1>2. CASE SSANext
  <2>1. Next
    BY <1>2, StepIsNext
  <2>2. IInv' /\ Kept /\ NoLabels' /\ Sized'
    BY <2>1, NextKeeps, NoLabelsKept, SizedKept DEF SSAInv
  <2>3. profile' = profile
    BY <2>1, ProfileKept
  <2>4. Entry'
    BY <2>2 DEF SSAInv, Entry, Kept
  <2>5. OneStep
    <3>1. Consistent(blocks) /\ Consistent(blocks')
      BY <2>2 DEF SSAInv, IInv, TypeOK
    <3> QED
      BY <2>2, <2>4, <3>1 DEF SSAInv, Entry, OneStep, Rooted
  <2>6. DOMAIN blocks' \subseteq Hidden /\ profile.blocks \in Nat
    <3>1. profile.blocks \in Nat /\ Len(blocks') <= profile.blocks
      <4>1. profile \in Profiles /\ Len(blocks') <= profile.blocks
        BY <2>2, <2>3 DEF Sized
      <4> QED
        BY <4>1, LowerProfiles
    <3>2. DOMAIN blocks' = 1..Len(blocks') /\ Len(blocks') \in Nat
      BY <2>5, OneStepFacts
    <3> QED
      BY <3>1, <3>2 DEF Hidden
  <2>7. Alright(blocks', Hidden, ssa')
    BY <1>2, <2>5, <2>6, SSAStep DEF SSAInv
  <2>8. Alright(blocks', Hidden', ssa')
    BY <2>3, <2>7 DEF Hidden
  <2> QED
    BY <2>2, <2>4, <2>8 DEF SSAInv
<1> QED
  BY <1>1, <1>2

LEMMA HangsInvariant ==
  ASSUME SSAInv
  PROVE  HangsInDeadLoopsOnly
<1> SUFFICES ASSUME ~CompilerComesBack PROVE LabelBlocks # {} /\ DeadLoop(blocks)
  BY DEF HangsInDeadLoopsOnly
<1>1. DeadLoop(blocks)
  <2>1. CASE ssa.lost
    BY <2>1 DEF SSAInv, Alright
  <2>2. CASE ~ssa.lost
    <3>1. PICK v \in DOMAIN ssa.vals : Endless(ssa.vals, v)
      BY <2>2 DEF CompilerComesBack
    <3>2. PICK w, r, of : Sound(blocks, Hidden, w, {}, ssa, r, of)
      BY <2>2 DEF SSAInv, Alright
    <3>3. v \in Vals(ssa)
      <4>1. ssa \in SSAOf(Hidden)
        BY DEF SSAInv, Alright
      <4>2. ssa.vals \in Seq(Insts)
        BY <4>1, SSAFields
      <4> QED
        BY <3>1, <4>2 DEF Vals
    <3>4. Graph(blocks)
      <4>1. Rooted(blocks)
        BY DEF SSAInv, IInv, TypeOK, Entry, Rooted
      <4> QED
        BY <4>1, RootedFacts
    <3>5. PICK S : Dead(blocks, S)
      BY <3>1, <3>2, <3>3, <3>4, EndlessIsDead
    <3> QED
      BY <3>5, DeadIsDeadLoop
  <2> QED
    BY <2>1, <2>2
<1>2. LabelBlocks # {}
  BY <1>1, NoDeadLoop DEF SSAInv
<1> QED
  BY <1>1, <1>2

\* HangsInDeadLoopsOnly holds of every behaviour of the lowering with the SSA
\* construction it drives: the loop of ST_ir_read_var along removed phis, that
\* of ST_slot in the backends and the recursion of ST_ir_read_var over the
\* predecessors end, unless a label has a block and goto has left a loop that
\* no run enters.
THEOREM LoweringComesBack == SSASpec => []HangsInDeadLoopsOnly
<1>1. SSAInit => SSAInv
  BY SSAInvInit
<1>2. SSAInv /\ [SSANext]_bothVars => SSAInv'
  BY SSAInvKept
<1>3. SSAInv => HangsInDeadLoopsOnly
  BY HangsInvariant
<1> QED
  BY <1>1, <1>2, <1>3, PTL DEF SSASpec

-----------------------------------------------------------------------------
(* Where the searches for a hidden variable go: its region.                 *)

\* The blocks a step adds.
Fresh == Ids(blocks') \ Ids(blocks)

\* A construct has one hidden variable at most, named by a block of its own.
Owner(f) == IF f.kind \in {"for", "array"} THEN f.begin
            ELSE IF f.kind = "short" THEN f.end ELSE NoBlock

\* A block that may still gain predecessors is kept by an open construct.
Claimed ==
  \A b \in Ids(blocks) : ~blocks[b].sealed => \E i \in DOMAIN open : b \in Held(open[i])

Touches(f, S, x) == Held(f) \cap S # {} \/ Owner(f) = x

\* Inside the construct of a variable, the lowering stays in its region.
Regions(X, st, c, g, R) ==
  \A x \in X :
    /\ R[x] \subseteq Ids(g)
    /\ \A i \in DOMAIN st : Touches(st[i], R[x], x) =>
         c \in R[x] /\ \A j \in DOMAIN st : j >= i => Held(st[j]) \subseteq R[x]

Active(R, x) == \E i \in DOMAIN open : Touches(open[i], R[x], x)

\* The regions after a step that opens the construct of x0, if it opens one.
Widen(X, R, x0) ==
  [x \in X |-> R[x] \cup (IF Active(R, x) \/ x = x0 THEN Fresh ELSE {})]

Near == {cur} \cup Fresh \cup Held(Top)

\* Where a step may take the lowering, and what it may keep open.
Moves(x0) ==
  /\ cur' \in Near
  /\ x0 # NoBlock => x0 \in Fresh /\ cur' \in Fresh
  /\ \A i \in DOMAIN open' :
       \/ i \in DOMAIN open /\ Like(open'[i], open[i])
       \/ /\ x0 = NoBlock /\ i = Len(open) /\ Owner(open'[i]) = NoBlock
          /\ Held(open'[i]) \subseteq Fresh \cup Held(Top)
       \/ i = Len(open) + 1 /\ Held(open'[i]) \subseteq Fresh /\ Owner(open'[i]) = x0

LEMMA SameOwner ==
  ASSUME NEW f, NEW e, Like(f, e)
  PROVE  /\ Held(f) = Held(e) /\ Owner(f) = Owner(e)
         /\ \A S, x : Touches(f, S, x) <=> Touches(e, S, x)
<1>1. Held(f) = Held(e) /\ Owner(f) = Owner(e)
  BY FieldsSame DEF Like, Owner
<1> QED
  BY <1>1 DEF Touches

\* What is active has the current block and all the innermost construct keeps.
LEMMA ActiveTop ==
  ASSUME IInv, phase = "body", NEW X, NEW R, Regions(X, open, cur, blocks, R),
         NEW x \in X, Active(R, x)
  PROVE  cur \in R[x] /\ Held(Top) \subseteq R[x]
<1>1. /\ Len(open) \in Nat \ {0} /\ DOMAIN open = 1 .. Len(open)
      /\ Len(open) \in DOMAIN open /\ Top = open[Len(open)]
  BY OpenFacts DEF IInv
<1>2. PICK i \in DOMAIN open : Touches(open[i], R[x], x)
  BY DEF Active
<1>3. cur \in R[x] /\ \A j \in DOMAIN open : j >= i => Held(open[j]) \subseteq R[x]
  BY <1>2 DEF Regions
<1>4. Len(open) >= i
  BY <1>1
<1> QED
  BY <1>1, <1>3, <1>4

LEMMA RegionsStep ==
  ASSUME IInv, phase = "body", Ids(blocks) \subseteq Ids(blocks'),
         NEW X, NoBlock \notin X, NEW R, Regions(X, open, cur, blocks, R), NEW x0, Moves(x0)
  PROVE  Regions(X, open', cur', blocks', Widen(X, R, x0))
<1> DEFINE W == Widen(X, R, x0)
           n == Len(open)
<1>1. /\ n \in Nat \ {0} /\ DOMAIN open = 1 .. n /\ n \in DOMAIN open /\ Top = open[n]
  BY OpenFacts DEF IInv
<1>2. \A i \in DOMAIN open : Held(open[i]) \subseteq Ids(blocks)
  BY BodyFacts DEF Owned
<1>3. ASSUME NEW x \in X
      PROVE  /\ W[x] = R[x] \cup (IF Active(R, x) \/ x = x0 THEN Fresh ELSE {})
             /\ R[x] \subseteq Ids(blocks) /\ W[x] \subseteq Ids(blocks')
             /\ Fresh \cap Ids(blocks) = {}
  <2>1. W[x] = R[x] \cup (IF Active(R, x) \/ x = x0 THEN Fresh ELSE {})
    BY DEF Widen
  <2>2. R[x] \subseteq Ids(blocks)
    BY DEF Regions
  <2> HIDE DEF W
  <2> QED
    BY <2>1, <2>2 DEF Fresh
<1> HIDE DEF W, n
<1>4. ASSUME NEW x \in X, NEW i \in DOMAIN open', Touches(open'[i], W[x], x)
      PROVE  cur' \in W[x] /\ \A j \in DOMAIN open' : j >= i => Held(open'[j]) \subseteq W[x]
  <2>1. /\ R[x] \subseteq Ids(blocks) /\ Fresh \cap Ids(blocks) = {} /\ x # NoBlock
        /\ W[x] = R[x] \cup (IF Active(R, x) \/ x = x0 THEN Fresh ELSE {})
    BY <1>3
  <2>2. ASSUME i \in DOMAIN open, Like(open'[i], open[i])
        PROVE  Touches(open[i], R[x], x)
    <3>1. Touches(open[i], W[x], x)
      BY <1>4, <2>2, SameOwner
    <3>2. Held(open[i]) \cap Fresh = {}
      BY <1>2, <2>1, <2>2
    <3>3. W[x] \subseteq R[x] \cup Fresh
      BY <2>1
    <3> QED
      BY <3>1, <3>2, <3>3 DEF Touches
  <2>3. CASE Active(R, x)
    <3>1. cur \in R[x] /\ Held(Top) \subseteq R[x] /\ W[x] = R[x] \cup Fresh
      BY <2>1, <2>3, ActiveTop
    <3>2. cur' \in W[x]
      BY <3>1 DEF Moves, Near
    <3>3. ASSUME NEW j \in DOMAIN open', j >= i PROVE Held(open'[j]) \subseteq W[x]
      <4>1. CASE j \in DOMAIN open /\ Like(open'[j], open[j])
        <5>1. Held(open'[j]) = Held(open[j])
          BY <4>1, FieldsSame
        <5>2. CASE i \in DOMAIN open /\ Like(open'[i], open[i])
          BY <2>2, <3>1, <3>3, <4>1, <5>1, <5>2 DEF Regions
        <5>3. CASE i = n \/ i = n + 1
          <6>1. j = n
            BY <1>1, <3>3, <4>1, <5>3
          <6> QED
            BY <1>1, <3>1, <5>1, <6>1
        <5> QED
          BY <5>2, <5>3 DEF Moves, n
      <4>2. CASE Held(open'[j]) \subseteq Fresh \cup Held(Top)
        BY <3>1, <4>2
      <4> QED
        BY <4>1, <4>2 DEF Moves
    <3> QED
      BY <3>2, <3>3
  <2>4. CASE ~Active(R, x)
    <3>1. ~(i \in DOMAIN open /\ Like(open'[i], open[i]))
      BY <2>2, <2>4 DEF Active
    <3>2. CASE x = x0
      <4>1. i = n + 1 /\ cur' \in Fresh /\ W[x] = R[x] \cup Fresh
        BY <2>1, <3>1, <3>2 DEF Moves, n
      <4>2. ASSUME NEW j \in DOMAIN open', j >= i PROVE Held(open'[j]) \subseteq Fresh
        <5>1. j \notin DOMAIN open /\ j # n
          BY <1>1, <4>1, <4>2
        <5> QED
          BY <5>1 DEF Moves, n
      <4> QED
        BY <4>1, <4>2
    <3>3. CASE x # x0
      <4>1. W[x] = R[x]
        BY <2>1, <2>4, <3>3
      <4>2. Held(open'[i]) \subseteq Fresh \cup Held(Top) /\ Owner(open'[i]) # x
        BY <2>1, <3>1, <3>3 DEF Moves
      <4>3. Held(Top) \cap R[x] # {}
        BY <1>4, <2>1, <4>1, <4>2 DEF Touches
      <4>4. Active(R, x)
        BY <1>1, <4>3 DEF Active, Touches
      <4> QED
        BY <2>4, <4>4
    <3> QED
      BY <3>2, <3>3
  <2> QED
    BY <2>3, <2>4
<1>5. \A x \in X : W[x] \subseteq Ids(blocks')
  BY <1>3
<1> QED
  BY <1>4, <1>5 DEF Regions, W

\* A step that adds no way into a region from outside.
LEMMA EdgesInside ==
  ASSUME OneStep, phase = "body", Claimed,
         NEW X, NoBlock \notin X, NEW R, Regions(X, open, cur, blocks, R),
         NEW s, Fenced(blocks, X, R, s), NEW e,
         \A p \in DOMAIN blocks, x \in X : s.defs[p][x] # NoVal => e.defs[p][x] # NoVal,
         NEW A, NewEdges(A), A \subseteq Near, NEW x0,
         x0 # NoBlock => A \subseteq {cur} \cup Fresh /\ (x0 \in X => e.defs[cur][x0] # NoVal)
  PROVE  Fenced(blocks', X, Widen(X, R, x0), e)
<1> DEFINE W == Widen(X, R, x0)
<1>1. /\ DOMAIN blocks = Ids(blocks) /\ DOMAIN blocks' = Ids(blocks')
      /\ DOMAIN blocks \subseteq DOMAIN blocks' /\ IInv /\ Kept
      /\ Consistent(blocks) /\ Consistent(blocks') /\ 1 \in DOMAIN blocks
  BY OneStepFacts DEF OneStep, Rooted
<1>2. ASSUME NEW x \in X
      PROVE  /\ W[x] = R[x] \cup (IF Active(R, x) \/ x = x0 THEN Fresh ELSE {})
             /\ R[x] \subseteq Ids(blocks) /\ x # NoBlock
  BY DEF Widen, Regions
<1> HIDE DEF W
<1>3. ASSUME NEW x \in X, Active(R, x) PROVE A \subseteq W[x]
  <2>1. cur \in R[x] /\ Held(Top) \subseteq R[x]
    BY <1>1, <1>3, ActiveTop
  <2>2. W[x] = R[x] \cup Fresh
    BY <1>2, <1>3
  <2> QED
    BY <2>1, <2>2 DEF Near
<1>4. ASSUME NEW b \in DOMAIN blocks', NEW p \in Preds(blocks', b)
      PROVE  p \in A \/ (p \in Ids(blocks) /\ b \in DOMAIN blocks /\ p \in Preds(blocks, b))
  <2>1. p \in DOMAIN blocks' /\ b \in Targets(blocks', p)
    BY <1>1 DEF Consistent
  <2>2. CASE p \in Ids(blocks) /\ blocks'[p].term = blocks[p].term
    <3>1. b \in Targets(blocks, p)
      BY <2>1, <2>2 DEF Targets
    <3>2. b \in Ids(blocks)
      BY <1>1, <2>2, <3>1 DEF Consistent
    <3> QED
      BY <1>1, <2>2, <3>1, <3>2 DEF Consistent
  <2> QED
    BY <2>1, <2>2 DEF NewEdges
<1>5. ASSUME NEW x \in X, NEW b \in DOMAIN blocks', b \in W[x], NEW p \in Preds(blocks', b)
      PROVE  p \in W[x] \/ e.defs[p][x] # NoVal
  <2>1. CASE Active(R, x)
    <3>1. CASE p \in A
      BY <1>3, <2>1, <3>1
    <3>2. CASE p \in Ids(blocks) /\ b \in DOMAIN blocks /\ p \in Preds(blocks, b)
      <4>1. b \in R[x]
        BY <1>1, <1>2, <1>5, <3>2 DEF Fresh
      <4>2. p \in R[x] \/ s.defs[p][x] # NoVal
        BY <3>2, <4>1 DEF Fenced
      <4> QED
        BY <1>1, <1>2, <3>2, <4>2
    <3> QED
      BY <1>4, <3>1, <3>2
  <2>2. CASE ~Active(R, x) /\ b \in R[x]
    <3>1. b \in DOMAIN blocks /\ p \in Preds(blocks, b)
      <4>1. b \in DOMAIN blocks
        BY <1>1, <1>2, <2>2
      <4>2. blocks[b].sealed
        <5> SUFFICES ASSUME ~blocks[b].sealed PROVE FALSE
          OBVIOUS
        <5>1. PICK i \in DOMAIN open : b \in Held(open[i])
          BY <1>1, <4>1 DEF Claimed
        <5> QED
          BY <2>2, <5>1 DEF Active, Touches
      <4>3. blocks'[b].preds = blocks[b].preds
        BY <1>1, <4>1, <4>2 DEF Kept
      <4> QED
        BY <4>1, <4>3 DEF Preds
    <3>2. p \in R[x] \/ s.defs[p][x] # NoVal
      BY <2>2, <3>1 DEF Fenced
    <3>3. p \in DOMAIN blocks
      BY <1>1, <3>1 DEF Consistent
    <3> QED
      BY <1>2, <3>2, <3>3
  <2>3. CASE ~Active(R, x) /\ b \notin R[x]
    <3>1. x = x0 /\ b \in Fresh /\ W[x] = R[x] \cup Fresh
      BY <1>2, <1>5, <2>3
    <3>2. p \in A
      BY <1>1, <1>4, <3>1 DEF Fresh
    <3> QED
      BY <1>2, <3>1, <3>2
  <2> QED
    BY <2>1, <2>2, <2>3
<1>6. ASSUME NEW x \in X, NEW b \in DOMAIN blocks', b \in W[x] PROVE b # 1
  <2>1. CASE b \in R[x]
    BY <1>1, <1>2, <2>1 DEF Fenced
  <2>2. CASE b \notin R[x]
    <3>1. b \in Fresh
      BY <1>2, <1>6, <2>2
    <3> QED
      BY <1>1, <3>1 DEF Fresh
  <2> QED
    BY <2>1, <2>2
<1> QED
  BY <1>5, <1>6 DEF Fenced, W

-----------------------------------------------------------------------------
(* The calls of a step keep to the regions. *)

Nicely(g, X, R, s) == ~s.lost => Nice(g, X, R, s)

LEMMA PartlyNice ==
  ASSUME NEW g, Rooted(g), NEW S, NEW X, NEW R, NEW s
  PROVE  Nicely(g, X, R, s) <=> Nicely(Partly(g, S), X, R, s)
<1> DEFINE h == Partly(g, S)
<1>1. /\ Graph(g) /\ Graph(h) /\ Len(h) = Len(g) /\ DOMAIN h = DOMAIN g
      /\ \A c \in DOMAIN g : Preds(h, c) = Preds(g, c)
  BY PartlyIs, RootedFacts
<1>2. \A c \in DOMAIN h : Preds(g, c) = Preds(h, c)
  BY <1>1
<1> HIDE DEF h
<1>3. Nice(g, X, R, s) => Nice(h, X, R, s)
  BY <1>1, SameNice
<1>4. Nice(h, X, R, s) => Nice(g, X, R, s)
  BY <1>1, <1>2, SameNice
<1>5. Nicely(g, X, R, s) <=> Nicely(h, X, R, s)
  BY <1>3, <1>4 DEF Nicely
<1> QED
  BY <1>5 DEF h

LEMMA ReadNicely ==
  ASSUME NEW g, Graph(g), NEW X, NEW R, NEW s, Nicely(g, X, R, s), NEW b \in DOMAIN g,
         NEW x \in X, b \in R[x]
  PROVE  Nicely(g, X, R, ReadIn(g, s, b, x))
<1>1. CASE s.lost
  BY <1>1 DEF ReadIn
<1>2. CASE ~s.lost
  <2> DEFINE e == Read(g, s, b, x).s
  <2>1. ReadIn(g, s, b, x) = e
    BY <1>2 DEF ReadIn
  <2>2. Nice(g, X, R, s) /\ StartsWell(R, s, b, x)
    BY <1>2 DEF Nicely, StartsWell
  <2>3. ~e.lost => Nice(g, X, R, e)
    BY <2>2, ReadNice
  <2> HIDE DEF e
  <2> QED
    BY <2>1, <2>3 DEF Nicely
<1> QED
  BY <1>1, <1>2

LEMMA SealNicely ==
  ASSUME NEW g, Graph(g), NEW X, NEW R, NEW s, Nicely(g, X, R, s), NEW b \in DOMAIN g
  PROVE  Nicely(g, X, R, SealIn(g, s, b))
<1>1. CASE s.lost
  BY <1>1 DEF SealIn
<1>2. CASE ~s.lost
  <2> DEFINE e == CompletePhis(g, s, b)
  <2>1. SealIn(g, s, b) = e
    BY <1>2 DEF SealIn
  <2>2. Nice(g, X, R, s)
    BY <1>2 DEF Nicely
  <2>3. ~e.lost => Nice(g, X, R, e)
    BY <2>2, SealNice
  <2> HIDE DEF e
  <2> QED
    BY <2>1, <2>3 DEF Nicely
<1> QED
  BY <1>1, <1>2

LEMMA DefineNicely ==
  ASSUME NEW g, Graph(g), NEW X, NEW R, NEW s, Nicely(g, X, R, s), NEW b \in DOMAIN g,
         NEW x \in X
  PROVE  /\ Nicely(g, X, R, Define(s, b, x))
         /\ ~s.lost => /\ Onward(X, s, Define(s, b, x)) /\ Define(s, b, x).defs[b][x] # NoVal
                       /\ ~Define(s, b, x).lost
<1>1. CASE s.lost
  BY <1>1 DEF Define
<1>2. CASE ~s.lost
  <2> DEFINE n == Len(s.vals) + 1
             a == Emit(s, b, "def")
             e == WriteVar(a, b, x, n)
  <2>1. Define(s, b, x) = e
    BY <1>2 DEF Define
  <2>2. Nice(g, X, R, s)
    BY <1>2 DEF Nicely
  <2>3. Nice(g, X, R, a) /\ Onward(X, s, a) /\ n \in Vals(a)
    BY <2>2, EmitNice
  <2> HIDE DEF a, n
  <2>4. Nice(g, X, R, e) /\ Onward(X, a, e) /\ e.defs[b][x] # NoVal
    BY <2>3, WriteNice
  <2> HIDE DEF e
  <2>5. Onward(X, s, e)
    BY <2>3, <2>4, OnwardTrans
  <2>6. ~e.lost
    BY <2>4 DEF Nice, Tidy
  <2> QED
    BY <2>1, <2>4, <2>5, <2>6 DEF Nicely
<1> QED
  BY <1>1, <1>2

LEMMA CompletedNicely ==
  ASSUME NEW g, Rooted(g), NEW X, NEW R, NEW S, S \subseteq DOMAIN g,
         NEW s, Nicely(g, X, R, s)
  PROVE  Nicely(g, X, R, CompletedIn(g, s, S))
<1> DEFINE N == Len(g)
<1>1. N \in Nat /\ DOMAIN g = 1..N
  BY RootedFacts
<1>2. PICK f : /\ f[0] = s
               /\ \A i \in 1..N : f[i] = OneSealed(g, S, i, f[i - 1])
               /\ CompletedIn(g, s, S) = f[N]
  <2>1. Len(g) \in Nat
    BY <1>1
  <2>2. \E f : /\ f[0] = s
               /\ \A i \in 1..Len(g) : f[i] = OneSealed(g, S, i, f[i - 1])
               /\ CompletedIn(g, s, S) = f[Len(g)]
    BY ONLY <2>1, CompletedSteps
  <2> QED
    BY ONLY <2>2 DEF N
<1>3. ASSUME NEW i \in 1..N, Nicely(g, X, R, f[i - 1]) PROVE Nicely(g, X, R, f[i])
  <2>1. CASE i \in S
    <3> DEFINE h == Partly(g, {c \in S : c > i})
    <3>1. f[i] = SealIn(h, f[i - 1], i)
      BY <1>2, <2>1 DEF OneSealed
    <3>2. Graph(h) /\ DOMAIN h = DOMAIN g
      BY PartlyIs
    <3>3. Nicely(h, X, R, f[i - 1])
      BY <1>3, PartlyNice
    <3>4. Nicely(h, X, R, f[i]) => Nicely(g, X, R, f[i])
      BY PartlyNice
    <3> HIDE DEF h
    <3>5. i \in DOMAIN h
      BY <2>1, <3>2
    <3>6. Nicely(h, X, R, SealIn(h, f[i - 1], i))
      BY <3>2, <3>3, <3>5, SealNicely
    <3> QED
      BY <3>1, <3>4, <3>6
  <2>2. CASE i \notin S
    BY <1>2, <1>3, <2>2 DEF OneSealed
  <2> QED
    BY <2>1, <2>2
<1> HIDE DEF N
<1> DEFINE Bad == {i \in 0..N : ~Nicely(g, X, R, f[i])}
<1>4. Bad = {}
  <2>1. SUFFICES ASSUME Bad # {} PROVE FALSE
    OBVIOUS
  <2>2. Bad \subseteq Nat
    BY <1>1
  <2>3. PICK k \in Bad : \A j \in Bad : k <= j
    <3> HIDE DEF Bad
    <3> QED
      BY <2>1, <2>2, LeastOf
  <2>4. k \in 0..N /\ ~Nicely(g, X, R, f[k])
    OBVIOUS
  <2>5. k # 0
    BY <2>4, <1>2
  <2>6. k \in 1..N /\ k - 1 \in 0..N /\ ~ (k <= k - 1)
    BY <2>4, <2>5, <1>1
  <2>7. k - 1 \notin Bad
    <3> HIDE DEF Bad
    <3> QED
      BY <2>3, <2>6
  <2>8. Nicely(g, X, R, f[k - 1])
    BY <2>6, <2>7
  <2> QED
    BY <2>4, <2>6, <2>8, <1>3
<1>5. N \in 0..N
  BY <1>1
<1> QED
  BY <1>2, <1>4, <1>5 DEF N

LEMMA AllCompleted ==
  ASSUME Rooted(blocks'), NEW X, NEW R, NEW S, S \subseteq DOMAIN blocks',
         NEW s, Nicely(blocks', X, R, s)
  PROVE  Nicely(blocks', X, R, Completed(s, S))
<1>1. Nicely(blocks', X, R, CompletedIn(blocks', s, S))
  BY CompletedNicely
<1> QED
  BY <1>1, CompletedIs

\* The blocks of a step, before anything branches to them.
LEMMA AddedNice ==
  ASSUME OneStep, NEW X, NEW R, \A x \in X : R[x] \subseteq Ids(blocks),
         Nice(blocks, X, R, ssa), X = Hidden
  PROVE  LET k == WithBlocks(blocks, NewOnes)
         IN  /\ Graph(k) /\ Len(k) = Len(blocks') /\ DOMAIN k = DOMAIN blocks'
             /\ Nice(k, X, R, Added) /\ ~Added.lost
             /\ \A c \in DOMAIN blocks : Added.defs[c] = ssa.defs[c]
<1> DEFINE n == NewOnes
           k == WithBlocks(blocks, n)
           e == Added
<1>1. /\ n \in Nat /\ Len(blocks) \in Nat /\ Len(blocks') = Len(blocks) + n
      /\ DOMAIN blocks = 1..Len(blocks) /\ DOMAIN blocks' = 1..Len(blocks')
      /\ DOMAIN blocks = Ids(blocks)
  BY OneStepFacts DEF NewOnes
<1>2. ssa \in SSAOf(X) /\ Len(ssa.defs) = Len(blocks) /\ Len(ssa.pending) = Len(blocks)
  BY DEF Nice, Tidy
<1>3. e = WithDefs(ssa, X, n)
  BY DEF Added, NewOnes
<1> HIDE DEF n, e
<1>4. DefsAdded(X, ssa, n, e)
  BY <1>1, <1>2, <1>3, WithDefsFields
<1>5. /\ Consistent(blocks) /\ Rooted(blocks) /\ 1 \in DOMAIN blocks /\ blocks[1].preds = <<>>
  BY DEF OneStep, Rooted
<1>6. /\ Consistent(k) /\ Len(k) = Len(blocks) + n
      /\ \A b \in Ids(blocks) : k[b] = blocks[b]
  <2>1. Edits(blocks, k, {}, {})
    BY <1>1, <1>5, GrowEdits
  <2>2. Consistent(k)
    BY <2>1, EditsBounds
  <2> QED
    BY <1>1, <1>5, <2>2, GrowEdits
<1> HIDE DEF k
<1>7. DOMAIN k = DOMAIN blocks'
  BY <1>1, <1>6, GraphFacts DEF Ids
<1>8. Graph(k)
  <2>1. 1 \in DOMAIN k /\ k[1].preds = <<>>
    BY <1>1, <1>5, <1>6, <1>7
  <2>2. Rooted(k)
    BY <1>6, <2>1 DEF Rooted
  <2> QED
    BY <2>2, RootedFacts
<1>9. /\ e \in SSAOf(X) /\ e.vals = ssa.vals /\ e.lost = ssa.lost /\ Vals(e) = Vals(ssa)
      /\ Len(e.defs) = Len(k) /\ Len(e.pending) = Len(k)
      /\ \A c \in DOMAIN blocks : e.defs[c] = ssa.defs[c] /\ e.pending[c] = ssa.pending[c]
      /\ \A c \in DOMAIN k : c \notin DOMAIN blocks =>
           e.defs[c] = [x \in X |-> NoVal] /\ e.pending[c] = <<>>
  BY <1>1, <1>2, <1>4, <1>6, <1>7 DEF DefsAdded, Vals
<1>10. Tidy(k, X, e)
  <2>1. ASSUME NEW b \in DOMAIN k, NEW x \in X, e.defs[b][x] # NoVal
        PROVE  e.defs[b][x] \in Vals(e)
    <3>1. b \in DOMAIN blocks
      BY <1>9, <2>1
    <3> QED
      BY <1>9, <2>1, <3>1 DEF Nice, Tidy
  <2>2. ASSUME NEW b \in DOMAIN k, NEW i \in 1..Len(e.pending[b])
        PROVE  e.pending[b][i][2] \in Vals(e)
    <3>0. 1..Len(<<>>) = {}
      OBVIOUS
    <3>1. b \in DOMAIN blocks
      BY <1>9, <2>2, <3>0
    <3> QED
      BY <1>9, <2>2, <3>1 DEF Nice, Tidy
  <2> QED
    BY <1>9, <2>1, <2>2 DEF Nice, Tidy
<1>11. Fenced(k, X, R, e)
  <2> SUFFICES ASSUME NEW x \in X, NEW b \in DOMAIN k, b \in R[x]
               PROVE  b # 1 /\ \A p \in Preds(k, b) : p \in R[x] \/ e.defs[p][x] # NoVal
    BY DEF Fenced
  <2>1. b \in DOMAIN blocks /\ Preds(k, b) = Preds(blocks, b)
    BY <1>1, <1>6 DEF Preds
  <2>2. Preds(blocks, b) \subseteq DOMAIN blocks
    BY <1>1, <1>5, <2>1 DEF Consistent
  <2>3. b # 1 /\ \A p \in Preds(blocks, b) : p \in R[x] \/ ssa.defs[p][x] # NoVal
    BY <2>1 DEF Nice, Confined, Fenced
  <2> QED
    BY <1>9, <2>1, <2>2, <2>3
<1>12. ASSUME NEW b \in DOMAIN k, NEW i \in 1..Len(e.pending[b])
       PROVE  b \in R[e.pending[b][i][1]]
  <2>0. 1..Len(<<>>) = {}
    OBVIOUS
  <2>1. b \in DOMAIN blocks
    BY <1>9, <1>12, <2>0
  <2> QED
    BY <1>9, <1>12, <2>1 DEF Nice, Confined
<1>13. Confined(k, X, R, e)
  BY <1>9, <1>11, <1>12 DEF Nice, Confined
<1>14. Nice(k, X, R, e) /\ ~e.lost
  BY <1>10, <1>13 DEF Nice, Tidy
<1> QED
  BY <1>1, <1>6, <1>7, <1>8, <1>9, <1>14 DEF n, k, e

\* More edges, and regions that are still fenced.
LEMMA WiderNice ==
  ASSUME NEW k, NEW h, Len(h) = Len(k), DOMAIN h = DOMAIN k, NEW X, NEW R, NEW W,
         \A x \in X : R[x] \subseteq W[x],
         NEW s, Nice(k, X, R, s), Len(s.pending) \in Nat, DOMAIN k = 1..Len(s.pending),
         Fenced(h, X, W, s)
  PROVE  Nice(h, X, W, s)
<1>1. Tidy(h, X, s)
  BY DEF Nice, Tidy
<1>2. ASSUME NEW b \in DOMAIN h, NEW i \in 1..Len(s.pending[b])
      PROVE  b \in W[s.pending[b][i][1]]
  <2>1. s.pending \in Seq(Seq(X \X Nat))
    BY SSAFields DEF Nice, Tidy
  <2>2. s.pending[b] \in Seq(X \X Nat)
    BY <2>1
  <2>3. s.pending[b][i] \in X \X Nat
    BY <2>2
  <2>4. s.pending[b][i][1] \in X
    BY <2>3
  <2>5. b \in R[s.pending[b][i][1]]
    BY DEF Nice, Confined
  <2> QED
    BY <2>4, <2>5
<1>3. Confined(h, X, W, s)
  BY <1>2 DEF Nice, Confined
<1> QED
  BY <1>1, <1>3 DEF Nice

\* What every step starts from: the blocks it adds and the edges it makes.
StartOf(X, R, A) ==
  /\ OneStep /\ phase = "body" /\ Claimed
  /\ X = Hidden /\ DOMAIN blocks' \subseteq X
  /\ Regions(X, open, cur, blocks, R) /\ Nice(blocks, X, R, ssa)
  /\ NewEdges(A) /\ A \subseteq Near

LEMMA HiddenBlocks == NoBlock \notin Hidden
  BY DEF Hidden, NoBlock

LEMMA StartNice ==
  ASSUME NEW X, NEW R, NEW A, StartOf(X, R, A)
  PROVE  /\ Nice(blocks', X, Widen(X, R, NoBlock), Added)
         /\ \A x0 \in X : A \subseteq {cur} \cup Fresh =>
              Nice(blocks', X, Widen(X, R, x0), Define(Added, cur, x0))
<1> DEFINE k == WithBlocks(blocks, NewOnes)
<1>1. /\ Graph(k) /\ Len(k) = Len(blocks') /\ DOMAIN k = DOMAIN blocks'
      /\ Nice(k, X, R, Added) /\ ~Added.lost
      /\ \A c \in DOMAIN blocks : Added.defs[c] = ssa.defs[c]
  <2>1. /\ OneStep /\ Nice(blocks, X, R, ssa) /\ X = Hidden
        /\ \A x \in X : R[x] \subseteq Ids(blocks)
    BY DEF StartOf, Regions
  <2> QED
    BY <2>1, AddedNice
<1> HIDE DEF k
<1>2. /\ OneStep /\ phase = "body" /\ Claimed /\ NoBlock \notin X
      /\ Regions(X, open, cur, blocks, R) /\ Fenced(blocks, X, R, ssa)
      /\ NewEdges(A) /\ A \subseteq Near
  BY HiddenBlocks DEF StartOf, Nice, Confined
<1>3. /\ DOMAIN blocks \subseteq DOMAIN blocks' /\ cur \in DOMAIN blocks
      /\ DOMAIN blocks = Ids(blocks)
  BY <1>2, OneStepFacts DEF OneStep, IInv, TypeOK
<1>4. ASSUME NEW s, Nice(k, X, R, s), NEW x0, Fenced(blocks', X, Widen(X, R, x0), s)
      PROVE  Nice(blocks', X, Widen(X, R, x0), s)
  <2> DEFINE W == Widen(X, R, x0)
  <2>1. \A x \in X : R[x] \subseteq W[x]
    BY DEF Widen
  <2>2. Len(s.pending) = Len(k) /\ DOMAIN k = 1..Len(k) /\ Len(k) \in Nat
    BY <1>1, <1>4 DEF Nice, Tidy, Graph
  <2> HIDE DEF W
  <2>3. Fenced(blocks', X, W, s)
    BY <1>4 DEF W
  <2>4. Nice(blocks', X, W, s)
    BY <1>1, <1>4, <2>1, <2>2, <2>3, WiderNice
  <2> QED
    BY <2>4 DEF W
<1>5. Nice(blocks', X, Widen(X, R, NoBlock), Added)
  <2>1. \A p \in DOMAIN blocks, x \in X : ssa.defs[p][x] # NoVal => Added.defs[p][x] # NoVal
    BY <1>1
  <2>2. NoBlock # NoBlock => A \subseteq {cur} \cup Fresh /\ (NoBlock \in X => Added.defs[cur][NoBlock] # NoVal)
    OBVIOUS
  <2>3. Fenced(blocks', X, Widen(X, R, NoBlock), Added)
    BY <1>2, <2>1, <2>2, EdgesInside
  <2> QED
    BY <1>1, <1>4, <2>3
<1>6. ASSUME NEW x0 \in X, A \subseteq {cur} \cup Fresh
      PROVE  Nice(blocks', X, Widen(X, R, x0), Define(Added, cur, x0))
  <2> DEFINE e == Define(Added, cur, x0)
  <2>0. cur \in DOMAIN k /\ Nicely(k, X, R, Added)
    BY <1>1, <1>3 DEF Nicely
  <2>1. Nicely(k, X, R, e) /\ Onward(X, Added, e) /\ e.defs[cur][x0] # NoVal /\ ~e.lost
    BY <1>1, <2>0, DefineNicely
  <2> HIDE DEF e
  <2>2. Nice(k, X, R, e)
    BY <2>1 DEF Nicely
  <2>3. \A p \in DOMAIN blocks, x \in X : ssa.defs[p][x] # NoVal => e.defs[p][x] # NoVal
    <3>1. DOMAIN blocks \subseteq 1..Len(Added.defs)
      BY <1>1, <1>3 DEF Nice, Tidy, Graph
    <3> QED
      BY <1>1, <2>1, <3>1 DEF Onward
  <2>4. x0 # NoBlock => A \subseteq {cur} \cup Fresh /\ (x0 \in X => e.defs[cur][x0] # NoVal)
    BY <1>6, <2>1
  <2>5. Fenced(blocks', X, Widen(X, R, x0), e)
    BY <1>2, <2>3, <2>4, EdgesInside
  <2> QED
    BY <1>4, <2>2, <2>5 DEF e
<1> QED
  BY <1>5, <1>6

-----------------------------------------------------------------------------
(* What a step seals, and what it keeps open. *)

LEMMA SealSets ==
  ASSUME NEW D, NEW g \in [D -> Block], NEW b \in D
  PROVE  /\ Seal(g, b) \in [D -> Block] /\ Seal(g, b)[b].sealed
         /\ \A a \in D : g[a].sealed => Seal(g, b)[a].sealed
<1>1. Seal(g, b) \in [D -> Block]
  BY SealUpdate
<1>2. g[b] \in Block
  OBVIOUS
<1>3. [g[b] EXCEPT !.sealed = TRUE].sealed = TRUE
  BY <1>2 DEF Block
<1>4. Seal(g, b)[b] = [g[b] EXCEPT !.sealed = TRUE] /\ \A a \in D : a # b => Seal(g, b)[a] = g[a]
  BY DEF Seal
<1>5. Seal(g, b)[b].sealed
  BY <1>3, <1>4
<1> QED
  BY <1>1, <1>4, <1>5

LEMMA SealAllSets ==
  ASSUME NEW D, NEW g \in [D -> Block], NEW bs
  PROVE  /\ SealAll(g, bs) \in [D -> Block]
         /\ \A a \in D : a \in bs \/ g[a].sealed => SealAll(g, bs)[a].sealed
<1>1. SealAll(g, bs) \in [D -> Block]
  BY SealAllTerm
<1>2. ASSUME NEW a \in D, a \in bs \/ g[a].sealed PROVE SealAll(g, bs)[a].sealed
  <2>1. SealAll(g, bs)[a] = IF a \in bs THEN Seal(g, a)[a] ELSE g[a]
    BY DEF SealAll
  <2>2. Seal(g, a)[a].sealed
    BY SealSets
  <2> QED
    BY <1>2, <2>1, <2>2
<1> QED
  BY <1>1, <1>2

LEMMA CloseSets ==
  ASSUME NEW D, NEW g \in [D -> Block], NEW b \in D
  PROVE  /\ CloseUnreached(g, b) \in [D -> Block]
         /\ \A a \in D : g[a].sealed => CloseUnreached(g, b)[a].sealed
<1> DEFINE x == [kind |-> "unreachable", to |-> <<>>]
           h == [g EXCEPT ![b].term = x]
<1>1. CloseUnreached(g, b) = h \/ CloseUnreached(g, b) = g
  BY DEF CloseUnreached, Unreachable
<1>2. x \in [kind : TermKinds, to : Seq(Nat)]
  BY DEF TermKinds
<1> HIDE DEF x
<1>3. /\ WithTerm(g, b, x) \in [D -> Block]
      /\ \A a \in D : a # b => WithTerm(g, b, x)[a] = g[a]
  BY <1>2, TermUpdate
<1>4. g[b] \in Block
  OBVIOUS
<1>5. [g[b] EXCEPT !.term = x].sealed = g[b].sealed
  BY <1>2, <1>4 DEF Block
<1>6. h = WithTerm(g, b, x) /\ h[b] = [g[b] EXCEPT !.term = x]
  BY DEF WithTerm
<1> HIDE DEF h
<1>7. \A a \in D : g[a].sealed => h[a].sealed
  BY <1>3, <1>5, <1>6
<1> QED
  BY <1>1, <1>3, <1>6, <1>7

LEMMA StartSealed ==
  ASSUME IInv, IInv', NEW D, NEW g \in [D -> Block], NEW b \in D, NEW n \in 0 .. Len(items),
         StartBlock(g, b, n)
  PROVE  /\ blocks' \in [D -> Block] /\ cur' = b /\ Ids(blocks') = D
         /\ \A a \in D : g[a].sealed => blocks'[a].sealed
<1> DEFINE p == Pending(n)
           t == [[[g[b] EXCEPT !.lowered = TRUE] EXCEPT !.enter = p] EXCEPT !.pend = p]
<1>1. blocks' \in [D -> Block] /\ cur' = b
  BY StartTerm DEF IInv
<1>2. DOMAIN blocks' = Ids(blocks')
  BY GraphFacts DEF IInv, TypeOK
<1>3. p \in Seq(Nat)
  BY PendingIsList DEF IInv
<1>4. blocks' = [g EXCEPT ![b].lowered = TRUE, ![b].enter = p, ![b].pend = p]
  BY DEF StartBlock
<1> HIDE DEF p
<1>5. blocks'[b] = t /\ \A a \in D : a # b => blocks'[a] = g[a]
  BY <1>4
<1>6. g[b] \in Block
  OBVIOUS
<1>7. t.sealed = g[b].sealed
  BY <1>3, <1>6 DEF Block
<1> HIDE DEF t
<1>8. \A a \in D : g[a].sealed => blocks'[a].sealed
  BY <1>5, <1>7
<1> QED
  BY <1>1, <1>2, <1>8

\* Taking up a block that is sealed on the way.
LEMMA TakenSealed ==
  ASSUME IInv, IInv', NEW D, NEW g \in [D -> Block], NEW b \in D, NEW n \in 0 .. Len(items),
         \/ StartBlock(Seal(g, b), b, n)
         \/ StartBlock(CloseUnreached(Seal(g, b), b), b, n)
  PROVE  cur' = b /\ Ids(blocks') = D /\ blocks'[b].sealed
<1> DEFINE h == Seal(g, b)
           k == CloseUnreached(h, b)
<1>1. h \in [D -> Block] /\ h[b].sealed
  BY SealSets
<1>2. StartBlock(h, b, n) \/ StartBlock(k, b, n)
  OBVIOUS
<1> HIDE DEF h
<1>3. k \in [D -> Block] /\ k[b].sealed
  BY <1>1, CloseSets
<1> HIDE DEF k
<1>4. CASE StartBlock(h, b, n)
  BY <1>1, <1>4, StartSealed
<1>5. CASE StartBlock(k, b, n)
  BY <1>3, <1>5, StartSealed
<1> QED
  BY <1>2, <1>4, <1>5

LEMMA LoopSealed ==
  ASSUME IInv, IInv', NEW D \in IdSets, NEW g \in [D -> Block], cur \in D,
         NEW begin \in D, NEW body \in D, NEW end \in D,
         StartBlock(WithLoopHead(g, begin, body, end), body, count)
  PROVE  cur' = body /\ Ids(blocks') = D /\ blocks'[body].sealed
<1> DEFINE p == Pending(count)
           g1 == Br(g, cur, begin)
           g2 == TakenUp(g1, begin, p)
           g3 == CondBr(g2, begin, body, end)
<1>1. count \in 0 .. Len(items) /\ p \in Seq(Nat)
  BY PendingIsList DEF IInv, TypeOK
<1>2. StartBlock(Seal(g3, body), body, count)
  BY DEF WithLoopHead, TakenUp
<1> HIDE DEF p
<1>3. g1 \in [D -> Block]
  BY BrTerm
<1> HIDE DEF g1
<1>4. g2 \in [D -> Block]
  BY <1>1, <1>3, TakenTerm
<1> HIDE DEF g2
<1>5. g3 \in [D -> Block]
  BY <1>4, CondBrTerm
<1> HIDE DEF g3
<1> QED
  BY <1>1, <1>2, <1>5, TakenSealed

LEMMA AllSealed ==
  ASSUME IInv, IInv', NEW D, NEW g \in [D -> Block], NEW bs, NEW b \in D,
         NEW n \in 0 .. Len(items), StartBlock(SealAll(g, bs), b, n)
  PROVE  /\ cur' = b /\ Ids(blocks') = D
         /\ \A a \in D : a \in bs \/ g[a].sealed => blocks'[a].sealed
<1> DEFINE h == SealAll(g, bs)
<1>1. h \in [D -> Block] /\ \A a \in D : a \in bs \/ g[a].sealed => h[a].sealed
  BY SealAllSets
<1> HIDE DEF h
<1>2. StartBlock(h, b, n)
  BY DEF h
<1>3. cur' = b /\ Ids(blocks') = D /\ \A a \in D : h[a].sealed => blocks'[a].sealed
  BY <1>1, <1>2, StartSealed
<1> QED
  BY <1>1, <1>3

LEMMA DeadSealed ==
  ASSUME IInv, IInv', NEW g, NEW C, Made(blocks, g, C, {}, {}), NEW m \in 0 .. Len(items),
         StartDeadBlock(g, m)
  PROVE  Fresh = {cur'} /\ blocks'[cur'].sealed
<1> DEFINE d == Len(g) + 1
           h == WithBlocks(g, 1)
           h1 == Seal(h, d)
           x == [kind |-> "unreachable", to |-> <<>>]
           h2 == WithTerm(h1, d, x)
<1>1. Consistent(g) /\ Ids(g) = Ids(blocks)
  BY MadeFacts
<1>2. /\ h \in [Ids(h) -> Block] /\ Ids(h) \ Ids(g) = d .. d /\ Len(g) \in Nat
      /\ Ids(g) \subseteq Ids(h)
  <2>1. g \in Seq(Block) /\ Len(g) \in Nat
    BY <1>1, GraphFacts
  <2> QED
    BY <2>1, GrownBlocks
<1>3. StartBlock(h2, d, m)
  BY DEF StartDeadBlock, Unreachable, WithTerm
<1> HIDE DEF h
<1>4. d \in Ids(h) /\ Ids(h) \ Ids(g) = {d}
  BY <1>2
<1>5. x \in [kind : TermKinds, to : Seq(Nat)]
  BY DEF TermKinds
<1> HIDE DEF d, x
<1>6. h1 \in [Ids(h) -> Block] /\ h1[d].sealed
  BY <1>2, <1>4, SealSets
<1> HIDE DEF h1
<1>7. h2 \in [Ids(h) -> Block] /\ h2[d].sealed
  <2>1. h2 \in [Ids(h) -> Block]
    BY <1>4, <1>5, <1>6, TermUpdate
  <2>2. h1[d] \in Block
    BY <1>4, <1>6
  <2>3. [h1[d] EXCEPT !.term = x].sealed = h1[d].sealed
    BY <1>5, <2>2 DEF Block
  <2>4. h2[d] = [h1[d] EXCEPT !.term = x]
    BY <1>4, <1>6 DEF WithTerm
  <2> QED
    BY <1>6, <2>1, <2>3, <2>4
<1> HIDE DEF h2
<1>8. cur' = d /\ Ids(blocks') = Ids(h) /\ blocks'[d].sealed
  BY <1>3, <1>4, <1>7, StartSealed
<1> QED
  BY <1>1, <1>4, <1>8 DEF Fresh

-----------------------------------------------------------------------------
(* Every step stays near, and what it does not seal it keeps. *)

Stays(x0) == Moves(x0) /\ (Claimed => Claimed')

Watched(b) == blocks'[b].sealed \/ \E i \in DOMAIN open' : b \in Held(open'[i])

LEMMA ClaimedStep ==
  ASSUME IInv, IInv', Kept, phase = "body", Claimed,
         \A i \in DOMAIN open : i # Len(open) =>
           i \in DOMAIN open' /\ Held(open'[i]) = Held(open[i]),
         \A b \in Fresh \cup Held(Top) : Watched(b)
  PROVE  Claimed'
<1>1. DOMAIN blocks = Ids(blocks) /\ DOMAIN blocks' = Ids(blocks')
  BY GraphFacts DEF IInv, TypeOK
<1>2. Top = open[Len(open)]
  BY DEF Top
<1> SUFFICES ASSUME NEW b \in Ids(blocks'), ~blocks'[b].sealed
             PROVE  \E i \in DOMAIN open' : b \in Held(open'[i])
  BY DEF Claimed
<1>3. CASE b \in Fresh
  BY <1>3 DEF Watched
<1>4. CASE b \notin Fresh
  <2>1. b \in Ids(blocks) /\ ~blocks[b].sealed
    BY <1>1, <1>4 DEF Fresh, Kept
  <2>2. PICK i \in DOMAIN open : b \in Held(open[i])
    BY <2>1 DEF Claimed
  <2>3. CASE i = Len(open)
    BY <1>2, <2>2, <2>3 DEF Watched
  <2>4. CASE i # Len(open)
    BY <2>2, <2>4
  <2> QED
    BY <2>3, <2>4
<1> QED
  BY <1>3, <1>4

LEMMA StaysKeep ==
  ASSUME IInv, IInv', Kept, phase = "body", open' \in {open, Branched},
         cur' \in {cur} \cup Fresh, \A b \in Fresh : blocks'[b].sealed
  PROVE  Stays(NoBlock)
<1>1. /\ Len(open') = Len(open) /\ DOMAIN open' = DOMAIN open
      /\ \A i \in DOMAIN open : Like(open'[i], open[i])
  BY BranchedFacts DEF IInv
<1>2. Len(open) \in DOMAIN open /\ Top = open[Len(open)]
  BY OpenFacts DEF IInv
<1>3. \A i \in DOMAIN open : Held(open'[i]) = Held(open[i])
  BY <1>1, FieldsSame
<1>4. Moves(NoBlock)
  BY <1>1 DEF Moves, Near
<1>5. \A b \in Fresh \cup Held(Top) : Watched(b)
  BY <1>1, <1>2, <1>3 DEF Watched
<1>6. Claimed => Claimed'
  BY <1>1, <1>3, <1>5, ClaimedStep
<1> QED
  BY <1>4, <1>6 DEF Stays

LEMMA StaysPush ==
  ASSUME IInv, IInv', Kept, phase = "body", NEW f \in FrameType,
         open' \in {Append(open, f), Append(Branched, f)},
         Held(f) \subseteq Fresh, NEW x0, Owner(f) = x0,
         cur' \in {cur} \cup Fresh, x0 # NoBlock => x0 \in Fresh /\ cur' \in Fresh,
         \A b \in Fresh : blocks'[b].sealed \/ b \in Held(f)
  PROVE  Stays(x0)
<1>1. /\ DOMAIN open' = 1 .. (Len(open) + 1) /\ open'[Len(open) + 1] = f
      /\ \A i \in DOMAIN open : Like(open'[i], open[i])
  BY PushFacts DEF IInv
<1>2. /\ Len(open) \in DOMAIN open /\ Top = open[Len(open)] /\ Len(open) \in Nat
      /\ DOMAIN open = 1 .. Len(open)
  BY OpenFacts DEF IInv
<1>3. \A i \in DOMAIN open : i \in DOMAIN open' /\ Held(open'[i]) = Held(open[i])
  BY <1>1, <1>2, FieldsSame
<1>4. \A i \in DOMAIN open' : i \in DOMAIN open \/ i = Len(open) + 1
  BY <1>1, <1>2
<1>5. Moves(x0)
  BY <1>1, <1>4 DEF Moves, Near
<1>6. Len(open) + 1 \in DOMAIN open'
  BY <1>1, <1>2
<1>7. \A b \in Fresh \cup Held(Top) : Watched(b)
  BY <1>1, <1>2, <1>3, <1>6 DEF Watched
<1>8. Claimed => Claimed'
  BY <1>3, <1>7, ClaimedStep
<1> QED
  BY <1>5, <1>8 DEF Stays

LEMMA StaysSwap ==
  ASSUME IInv, IInv', Kept, phase = "body", NEW f \in FrameType, open' = Swap(f),
         Held(f) \subseteq Fresh \cup Held(Top), Owner(f) = NoBlock, cur' \in Near,
         \A b \in Fresh \cup Held(Top) : blocks'[b].sealed \/ b \in Held(f)
  PROVE  Stays(NoBlock)
<1>1. /\ DOMAIN open' = DOMAIN open /\ open'[Len(open)] = f
      /\ \A i \in DOMAIN open : i # Len(open) => open'[i] = open[i]
  BY SwapFacts DEF IInv
<1>2. Len(open) \in DOMAIN open
  BY OpenFacts DEF IInv
<1>3. \A i \in DOMAIN open : i # Len(open) => Like(open'[i], open[i])
  BY <1>1 DEF Like
<1>4. Moves(NoBlock)
  BY <1>1, <1>3 DEF Moves
<1>5. \A b \in Fresh \cup Held(Top) : Watched(b)
  BY <1>1, <1>2 DEF Watched
<1>6. Claimed => Claimed'
  BY <1>1, <1>5, ClaimedStep
<1> QED
  BY <1>4, <1>6 DEF Stays

LEMMA StaysPop ==
  ASSUME IInv, IInv', Kept, phase = "body", Top.kind # "fn", open' = Pop, cur' \in Near,
         \A b \in Fresh \cup Held(Top) : blocks'[b].sealed
  PROVE  Stays(NoBlock)
<1>1. Len(open) >= 2 /\ TypeOK
  BY BodyFacts, Deep
<1>2. /\ DOMAIN Pop = 1 .. (Len(open) - 1)
      /\ \A i \in 1 .. (Len(open) - 1) : Pop[i] = open[i]
  BY <1>1, PopFacts
<1>3. Len(open) \in Nat /\ DOMAIN open = 1 .. Len(open)
  BY <1>1, OpenFacts
<1>4. \A i \in DOMAIN open' : i \in DOMAIN open /\ Like(open'[i], open[i])
  BY <1>2, <1>3 DEF Like
<1>5. \A i \in DOMAIN open : i # Len(open) =>
        i \in DOMAIN open' /\ Held(open'[i]) = Held(open[i])
  BY <1>2, <1>3
<1>6. Moves(NoBlock)
  BY <1>4 DEF Moves
<1>7. \A b \in Fresh \cup Held(Top) : Watched(b)
  BY DEF Watched
<1>8. Claimed => Claimed'
  BY <1>5, <1>7, ClaimedStep
<1> QED
  BY <1>6, <1>8 DEF Stays

LEMMA FreshIs ==
  ASSUME IInv, phase = "body", NEW n \in Nat, Ids(blocks') = Ids(WithBlocks(blocks, n))
  PROVE  Fresh = (Len(blocks) + 1) .. (Len(blocks) + n)
  BY NewBlocks DEF Fresh

LEMMA FreshNone ==
  ASSUME Ids(blocks') = Ids(blocks)
  PROVE  Fresh = {}
  BY DEF Fresh

LEMMA ForkSealed ==
  ASSUME IInv, IInv', phase = "body", NEW n \in Nat, NEW g, g = WithBlocks(blocks, n),
         NEW x \in Ids(g), NEW y \in Ids(g),
         StartBlock(Seal(CondBr(g, cur, x, y), x), x, count)
  PROVE  /\ cur' = x /\ blocks'[x].sealed
         /\ Fresh = (Len(blocks) + 1) .. (Len(blocks) + n)
<1>1. Ids(g) \in IdSets /\ g \in [Ids(g) -> Block] /\ cur \in Ids(g) /\ TypeOK
  BY Newer
<1>2. count \in 0 .. Len(items)
  BY <1>1 DEF TypeOK
<1> DEFINE h == CondBr(g, cur, x, y)
<1>3. h \in [Ids(g) -> Block]
  BY <1>1, CondBrTerm
<1>4. StartBlock(Seal(h, x), x, count)
  OBVIOUS
<1> HIDE DEF h
<1>5. cur' = x /\ Ids(blocks') = Ids(g) /\ blocks'[x].sealed
  BY <1>2, <1>3, <1>4, TakenSealed
<1> QED
  BY <1>5, FreshIs

LEMMA StaysBeginShort ==
  ASSUME IInv, IInv', Kept, BeginShort
  PROVE  Stays(Len(blocks) + 2)
<1> DEFINE rhs == Len(blocks) + 1
           join == Len(blocks) + 2
           f == [Frame EXCEPT !.kind = "short", !.end = join]
           g == WithBlocks(blocks, 2)
<1>1. /\ phase = "body" /\ StartBlock(Seal(CondBr(g, cur, rhs, join), rhs), rhs, count)
      /\ open' = Append(open, f)
  BY DEF BeginShort, InExpr
<1>2. (Len(blocks) + 1) .. (Len(blocks) + 2) \subseteq Ids(g) /\ Len(blocks) \in Nat
  BY <1>1, Newer
<1>3. /\ rhs \in Ids(g) /\ join \in Ids(g) /\ join \in Nat /\ join # NoBlock
      /\ (Len(blocks) + 1) .. (Len(blocks) + 2) = {rhs, join}
  BY <1>2 DEF NoBlock
<1> HIDE DEF rhs, g
<1>4. cur' = rhs /\ blocks'[rhs].sealed /\ Fresh = {rhs, join}
  <2>1. /\ cur' = rhs /\ blocks'[rhs].sealed
        /\ Fresh = (Len(blocks) + 1) .. (Len(blocks) + 2)
    BY <1>1, <1>3, ForkSealed DEF g
  <2> QED
    BY <1>3, <2>1
<1> HIDE DEF join
<1>5. /\ f \in FrameType /\ Owner(f) = join /\ Held(f) = {join}
  BY <1>3 DEF Frame, FrameType, NoBlock, Owner, Held
<1> HIDE DEF f
<1>6. Stays(join)
  BY <1>1, <1>3, <1>4, <1>5, StaysPush
<1> QED
  BY <1>6 DEF join

LEMMA StaysBoundsCheck ==
  ASSUME IInv, IInv', Kept, BoundsCheck
  PROVE  Stays(NoBlock)
<1> DEFINE fail == Len(blocks) + 1
           ok == Len(blocks) + 2
           x == [kind |-> "unreachable", to |-> <<>>]
           g == WithBlocks(blocks, 2)
           g1 == CondBr(g, cur, fail, ok)
           g2 == Seal(g1, fail)
           g3 == WithTerm(g2, fail, x)
           g4 == Seal(g3, ok)
<1>1. phase = "body" /\ open' = open /\ StartBlock(g4, ok, count)
  BY DEF BoundsCheck, InExpr, Unreachable, WithTerm
<1>2. /\ Ids(g) \in IdSets /\ g \in [Ids(g) -> Block] /\ cur \in Ids(g) /\ TypeOK
      /\ (Len(blocks) + 1) .. (Len(blocks) + 2) \subseteq Ids(g) \ {cur}
      /\ Len(blocks) \in Nat
  BY <1>1, Newer
<1> DEFINE D == Ids(g)
<1>3. /\ fail \in D /\ ok \in D /\ fail # ok /\ count \in 0 .. Len(items)
      /\ (Len(blocks) + 1) .. (Len(blocks) + 2) = {fail, ok}
  <2>1. count \in 0 .. Len(items)
    BY <1>2 DEF TypeOK
  <2>2. (Len(blocks) + 1) .. (Len(blocks) + 2) = {fail, ok} /\ fail # ok
    BY <1>2
  <2> HIDE DEF fail, ok, g
  <2> QED
    BY <1>2, <2>1, <2>2
<1>a. x \in [kind : TermKinds, to : Seq(Nat)]
  BY DEF TermKinds
<1>b. /\ D \in IdSets /\ g \in [D -> Block] /\ cur \in D
  BY <1>2
<1> HIDE DEF fail, ok, g, D, x
<1>4. g1 \in [D -> Block]
  BY <1>b, <1>3, CondBrTerm
<1> HIDE DEF g1
<1>5. g2 \in [D -> Block] /\ g2[fail].sealed
  BY <1>3, <1>4, SealSets
<1> HIDE DEF g2
<1>6. g3 \in [D -> Block] /\ g3[fail].sealed
  <2>1. g3 \in [D -> Block]
    BY <1>a, <1>3, <1>5, TermUpdate
  <2>2. g2[fail] \in Block
    BY <1>3, <1>5
  <2>3. [g2[fail] EXCEPT !.term = x].sealed = g2[fail].sealed
    BY <1>a, <2>2 DEF Block
  <2>4. g3[fail] = [g2[fail] EXCEPT !.term = x]
    BY <1>3, <1>5 DEF WithTerm
  <2> QED
    BY <1>5, <2>1, <2>3, <2>4
<1> HIDE DEF g3
<1>7. g4 \in [D -> Block] /\ g4[fail].sealed /\ g4[ok].sealed
  BY <1>3, <1>6, SealSets
<1> HIDE DEF g4
<1>8. cur' = ok /\ Ids(blocks') = D /\ blocks'[fail].sealed /\ blocks'[ok].sealed
  BY <1>1, <1>3, <1>7, StartSealed
<1>9. Fresh = {fail, ok}
  <2>1. Fresh = (Len(blocks) + 1) .. (Len(blocks) + 2)
    BY <1>1, <1>8, FreshIs DEF D, g
  <2> QED
    BY <1>3, <2>1
<1> QED
  BY <1>1, <1>8, <1>9, StaysKeep

LEMMA LoopMade ==
  ASSUME IInv, IInv', phase = "body", NEW n \in Nat, NEW g, g = WithBlocks(blocks, n),
         NEW begin \in Ids(g), NEW body \in Ids(g), NEW end \in Ids(g),
         StartBlock(WithLoopHead(g, begin, body, end), body, count)
  PROVE  /\ cur' = body /\ blocks'[body].sealed
         /\ Fresh = (Len(blocks) + 1) .. (Len(blocks) + n)
<1>1. Ids(g) \in IdSets /\ g \in [Ids(g) -> Block] /\ cur \in Ids(g)
  BY Newer
<1>2. cur' = body /\ Ids(blocks') = Ids(g) /\ blocks'[body].sealed
  BY <1>1, LoopSealed
<1> QED
  BY <1>2, FreshIs

LEMMA StaysBeginArray ==
  ASSUME IInv, IInv', Kept, BeginArray
  PROVE  Stays(Len(blocks) + 1)
<1> DEFINE begin == Len(blocks) + 1
           body == Len(blocks) + 2
           end == Len(blocks) + 3
           f == [Frame EXCEPT !.kind = "array", !.begin = begin, !.end = end]
           g == WithBlocks(blocks, 3)
<1>1. /\ phase = "body" /\ open' = Append(open, f)
      /\ StartBlock(WithLoopHead(g, begin, body, end), body, count)
  BY DEF BeginArray
<1>2. (Len(blocks) + 1) .. (Len(blocks) + 3) \subseteq Ids(g) /\ Len(blocks) \in Nat
  BY <1>1, Newer
<1>3. /\ (Len(blocks) + 1) .. (Len(blocks) + 3) = {begin, body, end}
      /\ {begin, body, end} \subseteq Nat \ {NoBlock}
  BY <1>2 DEF NoBlock
<1>4. {begin, body, end} \subseteq Ids(g)
  <2> HIDE DEF begin, body, end, g
  <2> QED
    BY <1>2, <1>3
<1> HIDE DEF begin, body, end, g
<1>5. cur' = body /\ blocks'[body].sealed /\ Fresh = {begin, body, end}
  <2>1. /\ cur' = body /\ blocks'[body].sealed
        /\ Fresh = (Len(blocks) + 1) .. (Len(blocks) + 3)
    BY <1>1, <1>4, LoopMade DEF g
  <2> QED
    BY <1>3, <2>1
<1>6. f \in FrameType /\ Owner(f) = begin /\ Held(f) = {begin, end}
  BY <1>3 DEF Frame, FrameType, NoBlock, Owner, Held
<1> HIDE DEF f
<1>7. Stays(begin)
  BY <1>1, <1>3, <1>5, <1>6, StaysPush
<1> QED
  BY <1>7 DEF begin

LEMMA StaysBeginFor ==
  ASSUME IInv, IInv', Kept, BeginFor
  PROVE  Stays(Len(blocks) + 1)
<1> DEFINE begin == Len(blocks) + 1
           body == Len(blocks) + 2
           step == Len(blocks) + 3
           end == Len(blocks) + 4
           f == [Frame EXCEPT !.kind = "for", !.mark = count, !.begin = begin,
                              !.step = step, !.end = end]
           g == WithBlocks(blocks, 4)
<1>1. /\ phase = "body" /\ open' = Append(Branched, f)
      /\ StartBlock(WithLoopHead(g, begin, body, end), body, count)
  BY DEF BeginFor, Opens, Stmt, InBody
<1>2. /\ (Len(blocks) + 1) .. (Len(blocks) + 4) \subseteq Ids(g) /\ Len(blocks) \in Nat
      /\ count \in Nat
  BY <1>1, Newer DEF TypeOK
<1>3. /\ (Len(blocks) + 1) .. (Len(blocks) + 4) = {begin, body, step, end}
      /\ {begin, body, step, end} \subseteq Nat \ {NoBlock}
  BY <1>2 DEF NoBlock
<1>4. {begin, body, step, end} \subseteq Ids(g)
  <2> HIDE DEF begin, body, step, end, g
  <2> QED
    BY <1>2, <1>3
<1> HIDE DEF begin, body, step, end, g
<1>5. cur' = body /\ blocks'[body].sealed /\ Fresh = {begin, body, step, end}
  <2>1. /\ cur' = body /\ blocks'[body].sealed
        /\ Fresh = (Len(blocks) + 1) .. (Len(blocks) + 4)
    BY <1>1, <1>4, LoopMade DEF g
  <2> QED
    BY <1>3, <2>1
<1>6. f \in FrameType /\ Owner(f) = begin /\ Held(f) = {begin, step, end}
  BY <1>2, <1>3 DEF Frame, FrameType, BodyKinds, NoBlock, Owner, Held
<1> HIDE DEF f
<1>7. Stays(begin)
  BY <1>1, <1>3, <1>5, <1>6, StaysPush
<1> QED
  BY <1>7 DEF begin

LEMMA StaysBeginIf ==
  ASSUME IInv, IInv', Kept, NEW hasElse \in BOOLEAN, BeginIf(hasElse)
  PROVE  Stays(NoBlock)
<1> DEFINE n == IF hasElse THEN 3 ELSE 2
           then == Len(blocks) + 1
           els == IF hasElse THEN Len(blocks) + 2 ELSE NoBlock
           join == Len(blocks) + n
           other == Len(blocks) + 2
           f == [Frame EXCEPT !.kind = "then", !.mark = count, !.end = join, !.alt = els]
           g == WithBlocks(blocks, n)
<1>0. Len(blocks) \in Nat /\ n \in {2, 3} /\ n \in Nat /\ count \in Nat
  BY GraphFacts DEF IInv, TypeOK
<1>1. /\ phase = "body" /\ open' = Append(Branched, f)
      /\ StartBlock(Seal(CondBr(g, cur, then, other), then), then, count)
  <2>1. WithBlocks(blocks, join - Len(blocks)) = g
    BY <1>0
  <2>2. (IF hasElse THEN els ELSE join) = other
    OBVIOUS
  <2> QED
    BY <2>1, <2>2 DEF BeginIf, Opens, Stmt, InBody
<1>2. (Len(blocks) + 1) .. (Len(blocks) + n) \subseteq Ids(g)
  BY <1>0, <1>1, Newer
<1>3. /\ (Len(blocks) + 1) .. (Len(blocks) + n) = {then} \cup ({join, els} \ {NoBlock})
      /\ {then, other, join} \subseteq Nat \ {NoBlock} /\ els \in {NoBlock, other} /\ els \in Nat
      /\ other \in (Len(blocks) + 1) .. (Len(blocks) + n)
  <2>1. CASE hasElse
    BY <1>0, <2>1 DEF NoBlock
  <2>2. CASE ~hasElse
    BY <1>0, <2>2 DEF NoBlock
  <2> QED
    BY <2>1, <2>2
<1>4. then \in Ids(g) /\ other \in Ids(g)
  <2> HIDE DEF then, other, g, join, els, n
  <2> QED
    BY <1>2, <1>3
<1> HIDE DEF then, other, join, els, g, n
<1>5. cur' = then /\ blocks'[then].sealed /\ Fresh = {then} \cup ({join, els} \ {NoBlock})
  <2>1. /\ cur' = then /\ blocks'[then].sealed
        /\ Fresh = (Len(blocks) + 1) .. (Len(blocks) + n)
    BY <1>0, <1>1, <1>4, ForkSealed DEF g
  <2> QED
    BY <1>3, <2>1
<1>6. f \in FrameType /\ Owner(f) = NoBlock /\ Held(f) = {join, els} \ {NoBlock}
  BY <1>0, <1>3 DEF Frame, FrameType, BodyKinds, NoBlock, Owner, Held
<1> HIDE DEF f
<1> QED
  BY <1>1, <1>5, <1>6, StaysPush

LEMMA StaysBeginWhile ==
  ASSUME IInv, IInv', Kept, BeginWhile
  PROVE  Stays(NoBlock)
<1> DEFINE begin == Len(blocks) + 1
           body == Len(blocks) + 2
           end == Len(blocks) + 3
           f == [Frame EXCEPT !.kind = "head", !.begin = begin, !.step = begin,
                              !.end = end, !.alt = body]
           g == WithBlocks(blocks, 3)
           g1 == Br(g, cur, begin)
<1>1. phase = "body" /\ open' = Append(Branched, f) /\ StartBlock(g1, begin, count)
  BY DEF BeginWhile, Opens, Stmt, InBody
<1>2. /\ Ids(g) \in IdSets /\ g \in [Ids(g) -> Block] /\ cur \in Ids(g) /\ TypeOK
      /\ (Len(blocks) + 1) .. (Len(blocks) + 3) \subseteq Ids(g)
      /\ Len(blocks) \in Nat
  BY <1>1, Newer
<1>3. /\ (Len(blocks) + 1) .. (Len(blocks) + 3) = {begin, body, end}
      /\ {begin, body, end} \subseteq Nat \ {NoBlock}
  BY <1>2 DEF NoBlock
<1>4. begin \in Ids(g) /\ count \in 0 .. Len(items)
  <2>1. count \in 0 .. Len(items)
    BY <1>2 DEF TypeOK
  <2> HIDE DEF begin, body, end, g
  <2> QED
    BY <1>2, <1>3, <2>1
<1> HIDE DEF begin, body, end, g
<1>5. g1 \in [Ids(g) -> Block]
  BY <1>2, <1>4, BrTerm
<1> HIDE DEF g1
<1>6. cur' = begin /\ Ids(blocks') = Ids(g)
  BY <1>1, <1>4, <1>5, StartSealed
<1>7. Fresh = {begin, body, end}
  <2>1. Fresh = (Len(blocks) + 1) .. (Len(blocks) + 3)
    BY <1>1, <1>6, FreshIs DEF g
  <2> QED
    BY <1>3, <2>1
<1>8. f \in FrameType /\ Owner(f) = NoBlock /\ Held(f) = {begin, body, end}
  BY <1>3 DEF Frame, FrameType, NoBlock, Owner, Held
<1> HIDE DEF f
<1> QED
  BY <1>1, <1>6, <1>7, <1>8, StaysPush

LEMMA StaysOpen ==
  ASSUME IInv, IInv', Kept, BeginSwitch \/ BeginBlock
  PROVE  Stays(NoBlock)
<1> DEFINE end == Len(blocks) + 1
           g == WithBlocks(blocks, 1)
           f1 == [Frame EXCEPT !.kind = "switch", !.mark = count, !.end = end]
           f2 == [Frame EXCEPT !.kind = "block", !.mark = count]
<1>1. phase = "body" /\ cur' = cur
  BY DEF BeginSwitch, BeginBlock, Opens, Stmt, InBody
<1>2. Len(blocks) \in Nat /\ count \in Nat
  BY GraphFacts DEF IInv, TypeOK
<1>3. end \in Nat \ {NoBlock} /\ (Len(blocks) + 1) .. (Len(blocks) + 1) = {end}
  BY <1>2 DEF NoBlock
<1>4. CASE BeginSwitch
  <2>1. open' = Append(Branched, f1) /\ blocks' = g
    BY <1>4 DEF BeginSwitch
  <2> HIDE DEF end
  <2>2. f1 \in FrameType /\ Owner(f1) = NoBlock /\ Held(f1) = {end}
    BY <1>2, <1>3 DEF Frame, FrameType, NoBlock, Owner, Held
  <2> HIDE DEF f1
  <2>3. Fresh = {end}
    BY <1>1, <1>3, <2>1, FreshIs
  <2> QED
    BY <1>1, <2>1, <2>2, <2>3, StaysPush
<1>5. CASE BeginBlock
  <2>1. open' = Append(open, f2) /\ blocks' = blocks
    BY <1>5 DEF BeginBlock
  <2>2. f2 \in FrameType /\ Owner(f2) = NoBlock /\ Held(f2) = {}
    BY <1>2 DEF Frame, FrameType, BodyKinds, NoBlock, Owner, Held
  <2> HIDE DEF f2
  <2>3. Fresh = {}
    BY <2>1, FreshNone
  <2> QED
    BY <1>1, <2>1, <2>2, <2>3, StaysPush
<1> QED
  BY <1>4, <1>5

LEMMA ClosedBlocks ==
  ASSUME IInv, phase = "body", NEW to \in Ids(blocks), ~blocks[to].sealed
  PROVE  CloseBody(blocks, to) \in [Ids(blocks) -> Block]
<1> DEFINE h == CloseBody(blocks, to)
<1>1. TypeOK /\ Consistent(blocks) /\ cur \in Ids(blocks) /\ Top.mark \in Nat
  BY BodyFacts
<1>2. Edits(blocks, h, {cur}, {}) /\ Len(h) = Len(blocks)
  BY <1>1, CloseBodyEdits
<1> HIDE DEF h
<1>3. Consistent(h) /\ Ids(h) = Ids(blocks)
  BY <1>2, EditsBounds DEF Ids
<1>4. h \in [Ids(blocks) -> Block]
  BY <1>3, GraphFacts
<1> QED
  BY <1>4 DEF h

LEMMA StaysEndBody ==
  ASSUME IInv, IInv', Kept, EndShort \/ (EndThen /\ Top.alt = NoBlock) \/ EndElse \/ EndSwitch
  PROVE  Stays(NoBlock)
<1> DEFINE end == Top.end
           D == Ids(blocks)
<1>1. /\ phase = "body" /\ open' = Pop
      /\ Top.kind \in {"short", "then", "else", "switch", "default"}
      /\ Top.kind = "then" => Top.alt = NoBlock
  BY DEF EndShort, EndThen, EndElse, EndSwitch, InBody
<1>2. /\ TypeOK /\ cur \in D /\ Top.mark \in 0 .. Len(items) /\ count \in 0 .. Len(items)
      /\ end \in D /\ ~blocks[end].sealed /\ Held(Top) = {end}
  BY <1>1, BodyFacts DEF Shape, Held
<1>3. blocks \in [D -> Block] /\ D \in IdSets
  BY <1>2, GraphFacts DEF IdSets, TypeOK
<1>4. PICK n \in {count, Top.mark}, g \in {CloseBody(blocks, end), Br(blocks, cur, end), blocks} :
         StartBlock(Join(g), end, n)
  BY DEF EndShort, EndThen, EndElse, EndSwitch, Join
<1>5. g \in [D -> Block]
  BY <1>1, <1>2, <1>3, BrTerm, ClosedBlocks
<1>6. StartBlock(CloseUnreached(Seal(g, end), end), end, n)
  BY <1>4 DEF Join
<1> HIDE DEF end, D
<1>7. cur' = end /\ Ids(blocks') = D /\ blocks'[end].sealed
  BY <1>2, <1>5, <1>6, TakenSealed
<1>8. Fresh = {}
  BY <1>7, FreshNone DEF D
<1> QED
  BY <1>1, <1>2, <1>7, <1>8, StaysPop DEF Near

LEMMA StaysEndLoop ==
  ASSUME IInv, IInv', Kept, EndArray \/ EndWhile
  PROVE  Stays(NoBlock)
<1> DEFINE begin == Top.begin
           end == Top.end
           D == Ids(blocks)
<1>1. /\ phase = "body" /\ open' = Pop /\ Top.kind \in {"array", "while"}
  BY DEF EndArray, EndWhile, InBody
<1>2. /\ TypeOK /\ cur \in D /\ Top.mark \in 0 .. Len(items) /\ count \in 0 .. Len(items)
      /\ end \in D /\ begin \in D /\ ~blocks[begin].sealed
      /\ end \in Held(Top) /\ Held(Top) \subseteq {begin, end}
  BY <1>1, BodyFacts DEF Shape, Held
<1>3. blocks \in [D -> Block] /\ D \in IdSets
  BY <1>2, GraphFacts DEF IdSets, TypeOK
<1>4. PICK n \in {count, Top.mark}, g \in {CloseBody(blocks, begin), Br(blocks, cur, begin)} :
         StartBlock(SealAll(g, {begin, end}), end, n)
  BY DEF EndArray, EndWhile
<1>5. g \in [D -> Block]
  BY <1>1, <1>2, <1>3, BrTerm, ClosedBlocks
<1> HIDE DEF begin, end, D
<1> DEFINE bs == {begin, end}
<1>6. StartBlock(SealAll(g, bs), end, n)
  BY <1>4
<1> HIDE DEF bs
<1>7. /\ cur' = end /\ Ids(blocks') = D
      /\ \A a \in D : a \in bs \/ g[a].sealed => blocks'[a].sealed
  BY <1>2, <1>5, <1>6, AllSealed
<1>8. blocks'[begin].sealed /\ blocks'[end].sealed
  BY <1>2, <1>7 DEF bs
<1>9. Fresh = {}
  BY <1>7, FreshNone DEF D
<1> QED
  BY <1>1, <1>2, <1>7, <1>8, <1>9, StaysPop DEF Near

LEMMA StaysEndFor ==
  ASSUME IInv, IInv', Kept, EndFor
  PROVE  Stays(NoBlock)
<1> DEFINE step == Top.step
           begin == Top.begin
           end == Top.end
           p == Pending(Top.mark)
           closed == CloseBody(blocks, step)
           g1 == Seal(closed, step)
           g2 == TakenUp(g1, step, p)
           g3 == Br(g2, step, begin)
           bs == {begin, end}
           D == Ids(blocks)
<1>1. /\ phase = "body" /\ Top.kind = "for" /\ open' = Pop
      /\ StartBlock(SealAll(g3, bs), end, Top.mark)
  BY DEF EndFor, InBody, TakenUp
<1>2. /\ TypeOK /\ Top.mark \in 0 .. Len(items)
      /\ step \in D /\ end \in D /\ begin \in D /\ ~blocks[step].sealed
      /\ Held(Top) = {begin, step, end}
  BY <1>1, BodyFacts DEF Shape, Held
<1>3. D \in IdSets /\ p \in Seq(Nat)
  BY <1>2, GraphFacts, PendingIsList DEF IdSets, TypeOK
<1>4. closed \in [D -> Block]
  BY <1>1, <1>2, ClosedBlocks
<1>a. blocks'[step].sealed
  BY ForSealsStep
<1> HIDE DEF closed, p, D, step, begin, end
<1>5. g1 \in [D -> Block]
  BY <1>2, <1>4, SealUpdate
<1> HIDE DEF g1
<1>6. g2 \in [D -> Block]
  BY <1>2, <1>3, <1>5, TakenTerm
<1> HIDE DEF g2
<1>7. g3 \in [D -> Block]
  BY <1>2, <1>3, <1>6, BrTerm
<1> HIDE DEF g3, bs
<1>8. /\ cur' = end /\ Ids(blocks') = D
      /\ \A a \in D : a \in bs \/ g3[a].sealed => blocks'[a].sealed
  BY <1>1, <1>2, <1>7, AllSealed
<1>9. blocks'[begin].sealed /\ blocks'[end].sealed
  BY <1>2, <1>8 DEF bs
<1>10. Fresh = {}
  BY <1>8, FreshNone DEF D
<1> QED
  BY <1>1, <1>2, <1>8, <1>9, <1>10, <1>a, StaysPop DEF Near

\* The construct goes on with the block it kept for its other part.
LEMMA StaysTakeAlt ==
  ASSUME IInv, IInv', Kept, (EndThen /\ Top.alt # NoBlock) \/ EndCase \/ EnterWhile
  PROVE  Stays(NoBlock)
<1> DEFINE alt == Top.alt
           end == Top.end
           D == Ids(blocks)
           f1 == [Top EXCEPT !.kind = "else", !.alt = NoBlock, !.tight = {}]
           f2 == [Top EXCEPT !.kind = "switch", !.alt = NoBlock, !.tight = {}]
           f3 == [Top EXCEPT !.kind = "while", !.mark = count, !.alt = NoBlock]
<1>1. phase = "body" /\ Top.kind \in {"then", "case", "head"} /\ alt # NoBlock
  <2>1. phase = "body" /\ Top.kind \in {"then", "case", "head"}
    BY DEF EndThen, EndCase, EnterWhile, InBody
  <2>2. Shape(Top)
    BY <2>1, BodyFacts
  <2> QED
    BY <2>1, <2>2 DEF EndThen, EndCase, EnterWhile, Shape
<1>2. /\ TypeOK /\ cur \in D /\ Top.mark \in 0 .. Len(items) /\ count \in 0 .. Len(items)
      /\ end \in D /\ alt \in D /\ ~blocks[end].sealed /\ alt \in Held(Top)
      /\ Top \in FrameType /\ Shape(Top) /\ count \in Nat
  BY <1>1, BodyFacts DEF Shape, Held
<1>3. blocks \in [D -> Block] /\ D \in IdSets
  BY <1>2, GraphFacts DEF IdSets, TypeOK
<1>4. PICK f \in {f1, f2, f3}, n \in {count, Top.mark},
           g \in {CloseBody(blocks, end), CondBr(blocks, cur, alt, end)} :
         StartBlock(Seal(g, alt), alt, n) /\ open' = Swap(f)
  BY <1>1 DEF EndThen, EndCase, EnterWhile
<1>5. g \in [D -> Block]
  BY <1>1, <1>2, <1>3, CondBrTerm, ClosedBlocks
<1>6. f1 \in FrameType /\ Held(f1) = Held(Top) \ {alt} /\ Owner(f1) = NoBlock
  BY <1>2, <1>1 DEF FrameType, BodyKinds, NoBlock, Owner, Held, Shape
<1>7. f2 \in FrameType /\ Held(f2) = Held(Top) \ {alt} /\ Owner(f2) = NoBlock
  BY <1>2, <1>1 DEF FrameType, BodyKinds, NoBlock, Owner, Held, Shape
<1>8. f3 \in FrameType /\ Held(f3) = Held(Top) \ {alt} /\ Owner(f3) = NoBlock
  BY <1>2, <1>1 DEF FrameType, BodyKinds, NoBlock, Owner, Held, Shape
<1> HIDE DEF f1, f2, f3, alt, end, D
<1>9. f \in FrameType /\ Held(f) = Held(Top) \ {alt} /\ Owner(f) = NoBlock
  BY <1>6, <1>7, <1>8
<1>10. cur' = alt /\ Ids(blocks') = D /\ blocks'[alt].sealed
  BY <1>2, <1>4, <1>5, TakenSealed
<1>11. Fresh = {}
  BY <1>10, FreshNone DEF D
<1>12. cur' \in Near
  BY <1>2, <1>10 DEF Near
<1>13. \A b \in Fresh \cup Held(Top) : blocks'[b].sealed \/ b \in Held(f)
  BY <1>9, <1>10, <1>11
<1> QED
  BY <1>1, <1>4, <1>9, <1>12, <1>13, StaysSwap

LEMMA StaysBeginCase ==
  ASSUME IInv, IInv', Kept, BeginCase
  PROVE  Stays(NoBlock)
<1> DEFINE body == Len(blocks) + 1
           next == Len(blocks) + 2
           f == [Top EXCEPT !.kind = "case", !.alt = next]
           g == WithBlocks(blocks, 2)
<1>1. /\ phase = "body" /\ Top.kind = "switch" /\ open' = Swap(f)
      /\ StartBlock(Seal(CondBr(g, cur, body, next), body), body, count)
  BY DEF BeginCase
<1>2. /\ (Len(blocks) + 1) .. (Len(blocks) + 2) \subseteq Ids(g) /\ Len(blocks) \in Nat
      /\ Top \in FrameType /\ Shape(Top)
  BY <1>1, Newer, BodyFacts
<1>3. /\ (Len(blocks) + 1) .. (Len(blocks) + 2) = {body, next}
      /\ {body, next} \subseteq Nat \ {NoBlock}
  BY <1>2 DEF NoBlock
<1>4. body \in Ids(g) /\ next \in Ids(g)
  <2> HIDE DEF body, next, g
  <2> QED
    BY <1>2, <1>3
<1> HIDE DEF body, next, g
<1>5. cur' = body /\ blocks'[body].sealed /\ Fresh = {body, next}
  <2>1. /\ cur' = body /\ blocks'[body].sealed
        /\ Fresh = (Len(blocks) + 1) .. (Len(blocks) + 2)
    BY <1>1, <1>4, ForkSealed DEF g
  <2> QED
    BY <1>3, <2>1
<1>6. f \in FrameType /\ Owner(f) = NoBlock
  BY <1>1, <1>2, <1>3 DEF FrameType, BodyKinds, Owner
<1>7. Held(f) = Held(Top) \cup {next}
  BY <1>1, <1>2, <1>3 DEF FrameType, NoBlock, Held, Shape
<1> HIDE DEF f
<1>8. Held(f) \subseteq Fresh \cup Held(Top) /\ cur' \in Near
  BY <1>5, <1>7 DEF Near
<1>9. \A b \in Fresh \cup Held(Top) : blocks'[b].sealed \/ b \in Held(f)
  BY <1>5, <1>7
<1> QED
  BY <1>1, <1>6, <1>8, <1>9, StaysSwap

LEMMA StaysPlain ==
  ASSUME IInv, IInv', Kept, BeginDefault \/ EndBlock
  PROVE  Stays(NoBlock)
<1>1. phase = "body" /\ cur' = cur /\ blocks' = blocks
  BY DEF BeginDefault, EndBlock, InBody
<1>2. Top \in FrameType /\ Shape(Top) /\ Fresh = {}
  BY <1>1, BodyFacts, FreshNone
<1>3. cur' \in Near
  BY <1>1 DEF Near
<1>4. CASE BeginDefault
  <2> DEFINE f == [Top EXCEPT !.kind = "default"]
  <2>1. open' = Swap(f)
    BY <1>4 DEF BeginDefault
  <2>2. f \in FrameType /\ Owner(f) = NoBlock /\ Held(f) = Held(Top)
    BY <1>2 DEF FrameType, BodyKinds, Owner, Held
  <2> HIDE DEF f
  <2> QED
    BY <1>1, <1>2, <1>3, <2>1, <2>2, StaysSwap
<1>5. CASE EndBlock
  <2>1. Top.kind = "block" /\ open' = Pop
    BY <1>5 DEF EndBlock
  <2>2. Held(Top) = {}
    BY <1>2, <2>1 DEF Held, Shape
  <2> QED
    BY <1>1, <1>2, <1>3, <2>1, <2>2, StaysPop
<1> QED
  BY <1>4, <1>5

LEMMA StaysLeaving ==
  ASSUME IInv, IInv', Kept, Leaving
  PROVE  Stays(NoBlock)
<1>1. PICK s \in {"exit", "return", "loopexit"} : Stmt(s)
  BY DEF Leaving, NoReturnCall, Return, Break, Continue, LoopExitOutsideLoop
<1>2. phase = "body" /\ open' \in {open, Branched}
  BY <1>1, StmtFacts DEF Leaving, NoReturnCall, Return, Break, Continue, LoopExitOutsideLoop
<1>3. CASE LoopExitOutsideLoop
  <2>1. blocks' = blocks /\ cur' = cur
    BY <1>3 DEF LoopExitOutsideLoop
  <2>2. Fresh = {}
    BY <2>1, FreshNone
  <2> QED
    BY <1>2, <2>1, <2>2, StaysKeep
<1>4. CASE NoReturnCall \/ Return
  <2> DEFINE g == RunDefers(blocks, 0)
  <2>1. PICK h \in {Ret(g, cur), Unreachable(g, cur)} : StartDeadBlock(h, 0)
    BY <1>4 DEF NoReturnCall, Return
  <2>2. Made(blocks, g, {}, {}, {}) /\ 0 \in 0 .. Len(items)
    BY <1>1, StmtFacts
  <2> HIDE DEF g
  <2>3. Made(blocks, h, {cur}, {}, {})
    BY <1>1, <2>2, StmtFacts, MadeLeaf
  <2>4. Fresh = {cur'} /\ blocks'[cur'].sealed
    BY <2>1, <2>2, <2>3, DeadSealed
  <2> QED
    BY <1>2, <2>4, StaysKeep
<1>5. CASE Break \/ Continue
  <2> DEFINE g == RunDefers(blocks, Loop.mark)
  <2>1. PICK to \in {Loop.end, Loop.step} : LeaveLoop(to) /\ Loops # {}
    BY <1>5 DEF Break, Continue
  <2>2. /\ Loop.mark \in 0 .. Len(items) /\ Loop.mark \in Nat
        /\ to \in Ids(blocks) /\ ~blocks[to].sealed
    BY <1>2, <2>1, LoopFacts
  <2>3. StartDeadBlock(Br(g, cur, to), Loop.mark)
    BY <2>1 DEF LeaveLoop
  <2>4. Made(blocks, g, {}, {}, {})
    BY <1>1, <2>2, StmtFacts
  <2> HIDE DEF g
  <2>5. Made(blocks, Br(g, cur, to), {cur}, {}, {})
    BY <1>1, <2>2, <2>4, StmtFacts, MadeBr
  <2>6. Fresh = {cur'} /\ blocks'[cur'].sealed
    BY <2>2, <2>3, <2>5, DeadSealed
  <2> QED
    BY <1>2, <2>6, StaysKeep
<1> QED
  BY <1>3, <1>4, <1>5 DEF Leaving

LEMMA StaysFixed ==
  ASSUME IInv, IInv', Kept,
         Defer \/ EndFn \/ \E l \in Label : SkipConstruct(l)
  PROVE  Stays(NoBlock)
<1>1. phase = "body" /\ cur' = cur /\ open' \in {open, Branched}
  BY DEF Defer, EndFn, SkipConstruct, Stmt, InBody
<1>2. Len(blocks') = Len(blocks)
  <2>1. CASE Defer
    <3>1. blocks \in Seq(Block)
      BY GraphFacts DEF IInv, TypeOK
    <3> DEFINE e(x) == Append(x, Len(depthOf) + 1)
    <3>2. blocks' = [blocks EXCEPT ![cur].pend = e(@)]
      BY <2>1 DEF Defer
    <3> HIDE DEF e
    <3>3. DOMAIN blocks' = DOMAIN blocks
      BY <3>2
    <3>4. blocks' \in Seq(Block)
      BY GraphFacts DEF IInv, TypeOK
    <3> QED
      BY <3>1, <3>3, <3>4
  <2>2. CASE EndFn
    BY <2>2, EndFnEffect
  <2>3. CASE \E l \in Label : SkipConstruct(l)
    BY <2>3 DEF SkipConstruct
  <2> QED
    BY <2>1, <2>2, <2>3
<1>3. Fresh = {}
  BY <1>2, FreshNone DEF Ids
<1> QED
  BY <1>1, <1>3, StaysKeep

-----------------------------------------------------------------------------
(* The variable of the construct a step opens, and the edges it makes. *)

Turn(x0) ==
  \/ BeginFor   /\ ssa' = ForSSA   /\ x0 = Len(blocks) + 1
  \/ BeginArray /\ ssa' = ArraySSA /\ x0 = Len(blocks) + 1
  \/ BeginShort /\ ssa' = ShortSSA /\ x0 = Len(blocks) + 2
  \/ /\ x0 = NoBlock
     /\ \/ EndFor   /\ ssa' = StepSSA
        \/ EndArray /\ ssa' = ElemSSA
        \/ EndShort /\ ssa' = JoinSSA
        \/ NoHidden /\ ssa' = Completed(Added, SealedNow)

LEMMA SomeTurn ==
  ASSUME SSANext
  PROVE  \E x0 : Turn(x0)
<1>1. CASE BeginFor /\ ssa' = ForSSA
  <2>1. Turn(Len(blocks) + 1)
    BY <1>1 DEF Turn
  <2> QED
    BY <2>1
<1>2. CASE BeginArray /\ ssa' = ArraySSA
  <2>1. Turn(Len(blocks) + 1)
    BY <1>2 DEF Turn
  <2> QED
    BY <2>1
<1>3. CASE BeginShort /\ ssa' = ShortSSA
  <2>1. Turn(Len(blocks) + 2)
    BY <1>3 DEF Turn
  <2> QED
    BY <2>1
<1>4. CASE \/ EndFor   /\ ssa' = StepSSA
           \/ EndArray /\ ssa' = ElemSSA
           \/ EndShort /\ ssa' = JoinSSA
           \/ NoHidden /\ ssa' = Completed(Added, SealedNow)
  <2>1. Turn(NoBlock)
    BY <1>4 DEF Turn
  <2> QED
    BY <2>1
<1> QED
  BY <1>1, <1>2, <1>3, <1>4 DEF SSANext

LEMMA TurnStays ==
  ASSUME OneStep, NEW x0, Turn(x0), Next, LabelBlocks' = {}
  PROVE  Stays(x0)
<1>1. IInv /\ IInv' /\ Kept
  BY DEF OneStep
<1>2. Jump => \E l \in Label : SkipConstruct(l)
  BY <1>1, LabelsKept
<1>3. CASE BeginFor /\ x0 = Len(blocks) + 1
  BY <1>1, <1>3, StaysBeginFor
<1>4. CASE BeginArray /\ x0 = Len(blocks) + 1
  BY <1>1, <1>4, StaysBeginArray
<1>5. CASE BeginShort /\ x0 = Len(blocks) + 2
  BY <1>1, <1>5, StaysBeginShort
<1>6. CASE x0 = NoBlock
  <2>1. \/ EndFor \/ EndArray \/ EndShort \/ NoHidden
        \/ (BeginFor /\ x0 = Len(blocks) + 1) \/ (BeginArray /\ x0 = Len(blocks) + 1)
        \/ (BeginShort /\ x0 = Len(blocks) + 2)
    BY DEF Turn
  <2>2. EndFor \/ EndArray \/ EndShort => Stays(NoBlock)
    BY <1>1, StaysEndFor, StaysEndLoop, StaysEndBody
  <2>3. NoHidden => Stays(NoBlock)
    <3>1. BoundsCheck \/ Leaving \/ Defer \/ Jump \/ EndFn => Stays(NoBlock)
      BY <1>1, <1>2, StaysBoundsCheck, StaysLeaving, StaysFixed
    <3>2. If => Stays(NoBlock)
      BY <1>1, StaysBeginIf, StaysTakeAlt, StaysEndBody DEF If
    <3>3. While => Stays(NoBlock)
      BY <1>1, StaysBeginWhile, StaysTakeAlt, StaysEndLoop DEF While
    <3>4. Switch => Stays(NoBlock)
      BY <1>1, StaysOpen, StaysBeginCase, StaysTakeAlt, StaysPlain, StaysEndBody DEF Switch
    <3>5. BareBlock => Stays(NoBlock)
      BY <1>1, StaysOpen, StaysPlain DEF BareBlock
    <3> QED
      BY <3>1, <3>2, <3>3, <3>4, <3>5 DEF NoHidden
  <2> QED
    BY <1>3, <1>4, <1>5, <1>6, <2>1, <2>2, <2>3
<1> QED
  BY <1>3, <1>4, <1>5, <1>6 DEF Turn

\* Blocks that do not exist make no edges.
LEMMA EdgesWithin ==
  ASSUME NEW A, NewEdges(A)
  PROVE  NewEdges(A \cap DOMAIN blocks')
  BY DEF NewEdges

LEMMA TurnEdges ==
  ASSUME OneStep, NoLabels, NEW x0, Turn(x0), Moves(x0), Next, LabelBlocks' = {}
  PROVE  \E A : NewEdges(A) /\ A \subseteq Near /\ (x0 # NoBlock => A \subseteq {cur} \cup Fresh)
<1>1. IInv /\ IInv' /\ Kept /\ phase = "body" /\ LabelBlocks = {}
      /\ (Jump => \E l \in Label : SkipConstruct(l))
  BY BodyNext, LabelsKept DEF OneStep
<1>2. ScopeInv /\ FlowInv
  BY <1>1 DEF NoLabels
<1>3. PICK E \in Tables : Lists(E)
  BY <1>1, <1>2 DEF FlowInv, Lists
<1>4. /\ DOMAIN blocks = 1..Len(blocks) /\ DOMAIN blocks = Ids(blocks) /\ Len(blocks) \in Nat
      /\ DOMAIN blocks' = Ids(blocks')
  BY OneStepFacts
<1>5. CASE x0 # NoBlock
  <2>1. x0 \in Fresh
    BY <1>5 DEF Moves
  <2>2. CASE BeginFor /\ x0 = Len(blocks) + 1
    <3>1. NewEdges({cur, Len(blocks) + 1})
      BY <1>1, <1>2, <1>3, <2>2, FlowBeginFor
    <3>2. NewEdges({cur, x0})
      BY <2>2, <3>1
    <3> QED
      BY <2>1, <3>2 DEF Near
  <2>3. CASE BeginArray /\ x0 = Len(blocks) + 1
    <3>1. NewEdges({cur, Len(blocks) + 1})
      BY <1>1, <1>2, <1>3, <2>3, FlowBeginArray
    <3>2. NewEdges({cur, x0})
      BY <2>3, <3>1
    <3> QED
      BY <2>1, <3>2 DEF Near
  <2>4. CASE BeginShort
    <3>1. NewEdges({cur})
      BY <1>1, <1>2, <1>3, <2>4, FlowBeginShort
    <3> QED
      BY <3>1 DEF Near
  <2> QED
    BY <1>5, <2>2, <2>3, <2>4 DEF Turn
<1>6. CASE x0 = NoBlock
  <2> SUFFICES \E A : NewEdges(A) /\ A \subseteq Near
    BY <1>6
  <2>1. EdgesOfStep
    <3>1. CASE Jump
      <4>1. NewEdges({cur})
        BY <1>1, <1>2, <1>3, <3>1, FlowFixedSteps
      <4> QED
        BY <4>1 DEF EdgesOfStep
    <3>2. CASE ~Jump
      BY <1>1, <1>2, <1>3, <3>2, FlowNext
    <3> QED
      BY <3>1, <3>2
  <2>2. CASE NewEdges({cur})
    BY <2>2 DEF Near
  <2>3. CASE NewEdges({cur, Len(blocks) + 1})
    <3> DEFINE A == {cur, Len(blocks) + 1} \cap DOMAIN blocks'
    <3>1. NewEdges(A)
      BY <2>3, EdgesWithin
    <3>2. Len(blocks) + 1 \notin Ids(blocks)
      BY <1>4
    <3>3. A \subseteq {cur} \cup Fresh
      BY <1>4, <3>2 DEF Fresh
    <3> HIDE DEF A
    <3> QED
      BY <3>1, <3>3 DEF Near
  <2>4. CASE EndFor /\ NewEdges({cur, Top.step})
    <3>1. Top.step \in Held(Top)
      <4>1. Top.kind = "for" /\ Shape(Top)
        BY <1>1, <2>4, BodyFacts DEF EndFor
      <4> QED
        BY <4>1 DEF Shape, Held
    <3> QED
      BY <2>4, <3>1 DEF Near
  <2> QED
    BY <2>1, <2>2, <2>3, <2>4 DEF EdgesOfStep
<1> QED
  BY <1>5, <1>6

-----------------------------------------------------------------------------
(* The calls of each step. *)

\* A loop over an array or over the elements of one.
LEMMA LoopNicely ==
  ASSUME NEW X, NEW R, NEW A, StartOf(X, R, A), NEW x0, x0 = Len(blocks) + 1,
         A \subseteq {cur} \cup Fresh, Moves(x0), BeginFor \/ BeginArray
  PROVE  /\ Nicely(blocks', X, Widen(X, R, x0), ForSSA)
         /\ Nicely(blocks', X, Widen(X, R, x0), ReadIn(Before({}), ForSSA, Len(blocks) + 2, x0))
<1> DEFINE W == Widen(X, R, x0)
           S == SealedNow
           h == Partly(blocks', S)
           d == Define(Added, cur, x0)
           e == ReadIn(h, d, x0, x0)
           f == Completed(e, S)
<1>1. /\ OneStep /\ DOMAIN blocks' \subseteq X /\ Len(blocks) \in Nat
      /\ DOMAIN blocks' = Ids(blocks')
  BY OneStepFacts DEF StartOf
<1>2. cur' = Len(blocks) + 2
  BY DEF BeginFor, BeginArray, StartBlock
<1>3. x0 \in Fresh /\ cur' \in Fresh
  BY <1>1 DEF Moves, NoBlock
<1>4. x0 \in DOMAIN blocks' /\ cur' \in DOMAIN blocks' /\ x0 \in X
  BY <1>1, <1>3 DEF Fresh
<1>5. x0 \in W[x0] /\ cur' \in W[x0]
  BY <1>3, <1>4 DEF Widen
<1>6. Nicely(blocks', X, W, d)
  BY <1>4, StartNice DEF Nicely
<1>7. Rooted(blocks') /\ Graph(blocks') /\ Partly(blocks', {}) = blocks'
  BY <1>1, RootedFacts DEF OneStep
<1>8. Graph(h) /\ DOMAIN h = DOMAIN blocks'
  BY <1>7, PartlyIs
<1>9. ForSSA = f
  <2>1. Before(S) = h
    BY BeforeIs
  <2>2. x0 = Len(blocks) + 1
    OBVIOUS
  <2> QED
    BY <2>1, <2>2 DEF ForSSA
<1>10. Before({}) = blocks'
  BY <1>7, BeforeIs
<1>11. S \subseteq DOMAIN blocks'
  BY DEF SealedNow
<1> HIDE DEF S, W, d
<1>12. Nicely(h, X, W, d)
  BY <1>6, <1>7, PartlyNice
<1>13. Nicely(h, X, W, e) => Nicely(blocks', X, W, e)
  BY <1>7, PartlyNice
<1> HIDE DEF h
<1>14. Nicely(h, X, W, e)
  BY <1>4, <1>5, <1>8, <1>12, ReadNicely
<1> HIDE DEF e
<1>15. Nicely(blocks', X, W, f)
  BY <1>7, <1>11, <1>13, <1>14, AllCompleted
<1> HIDE DEF f
<1>16. Nicely(blocks', X, W, ReadIn(blocks', f, cur', x0))
  BY <1>4, <1>5, <1>7, <1>15, ReadNicely
<1> QED
  BY <1>2, <1>9, <1>10, <1>15, <1>16 DEF W

\* The step of a for.
LEMMA StepNicely ==
  ASSUME NEW X, NEW R, NEW A, StartOf(X, R, A), EndFor
  PROVE  Nicely(blocks', X, Widen(X, R, NoBlock), StepSSA)
<1> DEFINE W == Widen(X, R, NoBlock)
           step == Top.step
           begin == Top.begin
           Q == SealedNow \ {step}
           k == Partly(blocks', Q)
           b == SealIn(k, Added, step)
           c == ReadIn(k, b, step, begin)
           d == Define(c, step, begin)
<1>1. /\ OneStep /\ DOMAIN blocks' \subseteq X /\ DOMAIN blocks \subseteq DOMAIN blocks'
      /\ DOMAIN blocks = Ids(blocks) /\ IInv /\ phase = "body"
  BY OneStepFacts DEF StartOf, OneStep
<1>2. Top.kind = "for" /\ Shape(Top) /\ \A a \in Held(Top) : a \in Ids(blocks)
  BY <1>1, BodyFacts DEF EndFor
<1>3. step \in Held(Top) /\ begin \in Held(Top) /\ Owner(Top) = begin
  BY <1>2 DEF Shape, Held, Owner
<1>4. step \in DOMAIN blocks' /\ begin \in X
  BY <1>1, <1>2, <1>3
<1>5. step \in W[begin]
  <2>1. Len(open) \in DOMAIN open /\ Top = open[Len(open)] /\ Len(open) >= Len(open)
    BY <1>1, OpenFacts DEF IInv
  <2>2. Touches(open[Len(open)], R[begin], begin)
    BY <1>3, <2>1 DEF Touches
  <2>3. Held(open[Len(open)]) \subseteq R[begin]
    BY <1>4, <2>1, <2>2 DEF StartOf, Regions
  <2> QED
    BY <1>3, <1>4, <2>1, <2>3 DEF Widen
<1>6. Nicely(blocks', X, W, Added)
  BY StartNice DEF Nicely
<1>7. Rooted(blocks')
  BY <1>1 DEF OneStep
<1>8. Graph(k) /\ DOMAIN k = DOMAIN blocks'
  BY <1>7, PartlyIs
<1>9. StepSSA = Completed(d, Q)
  <2>1. Before(Q) = k
    BY BeforeIs
  <2> QED
    BY <2>1 DEF StepSSA
<1>10. Q \subseteq DOMAIN blocks'
  BY DEF SealedNow
<1> HIDE DEF Q, W, step, begin
<1>11. Nicely(k, X, W, Added)
  BY <1>6, <1>7, PartlyNice
<1>12. Nicely(k, X, W, d) => Nicely(blocks', X, W, d)
  BY <1>7, PartlyNice
<1> HIDE DEF k
<1>13. step \in DOMAIN k
  BY <1>4, <1>8
<1>14. Nicely(k, X, W, b)
  BY <1>8, <1>11, <1>13, SealNicely
<1> HIDE DEF b
<1>15. Nicely(k, X, W, c)
  BY <1>4, <1>5, <1>8, <1>13, <1>14, ReadNicely
<1> HIDE DEF c
<1>16. Nicely(k, X, W, d)
  BY <1>4, <1>8, <1>13, <1>15, DefineNicely
<1> HIDE DEF d
<1>17. Nicely(blocks', X, W, Completed(d, Q))
  BY <1>7, <1>10, <1>12, <1>16, AllCompleted
<1> QED
  BY <1>9, <1>17 DEF W

\* The end of an array's loop, and that of the right operand.
LEMMA WriteNicely ==
  ASSUME NEW X, NEW R, NEW A, StartOf(X, R, A), NEW x \in X
  PROVE  Nicely(blocks', X, Widen(X, R, NoBlock), Completed(Define(Added, cur, x), SealedNow))
<1> DEFINE W == Widen(X, R, NoBlock)
           d == Define(Added, cur, x)
<1>1. /\ OneStep /\ DOMAIN blocks \subseteq DOMAIN blocks' /\ cur \in DOMAIN blocks
      /\ Rooted(blocks') /\ Graph(blocks')
  BY OneStepFacts, RootedFacts DEF StartOf, OneStep, IInv, TypeOK
<1>2. Nicely(blocks', X, W, Added)
  BY StartNice DEF Nicely
<1> HIDE DEF W
<1>3. Nicely(blocks', X, W, d)
  BY <1>1, <1>2, DefineNicely
<1> HIDE DEF d
<1>4. SealedNow \subseteq DOMAIN blocks'
  BY DEF SealedNow
<1>5. Nicely(blocks', X, W, Completed(d, SealedNow))
  BY <1>1, <1>3, <1>4, AllCompleted
<1> QED
  BY <1>5 DEF d, W

LEMMA JoinNicely ==
  ASSUME NEW X, NEW R, NEW A, StartOf(X, R, A), EndShort
  PROVE  Nicely(blocks', X, Widen(X, R, NoBlock), JoinSSA)
<1> DEFINE W == Widen(X, R, NoBlock)
           end == Top.end
           d == Completed(Define(Added, cur, end), SealedNow)
<1>1. /\ OneStep /\ DOMAIN blocks' \subseteq X /\ DOMAIN blocks \subseteq DOMAIN blocks'
      /\ DOMAIN blocks = Ids(blocks) /\ IInv /\ phase = "body"
  BY OneStepFacts DEF StartOf, OneStep
<1>2. Top.kind = "short" /\ Shape(Top) /\ \A a \in Held(Top) : a \in Ids(blocks)
  BY <1>1, BodyFacts DEF EndShort
<1>3. end \in Held(Top) /\ Owner(Top) = end
  BY <1>2 DEF Shape, Held, Owner
<1>4. end \in DOMAIN blocks' /\ end \in X
  BY <1>1, <1>2, <1>3
<1>5. end \in W[end]
  <2>1. Len(open) \in DOMAIN open /\ Top = open[Len(open)] /\ Len(open) >= Len(open)
    BY <1>1, OpenFacts DEF IInv
  <2>2. Touches(open[Len(open)], R[end], end)
    BY <1>3, <2>1 DEF Touches
  <2>3. Held(open[Len(open)]) \subseteq R[end]
    BY <1>4, <2>1, <2>2 DEF StartOf, Regions
  <2> QED
    BY <1>3, <1>4, <2>1, <2>3 DEF Widen
<1>6. Graph(blocks') /\ Before({}) = blocks'
  BY <1>1, RootedFacts, BeforeIs DEF OneStep
<1>7. JoinSSA = IF blocks'[end].preds = <<>> THEN d ELSE ReadIn(blocks', d, end, end)
  BY <1>6 DEF JoinSSA
<1>8. Nicely(blocks', X, W, d)
  BY <1>4, WriteNicely
<1> HIDE DEF end, d, W
<1>9. Nicely(blocks', X, W, ReadIn(blocks', d, end, end))
  BY <1>4, <1>5, <1>6, <1>8, ReadNicely
<1> QED
  BY <1>7, <1>8, <1>9 DEF W

LEMMA TurnNicely ==
  ASSUME NEW X, NEW R, NEW A, StartOf(X, R, A), NEW x0, Turn(x0), Moves(x0),
         x0 # NoBlock => A \subseteq {cur} \cup Fresh
  PROVE  Nicely(blocks', X, Widen(X, R, x0), ssa')
<1>1. /\ OneStep /\ DOMAIN blocks' \subseteq X /\ Len(blocks) \in Nat
      /\ DOMAIN blocks = Ids(blocks) /\ DOMAIN blocks' = Ids(blocks')
      /\ DOMAIN blocks \subseteq DOMAIN blocks' /\ IInv /\ phase = "body"
      /\ Rooted(blocks') /\ SealedNow \subseteq DOMAIN blocks'
  BY OneStepFacts DEF StartOf, OneStep, SealedNow
<1>2. CASE BeginFor /\ ssa' = ForSSA /\ x0 = Len(blocks) + 1
  <2>1. x0 # NoBlock
    BY <1>1, <1>2 DEF NoBlock
  <2> QED
    BY <1>2, <2>1, LoopNicely
<1>3. CASE BeginArray /\ ssa' = ArraySSA /\ x0 = Len(blocks) + 1
  <2>1. x0 # NoBlock /\ x0 + 1 = Len(blocks) + 2
    BY <1>1, <1>3 DEF NoBlock
  <2>2. ArraySSA = ReadIn(Before({}), ForSSA, Len(blocks) + 2, x0)
    BY <1>3, <2>1 DEF ArraySSA
  <2>3. Nicely(blocks', X, Widen(X, R, x0), ReadIn(Before({}), ForSSA, Len(blocks) + 2, x0))
    BY <1>3, <2>1, LoopNicely
  <2> QED
    BY <1>3, <2>2, <2>3
<1>4. CASE BeginShort /\ ssa' = ShortSSA /\ x0 = Len(blocks) + 2
  <2> DEFINE W == Widen(X, R, x0)
             d == Define(Added, cur, x0)
  <2>1. x0 # NoBlock
    BY <1>1, <1>4 DEF NoBlock
  <2>2. x0 \in X
    BY <1>1, <2>1 DEF Moves, Fresh
  <2>3. Nicely(blocks', X, W, d)
    BY <2>1, <2>2, StartNice DEF Nicely
  <2>4. ShortSSA = Completed(d, SealedNow)
    BY <1>4 DEF ShortSSA
  <2> HIDE DEF d, W
  <2>5. Nicely(blocks', X, W, Completed(d, SealedNow))
    BY <1>1, <2>3, AllCompleted
  <2> QED
    BY <1>4, <2>4, <2>5 DEF W
<1>5. CASE EndFor /\ ssa' = StepSSA /\ x0 = NoBlock
  BY <1>5, StepNicely
<1>6. CASE EndArray /\ ssa' = ElemSSA /\ x0 = NoBlock
  <2>1. Top.kind = "array" /\ Shape(Top) /\ \A a \in Held(Top) : a \in Ids(blocks)
    BY <1>1, <1>6, BodyFacts DEF EndArray
  <2>2. Top.begin \in Held(Top)
    BY <2>1 DEF Shape, Held
  <2>3. Top.begin \in X
    BY <1>1, <2>1, <2>2
  <2> QED
    BY <1>6, <2>3, WriteNicely DEF ElemSSA
<1>7. CASE EndShort /\ ssa' = JoinSSA /\ x0 = NoBlock
  BY <1>7, JoinNicely
<1>8. CASE ssa' = Completed(Added, SealedNow) /\ x0 = NoBlock
  <2> DEFINE W == Widen(X, R, NoBlock)
  <2>1. Nicely(blocks', X, W, Added)
    BY StartNice DEF Nicely
  <2> HIDE DEF W
  <2>2. Nicely(blocks', X, W, Completed(Added, SealedNow))
    BY <1>1, <2>1, AllCompleted
  <2> QED
    BY <1>8, <2>2 DEF W
<1> QED
  BY <1>2, <1>3, <1>4, <1>5, <1>6, <1>7, <1>8 DEF Turn

-----------------------------------------------------------------------------
(* A hidden variable is written before it is read. *)

\* There are regions that hold every search to come.
Confines(R) ==
  /\ phase = "body" => Regions(Hidden, open, cur, blocks, R)
  /\ Nicely(blocks, Hidden, R, ssa)

DefInv ==
  /\ SSAInv
  /\ LabelBlocks = {} => (phase = "body" => Claimed) /\ \E R : Confines(R)

LEMMA EmptyNice ==
  ASSUME NEW X, NEW g, g = <<[FreshBlock EXCEPT !.sealed = TRUE, !.lowered = TRUE]>>,
         NEW R, \A x \in X : R[x] = {}
  PROVE  Nice(g, X, R, EmptySSA(X))
<1> DEFINE s == EmptySSA(X)
           f == [FreshBlock EXCEPT !.sealed = TRUE, !.lowered = TRUE]
<1> HIDE DEF f
<1>1. Len(g) = 1 /\ DOMAIN g = {1}
  BY DEF f
<1>2. /\ s.vals = <<>> /\ s.defs = <<[x \in X |-> NoVal]>> /\ s.pending = <<<<>>>> /\ s.lost = FALSE
      /\ s \in SSAOf(X)
  <2>1. /\ <<>> \in Seq(Insts) /\ <<<<>>>> \in Seq(Seq(X \X Nat))
        /\ [x \in X |-> NoVal] \in [X -> Nat]
    BY DEF NoVal
  <2>2. <<[x \in X |-> NoVal]>> \in Seq([X -> Nat])
    BY <2>1
  <2> QED
    BY <2>1, <2>2 DEF EmptySSA, SSAOf
<1>3. Vals(s) = {} /\ Len(s.defs) = 1 /\ Len(s.pending) = 1
  <2>1. Len(<<>>) = 0 /\ 1..0 = {}
    OBVIOUS
  <2> QED
    BY <2>1, <1>2 DEF Vals
<1>4. (\A x \in X : s.defs[1][x] = NoVal) /\ 1..Len(s.pending[1]) = {}
  BY <1>2
<1> HIDE DEF s
<1>5. Tidy(g, X, s)
  BY <1>1, <1>2, <1>3, <1>4 DEF Tidy
<1>6. Confined(g, X, R, s)
  BY <1>1, <1>3, <1>4 DEF Confined, Fenced
<1> QED
  BY <1>5, <1>6 DEF Nice, s

LEMMA DefInit == SSAInit => DefInv
<1> SUFFICES ASSUME SSAInit PROVE DefInv
  OBVIOUS
<1> DEFINE R == [x \in Hidden |-> {}]
           f == [FreshBlock EXCEPT !.sealed = TRUE, !.lowered = TRUE]
<1>1. SSAInv /\ Init /\ ssa = EmptySSA(Hidden)
  BY SSAInvInit DEF SSAInit
<1>2. blocks = <<f>> /\ open = <<Frame>>
  BY <1>1 DEF Init
<1>3. \A x \in Hidden : R[x] = {}
  OBVIOUS
<1>4. Nice(blocks, Hidden, R, ssa)
  <2> HIDE DEF R
  <2> QED
    BY <1>1, <1>2, <1>3, EmptyNice
<1>5. Regions(Hidden, open, cur, blocks, R)
  <2>1. Held(Frame) = {} /\ Owner(Frame) = NoBlock
    BY DEF Frame, Held, Owner, NoBlock
  <2>2. DOMAIN open = {1} /\ open[1] = Frame
    <3> HIDE DEF f
    <3> DEFINE F == Frame
    <3>1. open = <<F>>
      BY <1>2
    <3> HIDE DEF F
    <3>2. DOMAIN open = {1} /\ open[1] = F
      BY <3>1
    <3> QED
      BY <3>2 DEF F
  <2>3. NoBlock \notin Hidden
    BY HiddenBlocks
  <2> HIDE DEF R
  <2> QED
    BY <1>3, <2>1, <2>2, <2>3 DEF Regions, Touches
<1>6. Claimed
  <2>1. f.sealed = TRUE
    BY DEF FreshBlock
  <2> HIDE DEF f
  <2>2. Ids(blocks) = {1} /\ blocks[1] = f
    BY <1>2 DEF Ids
  <2> QED
    BY <2>1, <2>2 DEF Claimed
<1> HIDE DEF R
<1> QED
  BY <1>1, <1>4, <1>5, <1>6 DEF DefInv, Confines, Nicely

LEMMA DefKept ==
  ASSUME DefInv, [SSANext]_bothVars
  PROVE  DefInv'
<1>1. SSAInv /\ SSAInv'
  BY SSAInvKept DEF DefInv
<1>2. CASE UNCHANGED bothVars
  <2>1. /\ blocks' = blocks /\ profile' = profile /\ open' = open /\ cur' = cur
        /\ labels' = labels /\ phase' = phase /\ ssa' = ssa
    BY <1>2 DEF bothVars, vars
  <2>2. LabelBlocks' = LabelBlocks /\ Hidden' = Hidden /\ Claimed' = Claimed
    BY <2>1 DEF LabelBlocks, Hidden, Claimed
  <2>3. \A R : Confines(R) => Confines(R)'
    BY <2>1, <2>2 DEF Confines
  <2> QED
    BY <1>1, <2>1, <2>2, <2>3 DEF DefInv
<1>3. CASE SSANext
  <2> DEFINE X == Hidden
  <2>1. Next /\ ~ssa.lost
    BY <1>3, StepIsNext DEF SSANext
  <2> SUFFICES ASSUME LabelBlocks' = {}
               PROVE  (phase' = "body" => Claimed') /\ \E R : Confines(R)'
    BY <1>1 DEF DefInv
  <2>2. IInv /\ IInv' /\ Kept /\ NoLabels /\ Sized' /\ LabelBlocks = {} /\ phase = "body"
    BY <1>1, <2>1, NextKeeps, LabelsKept, BodyNext DEF SSAInv
  <2>3. profile' = profile
    BY <2>1, ProfileKept
  <2>4. OneStep
    <3>1. Consistent(blocks) /\ Consistent(blocks')
      BY <2>2 DEF IInv, TypeOK
    <3>2. Entry /\ Entry'
      BY <1>1 DEF SSAInv
    <3> QED
      BY <2>2, <3>1, <3>2 DEF Entry, OneStep, Rooted
  <2>5. DOMAIN blocks' \subseteq Hidden
    <3>1. profile.blocks \in Nat /\ Len(blocks') <= profile.blocks
      <4>1. profile \in Profiles /\ Len(blocks') <= profile.blocks
        BY <2>2, <2>3 DEF Sized
      <4> QED
        BY <4>1, LowerProfiles
    <3>2. DOMAIN blocks' = 1..Len(blocks') /\ Len(blocks') \in Nat
      BY <2>4, OneStepFacts
    <3> QED
      BY <3>1, <3>2 DEF Hidden
  <2>6. PICK R : Regions(Hidden, open, cur, blocks, R) /\ Nice(blocks, Hidden, R, ssa)
    BY <2>1, <2>2 DEF DefInv, Confines, Nicely
  <2>7. Claimed
    BY <2>2 DEF DefInv
  <2>8. PICK x0 : Turn(x0)
    BY <1>3, SomeTurn
  <2>9. Moves(x0) /\ Claimed'
    BY <2>1, <2>4, <2>7, <2>8, TurnStays DEF Stays
  <2>10. PICK A : NewEdges(A) /\ A \subseteq Near /\ (x0 # NoBlock => A \subseteq {cur} \cup Fresh)
    BY <2>1, <2>2, <2>4, <2>8, <2>9, TurnEdges
  <2>11. X = Hidden
    OBVIOUS
  <2> HIDE DEF X
  <2>12. StartOf(X, R, A)
    BY <2>2, <2>4, <2>5, <2>6, <2>7, <2>10, <2>11 DEF StartOf
  <2> DEFINE W == Widen(X, R, x0)
  <2>13. Nicely(blocks', X, W, ssa')
    BY <2>8, <2>9, <2>10, <2>12, TurnNicely
  <2>14. Regions(X, open', cur', blocks', W)
    <3>1. Ids(blocks) \subseteq Ids(blocks')
      BY <2>4, OneStepFacts
    <3>2. NoBlock \notin X
      BY <2>11, HiddenBlocks
    <3>3. Regions(X, open, cur, blocks, R)
      BY <2>6, <2>11
    <3> QED
      BY <2>2, <2>9, <3>1, <3>2, <3>3, RegionsStep
  <2> HIDE DEF W
  <2>15. Hidden' = X
    BY <2>3, <2>11 DEF Hidden
  <2>16. PICK V : V = W
    OBVIOUS
  <2>17. Confines(V)'
    BY <2>13, <2>14, <2>15, <2>16 DEF Confines
  <2> QED
    BY <2>9, <2>17
<1> QED
  BY <1>2, <1>3

LEMMA DefInvariant ==
  ASSUME DefInv
  PROVE  DefinedBeforeRead
<1> SUFFICES ASSUME LabelBlocks = {}, NEW v \in DOMAIN ssa.vals, ssa.vals[v].kind = "zero"
             PROVE  ssa.vals[v].block # 1
  BY DEF DefinedBeforeRead
<1>1. ~ssa.lost
  <2>1. CompilerComesBack
    BY HangsInvariant DEF HangsInDeadLoopsOnly, DefInv
  <2> QED
    BY <2>1 DEF CompilerComesBack
<1>2. PICK R : Nice(blocks, Hidden, R, ssa)
  BY <1>1 DEF DefInv, Confines, Nicely
<1>3. v \in Vals(ssa)
  <2>1. ssa.vals \in Seq(Insts)
    BY <1>2, SSAFields DEF Nice, Tidy
  <2> QED
    BY <2>1 DEF Vals
<1> QED
  BY <1>2, <1>3 DEF Nice, Confined

\* DefinedBeforeRead holds of every behaviour of the lowering with the SSA
\* construction it drives: as long as the function has no label, no search of
\* ST_ir_read_var for the index of a loop or the result of && and || comes out
\* at the entry block, where it would make up a zero.
THEOREM ReadsAreDefined == SSASpec => []DefinedBeforeRead
<1>1. SSAInit => DefInv
  BY DefInit
<1>2. DefInv /\ [SSANext]_bothVars => DefInv'
  BY DefKept
<1>3. DefInv => DefinedBeforeRead
  BY DefInvariant
<1> QED
  BY <1>1, <1>2, <1>3, PTL DEF SSASpec
=============================================================================
