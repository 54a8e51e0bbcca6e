-------------------------- MODULE SSAConstruction ---------------------------
(***************************************************************************)
(* What the operators of SSA do, for every graph.  The construction is     *)
(* followed with three things the code does not keep: which write reaches  *)
(* the end of a block (w), which values stand for a variable where a block *)
(* starts (r), and the variable a value belongs to (of).  The operators    *)
(* keep Sound, a relation of these with the graph and the state, and a     *)
(* search that does not come back has found a dead loop.                   *)
(***************************************************************************)
EXTENDS SSA, FiniteSetTheorems, WellFoundedInduction, TLAPS

\* Every nonempty set of naturals has a least element.
LEMMA LeastOf ==
  ASSUME NEW T, T \subseteq Nat, T # {}
  PROVE  \E m \in T : \A k \in T : m <= k
<1>1. IsWellFoundedOn(OpToRel(<, Nat), Nat)
  BY NatLessThanWellFounded
<1>2. PICK m \in T : \A k \in T : ~ (<<k, m>> \in OpToRel(<, Nat))
  BY <1>1, WFMin
<1>3. \A x, y \in Nat : x < y => <<x, y>> \in OpToRel(<, Nat)
  BY DEF OpToRel
<1>4. \A k \in T : k \in Nat /\ m \in Nat /\ ~ (k < m)
  BY <1>2, <1>3
<1> QED
  BY <1>4

\* Every nonempty set of numbers up to n has a greatest element.
LEMMA GreatestOf ==
  ASSUME NEW n \in Nat, NEW T, T \subseteq 1..n, T # {}
  PROVE  \E m \in T : \A k \in T : k <= m
<1> DEFINE U == {n - k : k \in T}
<1>1. U \subseteq Nat /\ U # {}
  <2>1. \A k \in T : n - k \in Nat
    OBVIOUS
  <2> QED
    BY <2>1
<1>2. PICK u \in U : \A v \in U : u <= v
  BY <1>1, LeastOf
<1>3. PICK m \in T : u = n - m
  OBVIOUS
<1>4. \A k \in T : k \in Int /\ n - k \in U
  OBVIOUS
<1>5. \A k \in T : n - m <= n - k
  BY <1>2, <1>3, <1>4
<1> HIDE DEF U
<1> QED
  BY <1>4, <1>5

Vals(s) == 1..Len(s.vals)

\* A graph as the callers build it; nothing branches to the entry.
Graph(g) ==
  /\ Len(g) \in Nat /\ DOMAIN g = 1..Len(g) /\ 1 \in DOMAIN g
  /\ \A b \in DOMAIN g : g[b].preds \in Seq(DOMAIN g) /\ g[b].sealed \in BOOLEAN
  /\ g[1].preds = <<>>

\* v stands for x where block b ends.
AtEndOf(w, r, b, x, v) == IF w[b][x] # NoVal THEN v = w[b][x] ELSE <<b, x, v>> \in r

IsPhiOf(s, v, b) == s.vals[v].kind = "phi" /\ s.vals[v].block = b

\* Why v stands for x where b starts.
Comes(g, w, s, r, b, x, v) ==
  \/ IsPhiOf(s, v, b)
  \/ /\ g[b].sealed
     /\ g[b].preds = <<>> => s.vals[v].kind = "zero"
     /\ \A p \in Preds(g, b) : AtEndOf(w, r, p, x, v)

Typed(g, X, s) ==
  /\ s \in SSAOf(X) /\ s.lost = FALSE
  /\ Len(s.defs) = Len(g) /\ Len(s.pending) = Len(g)
  /\ \A v \in Vals(s) : s.vals[v].block \in DOMAIN g

Ghosts(g, X, w, s, r, of) ==
  /\ w \in [DOMAIN g -> [X -> Nat]]
  /\ r \subseteq (DOMAIN g) \X X \X Vals(s)
  /\ DOMAIN of = Nat /\ of = [n \in Nat |-> of[n]]
  /\ \A v \in Vals(s) : of[v] \in X
  /\ \A b \in DOMAIN g, x \in X, v \in Vals(s) : <<b, x, v>> \in r => of[v] = x

Writes(g, X, w, s, of) ==
  \A b \in DOMAIN g, x \in X : w[b][x] # NoVal =>
    /\ w[b][x] \in Vals(s) /\ s.vals[w[b][x]].kind = "def" /\ of[w[b][x]] = x
    /\ s.defs[b][x] # NoVal

Flows(g, X, w, s, r) ==
  \A b \in DOMAIN g, x \in X, v \in Vals(s) :
    <<b, x, v>> \in r => Comes(g, w, s, r, b, x, v)

\* What a removed phi is replaced by stands where the phi did.
Linked(g, X, s, r) ==
  \A b \in DOMAIN g, x \in X, v \in Vals(s) :
    <<b, x, v>> \in r /\ s.vals[v].repl # NoVal => <<b, x, s.vals[v].repl>> \in r

\* The operands a phi has stand for its variable where the predecessors end.
Operands(g, w, s, r, of) ==
  \A v \in Vals(s) : LET u == s.vals[v] IN
    u.kind = "phi" =>
      /\ Len(u.ops) = Len(u.from)
      /\ \A i \in 1..Len(u.from) :
           /\ u.from[i] \in Preds(g, u.block) /\ u.ops[i] \in Vals(s)
           /\ AtEndOf(w, r, u.from[i], of[v], u.ops[i])

\* T: the phis whose operands are being read.
Filled(g, T, s) ==
  \A v \in Vals(s) : LET u == s.vals[v] IN
    u.kind = "phi" /\ v \notin T /\ g[u.block].sealed => u.from = g[u.block].preds

\* The phis of a block that is not sealed are pending, each once.
PhisDue(g, T, s, of) ==
  /\ \A v \in Vals(s) : LET u == s.vals[v] IN
       u.kind = "phi" /\ ~g[u.block].sealed /\ v \notin T =>
         /\ u.from = <<>>
         /\ \E i \in 1..Len(s.pending[u.block]) : s.pending[u.block][i][2] = v
  /\ \A b \in DOMAIN g : ~g[b].sealed =>
       /\ \A i \in 1..Len(s.pending[b]) : LET p == s.pending[b][i] IN
            p[2] \in Vals(s) /\ p[2] \notin T /\ IsPhiOf(s, p[2], b) /\ of[p[2]] = p[1]
       /\ \A i, j \in 1..Len(s.pending[b]) :
            s.pending[b][i][2] = s.pending[b][j][2] => i = j

Removed(g, T, w, s, r, of) ==
  \A v \in Vals(s) : LET u == s.vals[v] IN
    u.repl # NoVal =>
      /\ u.kind = "phi" /\ v \notin T /\ u.repl \in Vals(s)
      /\ g[u.block].sealed /\ g[u.block].preds # <<>>
      /\ \A p \in Preds(g, u.block) : AtEndOf(w, r, p, of[v], u.repl)

Definitions(g, X, w, s, r) ==
  \A b \in DOMAIN g, x \in X : s.defs[b][x] # NoVal =>
    s.defs[b][x] \in Vals(s) /\ AtEndOf(w, r, b, x, s.defs[b][x])

Sound(g, X, w, T, s, r, of) ==
  /\ Typed(g, X, s) /\ Ghosts(g, X, w, s, r, of) /\ Writes(g, X, w, s, of)
  /\ Flows(g, X, w, s, r) /\ Linked(g, X, s, r) /\ Operands(g, w, s, r, of)
  /\ Filled(g, T, s) /\ PhisDue(g, T, s, of) /\ Removed(g, T, w, s, r, of)
  /\ Definitions(g, X, w, s, r)

-----------------------------------------------------------------------------
(* Steps that each change one thing. *)

LEMMA SSAFields ==
  ASSUME NEW X, NEW s \in SSAOf(X)
  PROVE  /\ s.vals \in Seq(Insts) /\ s.defs \in Seq([X -> Nat]) /\ s.lost \in BOOLEAN
         /\ s.pending \in Seq(Seq(X \X Nat)) /\ Len(s.vals) \in Nat
         /\ Len(s.defs) \in Nat /\ Len(s.pending) \in Nat
         /\ \A v \in Vals(s) : /\ s.vals[v] \in Insts /\ s.vals[v].ops \in Seq(Nat)
                               /\ s.vals[v].from \in Seq(Nat) /\ s.vals[v].repl \in Nat
<1>1. /\ s.vals \in Seq(Insts) /\ s.defs \in Seq([X -> Nat]) /\ s.lost \in BOOLEAN
      /\ s.pending \in Seq(Seq(X \X Nat))
  BY DEF SSAOf
<1>2. Len(s.vals) \in Nat /\ Len(s.defs) \in Nat /\ Len(s.pending) \in Nat
  BY <1>1
<1>3. ASSUME NEW v \in Vals(s)
      PROVE  /\ s.vals[v] \in Insts /\ s.vals[v].ops \in Seq(Nat)
             /\ s.vals[v].from \in Seq(Nat) /\ s.vals[v].repl \in Nat
  <2>1. s.vals[v] \in Insts
    BY <1>1 DEF Vals
  <2> QED
    BY <2>1 DEF Insts
<1> QED
  BY <1>1, <1>2, <1>3

LEMMA PredsOf ==
  ASSUME NEW g, Graph(g), NEW b \in DOMAIN g
  PROVE  /\ Preds(g, b) \subseteq DOMAIN g /\ Len(g[b].preds) \in Nat
         /\ \A i \in 1..Len(g[b].preds) : g[b].preds[i] \in Preds(g, b)
         /\ g[b].preds # <<>> <=> Len(g[b].preds) > 0
         /\ g[b].preds # <<>> <=> Preds(g, b) # {}
         /\ DOMAIN g[b].preds = 1..Len(g[b].preds)
<1>1. g[b].preds \in Seq(DOMAIN g)
  BY DEF Graph
<1>2. Len(g[b].preds) \in Nat /\ DOMAIN g[b].preds = 1..Len(g[b].preds)
  BY <1>1
<1>3. \A i \in 1..Len(g[b].preds) : g[b].preds[i] \in DOMAIN g
  BY <1>1
<1>4. /\ Preds(g, b) \subseteq DOMAIN g
      /\ \A i \in 1..Len(g[b].preds) : g[b].preds[i] \in Preds(g, b)
  BY <1>2, <1>3 DEF Preds
<1>5. g[b].preds # <<>> <=> Len(g[b].preds) > 0
  BY <1>1
<1>6. g[b].preds # <<>> <=> Preds(g, b) # {}
  <2>1. ASSUME Len(g[b].preds) > 0 PROVE Preds(g, b) # {}
    <3>1. 1 \in 1..Len(g[b].preds)
      BY <2>1, <1>2
    <3> QED
      BY <3>1, <1>4
  <2>2. ASSUME Preds(g, b) # {} PROVE Len(g[b].preds) > 0
    <3>1. PICK i \in 1..Len(g[b].preds) : TRUE
      BY <2>2, <1>2 DEF Preds
    <3> QED
      BY <3>1, <1>2
  <2> QED
    BY <2>1, <2>2, <1>5
<1> QED
  BY <1>2, <1>4, <1>5, <1>6

Emitted(X, s, b, kind, e) ==
  LET n == Len(s.vals) + 1
  IN  /\ e \in SSAOf(X) /\ e.defs = s.defs /\ e.pending = s.pending /\ e.lost = s.lost
      /\ n \in Nat /\ Len(e.vals) = n /\ Vals(e) = Vals(s) \cup {n} /\ n \notin Vals(s)
      /\ n \in Vals(e) /\ \A v \in Vals(s) : e.vals[v] = s.vals[v]
      /\ e.vals[n].kind = kind /\ e.vals[n].block = b /\ e.vals[n].ops = <<>>
      /\ e.vals[n].from = <<>> /\ e.vals[n].repl = NoVal

LEMMA EmitFields ==
  ASSUME NEW X, NEW s \in SSAOf(X), NEW b \in Nat, NEW kind \in {"def", "zero", "phi"}
  PROVE  Emitted(X, s, b, kind, Emit(s, b, kind))
<1> DEFINE i == [Inst(kind) EXCEPT !.block = b]
           e == Emit(s, b, kind)
<1>1. /\ i \in Insts /\ i.kind = kind /\ i.block = b /\ i.ops = <<>> /\ i.from = <<>>
      /\ i.repl = NoVal
  <2>1. /\ Inst(kind).kind = kind /\ Inst(kind).ops = <<>> /\ Inst(kind).from = <<>>
        /\ Inst(kind).repl = NoVal
    BY DEF Inst
  <2>2. i = [kind |-> kind, block |-> b, ops |-> <<>>, from |-> <<>>, repl |-> NoVal]
    BY DEF Inst
  <2>3. <<>> \in Seq(Nat) /\ NoVal \in Nat
    BY DEF NoVal
  <2> HIDE DEF i
  <2> QED
    BY <2>2, <2>3 DEF Insts
<1> HIDE DEF i
<1>2. e = [s EXCEPT !.vals = Append(s.vals, i)]
  BY DEF Emit, i
<1>3. s.vals \in Seq(Insts) /\ Len(s.vals) \in Nat
  BY SSAFields
<1>4. Append(s.vals, i) \in Seq(Insts)
  BY <1>1, <1>3
<1>5. /\ e \in SSAOf(X) /\ e.defs = s.defs /\ e.pending = s.pending /\ e.lost = s.lost
      /\ e.vals = Append(s.vals, i)
  BY <1>2, <1>4 DEF SSAOf
<1> HIDE DEF e
<1>6. /\ Len(e.vals) = Len(s.vals) + 1 /\ e.vals[Len(s.vals) + 1] = i
      /\ \A v \in 1..Len(s.vals) : e.vals[v] = s.vals[v]
  BY <1>5, <1>3, <1>1
<1> QED
  BY <1>1, <1>3, <1>5, <1>6 DEF e, Vals, Emitted

\* A new value stands for no variable anywhere yet.
LEMMA EmitSound ==
  ASSUME NEW g, NEW X, NEW w, NEW T, NEW s, NEW r, NEW of, Graph(g), Sound(g, X, w, T, s, r, of),
         NEW b \in DOMAIN g, NEW x \in X, NEW kind \in {"def", "zero", "phi"}, NEW U,
         Len(s.vals) + 1 \in U <=> kind = "phi", \A v \in Vals(s) : v \in U <=> v \in T
  PROVE  Sound(g, X, w, U, Emit(s, b, kind), r, [of EXCEPT ![Len(s.vals) + 1] = x])
<1> DEFINE n == Len(s.vals) + 1
           e == Emit(s, b, kind)
           o == [of EXCEPT ![n] = x]
<1>1. s \in SSAOf(X) /\ s.lost = FALSE /\ b \in Nat
  BY DEF Sound, Typed, Graph
<1>2. /\ e \in SSAOf(X) /\ e.defs = s.defs /\ e.pending = s.pending /\ e.lost = s.lost
      /\ n \in Nat /\ Len(e.vals) = n /\ Vals(e) = Vals(s) \cup {n} /\ n \notin Vals(s)
      /\ n \in Vals(e) /\ \A v \in Vals(s) : e.vals[v] = s.vals[v]
      /\ e.vals[n].kind = kind /\ e.vals[n].block = b /\ e.vals[n].ops = <<>>
      /\ e.vals[n].from = <<>> /\ e.vals[n].repl = NoVal
  <2>1. Emitted(X, s, b, kind, e)
    BY <1>1, EmitFields
  <2> HIDE DEF e
  <2> QED
    BY <2>1 DEF Emitted
<1>3. /\ DOMAIN o = Nat /\ o = [k \in Nat |-> o[k]] /\ o[n] = x
      /\ \A v \in Vals(s) : o[v] = of[v]
  <2>1. DOMAIN of = Nat /\ of = [k \in Nat |-> of[k]]
    BY DEF Sound, Ghosts
  <2>2. n \in Nat /\ \A v \in Vals(s) : v \in Nat /\ v # n
    BY <1>2 DEF Vals
  <2> HIDE DEF n
  <2> QED
    BY <2>1, <2>2
<1>4. n \in U <=> kind = "phi"
  OBVIOUS
<1> HIDE DEF n, e, o
<1>5. Typed(g, X, e)
  BY <1>1, <1>2 DEF Sound, Typed
<1>6. Ghosts(g, X, w, e, r, o)
  <2>1. r \subseteq (DOMAIN g) \X X \X Vals(e)
    BY <1>2 DEF Sound, Ghosts
  <2>2. \A v \in Vals(e) : o[v] \in X
    BY <1>2, <1>3 DEF Sound, Ghosts
  <2>3. \A c \in DOMAIN g, y \in X, v \in Vals(e) : <<c, y, v>> \in r => o[v] = y
    BY <1>2, <1>3 DEF Sound, Ghosts
  <2> QED
    BY <2>1, <2>2, <2>3, <1>3 DEF Sound, Ghosts
<1>7. Writes(g, X, w, e, o)
  <2>1. ASSUME NEW c \in DOMAIN g, NEW y \in X, w[c][y] # NoVal
        PROVE  /\ w[c][y] \in Vals(e) /\ e.vals[w[c][y]].kind = "def" /\ o[w[c][y]] = y
               /\ e.defs[c][y] # NoVal
    <3>1. /\ w[c][y] \in Vals(s) /\ s.vals[w[c][y]].kind = "def" /\ of[w[c][y]] = y
          /\ s.defs[c][y] # NoVal
      BY <2>1 DEF Sound, Writes
    <3> QED
      BY <3>1, <1>2, <1>3
  <2> QED
    BY <2>1 DEF Writes
<1>8. \A c \in DOMAIN g, y \in X, v \in Vals(e) : <<c, y, v>> \in r => v \in Vals(s)
  BY DEF Sound, Ghosts
<1>9. Flows(g, X, w, e, r)
  BY <1>2, <1>8 DEF Sound, Flows, Comes, IsPhiOf
<1>10. Linked(g, X, e, r)
  BY <1>2, <1>8 DEF Sound, Linked
<1>11. Operands(g, w, e, r, o)
  <2>1. ASSUME NEW v \in Vals(s), e.vals[v].kind = "phi"
        PROVE  /\ Len(e.vals[v].ops) = Len(e.vals[v].from)
               /\ \A i \in 1..Len(e.vals[v].from) :
                    /\ e.vals[v].from[i] \in Preds(g, e.vals[v].block)
                    /\ e.vals[v].ops[i] \in Vals(e)
                    /\ AtEndOf(w, r, e.vals[v].from[i], o[v], e.vals[v].ops[i])
    BY <2>1, <1>2, <1>3 DEF Sound, Operands
  <2>2. Len(e.vals[n].ops) = Len(e.vals[n].from) /\ 1..Len(e.vals[n].from) = {}
    BY <1>2
  <2> QED
    BY <2>1, <2>2, <1>2 DEF Operands
<1>12. Filled(g, U, e)
  BY <1>2, <1>4 DEF Sound, Filled
<1>13. PhisDue(g, U, e, o)
  <2>1. ASSUME NEW v \in Vals(e), e.vals[v].kind = "phi", ~g[e.vals[v].block].sealed, v \notin U
        PROVE  /\ e.vals[v].from = <<>>
               /\ \E i \in 1..Len(e.pending[e.vals[v].block]) :
                    e.pending[e.vals[v].block][i][2] = v
    <3>1. v # n
      BY <2>1, <1>2, <1>4
    <3>2. v \in Vals(s) /\ e.vals[v] = s.vals[v] /\ v \notin T
      BY <3>1, <2>1, <1>2
    <3>3. /\ s.vals[v].from = <<>>
          /\ \E i \in 1..Len(s.pending[s.vals[v].block]) :
               s.pending[s.vals[v].block][i][2] = v
      BY <3>2, <2>1 DEF Sound, PhisDue
    <3> QED
      BY <3>2, <3>3, <1>2
  <2>2. ASSUME NEW c \in DOMAIN g, ~g[c].sealed
        PROVE  /\ \A i \in 1..Len(e.pending[c]) : LET p == e.pending[c][i] IN
                    p[2] \in Vals(e) /\ p[2] \notin U /\ IsPhiOf(e, p[2], c) /\ o[p[2]] = p[1]
               /\ \A i, j \in 1..Len(e.pending[c]) :
                    e.pending[c][i][2] = e.pending[c][j][2] => i = j
    <3>1. /\ \A i \in 1..Len(s.pending[c]) : LET p == s.pending[c][i] IN
               p[2] \in Vals(s) /\ p[2] \notin T /\ IsPhiOf(s, p[2], c) /\ of[p[2]] = p[1]
          /\ \A i, j \in 1..Len(s.pending[c]) :
               s.pending[c][i][2] = s.pending[c][j][2] => i = j
      BY <2>2 DEF Sound, PhisDue
    <3>2. e.pending[c] = s.pending[c]
      BY <1>2
    <3>3. ASSUME NEW i \in 1..Len(e.pending[c])
          PROVE  LET p == e.pending[c][i] IN
                   p[2] \in Vals(e) /\ p[2] \notin U /\ IsPhiOf(e, p[2], c) /\ o[p[2]] = p[1]
      <4> DEFINE p == e.pending[c][i]
      <4>1. p[2] \in Vals(s) /\ p[2] \notin T /\ IsPhiOf(s, p[2], c) /\ of[p[2]] = p[1]
        BY <3>1, <3>2
      <4> HIDE DEF p
      <4>2. p[2] \in Vals(e) /\ p[2] \notin U /\ IsPhiOf(e, p[2], c) /\ o[p[2]] = p[1]
        BY <4>1, <1>2, <1>3 DEF IsPhiOf
      <4> QED
        BY <4>2 DEF p
    <3> QED
      BY <3>1, <3>2, <3>3
  <2> QED
    BY <2>1, <2>2 DEF PhisDue
<1>14. Removed(g, U, w, e, r, o)
  <2>1. Removed(g, T, w, s, r, of)
    BY DEF Sound
  <2>2. ASSUME NEW v \in Vals(e), e.vals[v].repl # NoVal
        PROVE  /\ v \in Vals(s) /\ s.vals[v].repl = e.vals[v].repl
               /\ s.vals[v].kind = e.vals[v].kind /\ s.vals[v].block = e.vals[v].block
    BY <2>2, <1>2, <1>3
  <2>3. ASSUME NEW v \in Vals(e), e.vals[v].repl # NoVal
        PROVE  /\ e.vals[v].kind = "phi" /\ v \notin U /\ e.vals[v].repl \in Vals(e)
               /\ g[e.vals[v].block].sealed /\ g[e.vals[v].block].preds # <<>>
               /\ \A p \in Preds(g, e.vals[v].block) : AtEndOf(w, r, p, o[v], e.vals[v].repl)
    <3>1. /\ s.vals[v].kind = "phi" /\ v \notin T /\ s.vals[v].repl \in Vals(s)
          /\ g[s.vals[v].block].sealed /\ g[s.vals[v].block].preds # <<>>
          /\ \A p \in Preds(g, s.vals[v].block) : AtEndOf(w, r, p, of[v], s.vals[v].repl)
      BY <2>1, <2>2, <2>3 DEF Removed
    <3> QED
      BY <3>1, <2>2, <2>3, <1>2, <1>3
  <2> QED
    BY <2>3 DEF Removed
<1>15. Definitions(g, X, w, e, r)
  BY <1>2 DEF Sound, Definitions
<1> QED
  BY <1>5, <1>6, <1>7, <1>9, <1>10, <1>11, <1>12, <1>13, <1>14, <1>15 DEF Sound, n, e, o

\* More may stand for a variable, as long as it comes from somewhere.
LEMMA MoreSound ==
  ASSUME NEW g, NEW X, NEW w, NEW T, NEW s, NEW r, NEW of, Graph(g), Sound(g, X, w, T, s, r, of),
         NEW q, r \subseteq q, q \subseteq (DOMAIN g) \X X \X Vals(s),
         \A b \in DOMAIN g, x \in X, v \in Vals(s) : <<b, x, v>> \in q /\ <<b, x, v>> \notin r =>
           /\ Comes(g, w, s, q, b, x, v) /\ of[v] = x
           /\ s.vals[v].repl # NoVal => <<b, x, s.vals[v].repl>> \in q
  PROVE  Sound(g, X, w, T, s, q, of)
<1>1. \A b, x, v : AtEndOf(w, r, b, x, v) => AtEndOf(w, q, b, x, v)
  BY DEF AtEndOf
<1>2. Ghosts(g, X, w, s, q, of)
  <2>1. ASSUME NEW b \in DOMAIN g, NEW x \in X, NEW v \in Vals(s), <<b, x, v>> \in q
        PROVE  of[v] = x
    <3>1. CASE <<b, x, v>> \in r
      BY <3>1 DEF Sound, Ghosts
    <3>2. CASE <<b, x, v>> \notin r
      BY <2>1, <3>2
    <3> QED
      BY <3>1, <3>2
  <2>2. /\ w \in [DOMAIN g -> [X -> Nat]]
        /\ DOMAIN of = Nat /\ of = [n \in Nat |-> of[n]]
        /\ \A v \in Vals(s) : of[v] \in X
    BY DEF Sound, Ghosts
  <2> QED
    BY <2>1, <2>2 DEF Ghosts
<1>3. Flows(g, X, w, s, q)
  <2>1. \A b \in DOMAIN g, x \in X, v \in Vals(s) :
          Comes(g, w, s, r, b, x, v) => Comes(g, w, s, q, b, x, v)
    BY <1>1 DEF Comes
  <2> QED
    BY <2>1 DEF Sound, Flows
<1>4. Linked(g, X, s, q)
  BY DEF Sound, Linked
<1>5. Operands(g, w, s, q, of)
  BY <1>1 DEF Sound, Operands
<1>6. Removed(g, T, w, s, q, of)
  BY <1>1 DEF Sound, Removed
<1>7. Definitions(g, X, w, s, q)
  BY <1>1 DEF Sound, Definitions
<1> QED
  BY <1>2, <1>3, <1>4, <1>5, <1>6, <1>7 DEF Sound

LEMMA WriteVarFields ==
  ASSUME NEW X, NEW s \in SSAOf(X), NEW b \in 1..Len(s.defs), NEW x \in X, NEW v \in Nat
  PROVE  LET e == WriteVar(s, b, x, v)
         IN  /\ e \in SSAOf(X) /\ e.vals = s.vals /\ e.pending = s.pending /\ e.lost = s.lost
             /\ Len(e.defs) = Len(s.defs) /\ e.defs[b][x] = v
             /\ \A c \in 1..Len(s.defs), y \in X :
                  ~(c = b /\ y = x) => e.defs[c][y] = s.defs[c][y]
<1> DEFINE d == [s.defs EXCEPT ![b][x] = v]
<1>1. s.defs \in Seq([X -> Nat])
  BY SSAFields
<1>2. s.defs[b] \in [X -> Nat] /\ b \in DOMAIN s.defs
  BY <1>1
<1>3. [s.defs[b] EXCEPT ![x] = v] \in [X -> Nat]
  BY <1>2
<1>4. d = [s.defs EXCEPT ![b] = [s.defs[b] EXCEPT ![x] = v]]
  OBVIOUS
<1>5. d \in Seq([X -> Nat]) /\ Len(d) = Len(s.defs)
  BY <1>1, <1>3, <1>4
<1>6. d[b][x] = v
  BY <1>2, <1>4
<1>7. \A c \in 1..Len(s.defs), y \in X : ~(c = b /\ y = x) => d[c][y] = s.defs[c][y]
  BY <1>1, <1>2, <1>4
<1> HIDE DEF d
<1>8. WriteVar(s, b, x, v) = [s EXCEPT !.defs = d]
  BY DEF WriteVar, d
<1> QED
  <2>1. /\ s.vals \in Seq(Insts) /\ s.pending \in Seq(Seq(X \X Nat)) /\ s.lost \in BOOLEAN
        /\ s = [vals |-> s.vals, defs |-> s.defs, pending |-> s.pending, lost |-> s.lost]
    BY DEF SSAOf
  <2> DEFINE e == WriteVar(s, b, x, v)
  <2>2. e = [vals |-> s.vals, defs |-> d, pending |-> s.pending, lost |-> s.lost]
    BY <2>1, <1>8
  <2> HIDE DEF e
  <2>3. e \in SSAOf(X)
    BY <2>1, <2>2, <1>5 DEF SSAOf
  <2>4. e.vals = s.vals /\ e.defs = d /\ e.pending = s.pending /\ e.lost = s.lost
    BY <2>2
  <2>5. /\ e \in SSAOf(X) /\ e.vals = s.vals /\ e.pending = s.pending /\ e.lost = s.lost
        /\ Len(e.defs) = Len(s.defs) /\ e.defs[b][x] = v
        /\ \A c \in 1..Len(s.defs), y \in X :
             ~(c = b /\ y = x) => e.defs[c][y] = s.defs[c][y]
    BY <2>3, <2>4, <1>5, <1>6, <1>7
  <2> QED
    BY <2>5 DEF e

\* A variable is given a value that stands for it already.
LEMMA WriteVarSound ==
  ASSUME NEW g, NEW X, NEW w, NEW T, NEW s, NEW r, NEW of, Graph(g), Sound(g, X, w, T, s, r, of),
         NEW b \in DOMAIN g, NEW x \in X, NEW v \in Vals(s), AtEndOf(w, r, b, x, v)
  PROVE  Sound(g, X, w, T, WriteVar(s, b, x, v), r, of)
<1> DEFINE e == WriteVar(s, b, x, v)
<1>1. s \in SSAOf(X) /\ b \in 1..Len(s.defs) /\ v \in Nat /\ v # NoVal /\ Len(s.defs) = Len(g)
  BY DEF Sound, Typed, Graph, Vals, NoVal
<1>2. /\ e \in SSAOf(X) /\ e.vals = s.vals /\ e.pending = s.pending /\ e.lost = s.lost
      /\ Len(e.defs) = Len(s.defs) /\ e.defs[b][x] = v
      /\ \A c \in 1..Len(s.defs), y \in X :
           ~(c = b /\ y = x) => e.defs[c][y] = s.defs[c][y]
  BY <1>1, WriteVarFields
<1> HIDE DEF e
<1>3. Vals(e) = Vals(s)
  BY <1>2 DEF Vals
<1>4. DOMAIN g = 1..Len(s.defs)
  BY <1>1 DEF Graph
<1>5. Typed(g, X, e)
  BY <1>2, <1>3 DEF Sound, Typed
<1>6. Ghosts(g, X, w, e, r, of)
  BY <1>3 DEF Sound, Ghosts
<1>7. Writes(g, X, w, e, of)
  BY <1>1, <1>2, <1>3, <1>4 DEF Sound, Writes
<1>8. Flows(g, X, w, e, r)
  BY <1>2, <1>3 DEF Sound, Flows, Comes, IsPhiOf
<1>9. Linked(g, X, e, r) /\ Operands(g, w, e, r, of) /\ Filled(g, T, e)
  BY <1>2, <1>3 DEF Sound, Linked, Operands, Filled
<1>10. PhisDue(g, T, e, of) /\ Removed(g, T, w, e, r, of)
  <2>1. PhisDue(g, T, s, of) /\ Removed(g, T, w, s, r, of)
    BY DEF Sound
  <2>2. PhisDue(g, T, e, of)
    BY <2>1, <1>2, <1>3 DEF PhisDue, IsPhiOf
  <2>3. Removed(g, T, w, e, r, of)
    BY <2>1, <1>2, <1>3 DEF Removed
  <2> QED
    BY <2>2, <2>3
<1>11. Definitions(g, X, w, e, r)
  BY <1>1, <1>2, <1>3, <1>4 DEF Sound, Definitions
<1> QED
  BY <1>5, <1>6, <1>7, <1>8, <1>9, <1>10, <1>11 DEF Sound, e

\* A phi whose operands are not read yet is put on the list of its block.
Pended(s, b, x, phi) == [s EXCEPT !.pending[b] = Append(@, <<x, phi>>)]

PendedTo(X, s, b, x, phi, e) ==
  /\ e \in SSAOf(X) /\ e.vals = s.vals /\ e.defs = s.defs /\ e.lost = s.lost
  /\ Len(e.pending) = Len(s.pending)
  /\ e.pending[b] = Append(s.pending[b], <<x, phi>>)
  /\ s.pending[b] \in Seq(X \X Nat)
  /\ \A c \in 1..Len(s.pending) : c # b => e.pending[c] = s.pending[c]

LEMMA PendedFields ==
  ASSUME NEW X, NEW s \in SSAOf(X), NEW b \in 1..Len(s.pending), NEW x \in X, NEW phi \in Nat
  PROVE  PendedTo(X, s, b, x, phi, Pended(s, b, x, phi))
<1> DEFINE t == <<x, phi>>
           l == Append(s.pending[b], t)
           d == [s.pending EXCEPT ![b] = l]
<1>1. s.pending \in Seq(Seq(X \X Nat)) /\ t \in X \X Nat
  BY SSAFields
<1>2. s.pending[b] \in Seq(X \X Nat)
  BY <1>1
<1> HIDE DEF t
<1>3. l \in Seq(X \X Nat)
  BY <1>1, <1>2
<1> HIDE DEF l
<1>4. d \in Seq(Seq(X \X Nat)) /\ Len(d) = Len(s.pending) /\ d[b] = l
  BY <1>1, <1>3
<1>5. \A c \in 1..Len(s.pending) : c # b => d[c] = s.pending[c]
  BY <1>1
<1> HIDE DEF d
<1>6. Pended(s, b, x, phi) = [s EXCEPT !.pending = d]
  BY DEF Pended, d, l, t
<1> QED
  BY <1>2, <1>4, <1>5, <1>6 DEF SSAOf, l, t, PendedTo

LEMMA PendedSound ==
  ASSUME NEW g, NEW X, NEW w, NEW T, NEW s, NEW r, NEW of, Graph(g), Sound(g, X, w, T, s, r, of),
         NEW b \in DOMAIN g, NEW x \in X, NEW phi \in Vals(s), phi \in T, ~g[b].sealed,
         IsPhiOf(s, phi, b), s.vals[phi].from = <<>>, of[phi] = x
  PROVE  Sound(g, X, w, T \ {phi}, Pended(s, b, x, phi), r, of)
<1> DEFINE e == Pended(s, b, x, phi)
           U == T \ {phi}
           n == Len(s.pending[b]) + 1
<1>1. /\ s \in SSAOf(X) /\ b \in 1..Len(s.pending) /\ phi \in Nat /\ Len(s.pending) = Len(g)
      /\ DOMAIN g = 1..Len(s.pending)
  BY DEF Sound, Typed, Graph, Vals
<1>2. /\ e \in SSAOf(X) /\ e.vals = s.vals /\ e.defs = s.defs /\ e.lost = s.lost
      /\ Len(e.pending) = Len(s.pending)
      /\ e.pending[b] = Append(s.pending[b], <<x, phi>>)
      /\ s.pending[b] \in Seq(X \X Nat)
      /\ \A c \in 1..Len(s.pending) : c # b => e.pending[c] = s.pending[c]
  <2>1. PendedTo(X, s, b, x, phi, e)
    BY <1>1, PendedFields
  <2> HIDE DEF e
  <2> QED
    BY <2>1 DEF PendedTo
<1> HIDE DEF e
<1>3. /\ n \in Nat \ {0} /\ Len(e.pending[b]) = n /\ e.pending[b][n] = <<x, phi>>
      /\ \A i \in 1..Len(s.pending[b]) : i < n /\ i \in 1..n /\ e.pending[b][i] = s.pending[b][i]
      /\ n \in 1..n /\ \A i \in 1..n : i = n \/ i \in 1..Len(s.pending[b])
  <2> DEFINE t == <<x, phi>>
             l == s.pending[b]
  <2>1. t \in X \X Nat /\ l \in Seq(X \X Nat) /\ e.pending[b] = Append(l, t)
    BY <1>1, <1>2
  <2> HIDE DEF t, l
  <2>2. /\ Len(l) \in Nat /\ Len(e.pending[b]) = Len(l) + 1 /\ e.pending[b][Len(l) + 1] = t
        /\ \A i \in 1..Len(l) : e.pending[b][i] = l[i]
    BY <2>1
  <2>3. n = Len(l) + 1
    BY DEF l
  <2> HIDE DEF n
  <2> QED
    BY <2>2, <2>3 DEF t, l
<1> HIDE DEF n
<1>4. Vals(e) = Vals(s)
  BY <1>2 DEF Vals
<1>5. e.pending[b][n][1] = x /\ e.pending[b][n][2] = phi
  BY <1>3
<1>6. Typed(g, X, e) /\ Ghosts(g, X, w, e, r, of) /\ Writes(g, X, w, e, of)
  <2>1. Typed(g, X, e)
    BY <1>2, <1>4 DEF Sound, Typed
  <2>2. Ghosts(g, X, w, e, r, of)
    BY <1>2, <1>4 DEF Sound, Ghosts
  <2>3. Writes(g, X, w, e, of)
    BY <1>2, <1>4 DEF Sound, Writes
  <2> QED
    BY <2>1, <2>2, <2>3
<1>7. Flows(g, X, w, e, r) /\ Linked(g, X, e, r) /\ Operands(g, w, e, r, of)
  <2>1. Flows(g, X, w, e, r)
    BY <1>2, <1>4 DEF Sound, Flows, Comes, IsPhiOf
  <2>2. Linked(g, X, e, r) /\ Operands(g, w, e, r, of)
    BY <1>2, <1>4 DEF Sound, Linked, Operands
  <2> QED
    BY <2>1, <2>2
<1>8. Filled(g, U, e)
  <2>1. g[s.vals[phi].block].sealed = FALSE
    BY DEF IsPhiOf, Graph
  <2> QED
    BY <2>1, <1>2, <1>4 DEF Sound, Filled
<1>9. Removed(g, U, w, e, r, of) /\ Definitions(g, X, w, e, r)
  BY <1>2, <1>4 DEF Sound, Removed, Definitions
<1>10. PhisDue(g, T, s, of)
  BY DEF Sound
<1>11. ASSUME NEW v \in Vals(e), e.vals[v].kind = "phi", ~g[e.vals[v].block].sealed, v \notin U
       PROVE  /\ e.vals[v].from = <<>>
              /\ \E i \in 1..Len(e.pending[e.vals[v].block]) :
                   e.pending[e.vals[v].block][i][2] = v
  <2>1. CASE v = phi
    BY <2>1, <1>2, <1>3, <1>5 DEF IsPhiOf
  <2>2. CASE v # phi
    <3>1. /\ s.vals[v].from = <<>>
          /\ \E i \in 1..Len(s.pending[s.vals[v].block]) :
               s.pending[s.vals[v].block][i][2] = v
      BY <2>2, <1>11, <1>2, <1>4, <1>10 DEF PhisDue
    <3>2. s.vals[v].block \in DOMAIN g
      BY <1>4 DEF Sound, Typed
    <3> DEFINE c == s.vals[v].block
    <3>3. PICK i \in 1..Len(s.pending[c]) : s.pending[c][i][2] = v
      BY <3>1
    <3>4. i \in 1..Len(e.pending[c]) /\ e.pending[c][i] = s.pending[c][i]
      BY <3>2, <3>3, <1>1, <1>2, <1>3
    <3> QED
      BY <3>1, <3>3, <3>4, <1>2
  <2> QED
    BY <2>1, <2>2
<1>12. ASSUME NEW c \in DOMAIN g, ~g[c].sealed
       PROVE  /\ \A i \in 1..Len(e.pending[c]) : LET p == e.pending[c][i] IN
                   p[2] \in Vals(e) /\ p[2] \notin U /\ IsPhiOf(e, p[2], c) /\ of[p[2]] = p[1]
              /\ \A i, j \in 1..Len(e.pending[c]) :
                   e.pending[c][i][2] = e.pending[c][j][2] => i = j
  <2>1. /\ \A i \in 1..Len(s.pending[c]) : LET p == s.pending[c][i] IN
             p[2] \in Vals(s) /\ p[2] \notin T /\ IsPhiOf(s, p[2], c) /\ of[p[2]] = p[1]
        /\ \A i, j \in 1..Len(s.pending[c]) :
             s.pending[c][i][2] = s.pending[c][j][2] => i = j
    BY <1>10, <1>12 DEF PhisDue
  <2>2. CASE c # b
    <3>1. e.pending[c] = s.pending[c]
      BY <2>2, <1>1, <1>2
    <3>2. \A v \in Vals(s) : IsPhiOf(s, v, c) => IsPhiOf(e, v, c)
      BY <1>2 DEF IsPhiOf
    <3> QED
      BY <2>1, <3>1, <3>2, <1>4
  <2>3. CASE c = b
    <3>1. ASSUME NEW i \in 1..Len(s.pending[b])
          PROVE  LET p == s.pending[b][i] IN
                   p[2] \in Vals(e) /\ p[2] \notin U /\ IsPhiOf(e, p[2], b) /\ of[p[2]] = p[1]
      <4> DEFINE p == s.pending[b][i]
      <4>1. p[2] \in Vals(s) /\ p[2] \notin T /\ IsPhiOf(s, p[2], b) /\ of[p[2]] = p[1]
        BY <2>1, <2>3
      <4> HIDE DEF p
      <4>2. p[2] \in Vals(e) /\ p[2] \notin U /\ IsPhiOf(e, p[2], b) /\ of[p[2]] = p[1]
        BY <4>1, <1>2, <1>4 DEF IsPhiOf
      <4> QED
        BY <4>2 DEF p
    <3>2. phi \in Vals(e) /\ phi \notin U /\ IsPhiOf(e, phi, b) /\ of[phi] = x
      BY <1>2, <1>4 DEF IsPhiOf
    <3>3. \A i \in 1..Len(s.pending[b]) : s.pending[b][i][2] # phi
      BY <2>1, <2>3
    <3>4. \A i \in 1..Len(e.pending[c]) : LET p == e.pending[c][i] IN
            p[2] \in Vals(e) /\ p[2] \notin U /\ IsPhiOf(e, p[2], c) /\ of[p[2]] = p[1]
      BY <3>1, <3>2, <1>3, <1>5, <2>3
    <3>5. ASSUME NEW i \in 1..Len(e.pending[b]), NEW j \in 1..Len(e.pending[b]),
                 e.pending[b][i][2] = e.pending[b][j][2]
          PROVE  i = j
      <4>1. CASE i = n /\ j = n
        BY <4>1
      <4>2. CASE i # n /\ j = n
        BY <4>2, <3>5, <3>3, <1>3, <1>5
      <4>3. CASE i = n /\ j # n
        BY <4>3, <3>5, <3>3, <1>3, <1>5
      <4>4. CASE i # n /\ j # n
        BY <4>4, <3>5, <2>1, <2>3, <1>3
      <4> QED
        BY <4>1, <4>2, <4>3, <4>4
    <3> QED
      BY <3>4, <3>5, <2>3
  <2> QED
    BY <2>2, <2>3
<1>13. PhisDue(g, U, e, of)
  BY <1>11, <1>12 DEF PhisDue
<1> QED
  BY <1>6, <1>7, <1>8, <1>9, <1>13 DEF Sound, e

\* A phi of a sealed block that has all its operands is no longer being filled.
LEMMA FilledSound ==
  ASSUME NEW g, NEW X, NEW w, NEW T, NEW s, NEW r, NEW of, Graph(g), Sound(g, X, w, T, s, r, of),
         NEW phi \in Vals(s), g[s.vals[phi].block].sealed,
         s.vals[phi].from = g[s.vals[phi].block].preds
  PROVE  Sound(g, X, w, T \ {phi}, s, r, of)
<1>1. Filled(g, T \ {phi}, s)
  BY DEF Sound, Filled
<1>2. Removed(g, T \ {phi}, w, s, r, of)
  BY DEF Sound, Removed
<1>3. PhisDue(g, T, s, of)
  BY DEF Sound
<1>4. PhisDue(g, T \ {phi}, s, of)
  <2>1. ASSUME NEW v \in Vals(s), s.vals[v].kind = "phi", ~g[s.vals[v].block].sealed, v \notin T \ {phi}
        PROVE  /\ s.vals[v].from = <<>>
               /\ \E i \in 1..Len(s.pending[s.vals[v].block]) :
                    s.pending[s.vals[v].block][i][2] = v
    BY <2>1, <1>3 DEF PhisDue
  <2>2. ASSUME NEW c \in DOMAIN g, ~g[c].sealed
        PROVE  /\ \A i \in 1..Len(s.pending[c]) : LET p == s.pending[c][i] IN
                    p[2] \in Vals(s) /\ p[2] \notin T \ {phi} /\ IsPhiOf(s, p[2], c) /\ of[p[2]] = p[1]
               /\ \A i, j \in 1..Len(s.pending[c]) :
                    s.pending[c][i][2] = s.pending[c][j][2] => i = j
    BY <2>2, <1>3 DEF PhisDue
  <2> QED
    BY <2>1, <2>2 DEF PhisDue
<1> QED
  BY <1>1, <1>2, <1>4 DEF Sound

-----------------------------------------------------------------------------
(* Operands. *)

\* The effect of a step on the values there are: phis of E may get operands or
\* be removed, and no definition is lost.
Later(X, E, s, e) ==
  /\ Len(s.vals) <= Len(e.vals) /\ Vals(s) \subseteq Vals(e) /\ Len(s.defs) = Len(e.defs)
  /\ \A v \in Vals(s) :
       /\ e.vals[v].kind = s.vals[v].kind /\ e.vals[v].block = s.vals[v].block
       /\ v \notin E => e.vals[v].from = s.vals[v].from /\ e.vals[v].repl = s.vals[v].repl
  /\ \A b \in 1..Len(s.defs), x \in X : s.defs[b][x] # NoVal => e.defs[b][x] # NoVal

WithOperand(s, phi, v, p) == [s EXCEPT !.vals[phi].ops  = Append(@, v),
                                       !.vals[phi].from = Append(@, p)]

HasOperand(X, s, phi, v, p, e) ==
  /\ e \in SSAOf(X) /\ e.defs = s.defs /\ e.pending = s.pending /\ e.lost = s.lost
  /\ Len(e.vals) = Len(s.vals) /\ \A u \in Vals(s) : u # phi => e.vals[u] = s.vals[u]
  /\ e.vals[phi].kind = s.vals[phi].kind /\ e.vals[phi].block = s.vals[phi].block
  /\ e.vals[phi].repl = s.vals[phi].repl
  /\ e.vals[phi].ops = Append(s.vals[phi].ops, v)
  /\ e.vals[phi].from = Append(s.vals[phi].from, p)

LEMMA OperandFields ==
  ASSUME NEW X, NEW s \in SSAOf(X), NEW phi \in Vals(s), NEW v \in Nat, NEW p \in Nat
  PROVE  HasOperand(X, s, phi, v, p, WithOperand(s, phi, v, p))
<1> DEFINE u == s.vals[phi]
           t == [u EXCEPT !.ops = Append(@, v), !.from = Append(@, p)]
           d == [s.vals EXCEPT ![phi] = t]
<1>1. /\ s.vals \in Seq(Insts) /\ u \in Insts /\ u.ops \in Seq(Nat) /\ u.from \in Seq(Nat)
      /\ Len(s.vals) \in Nat
  BY SSAFields
<1>2. Append(u.ops, v) \in Seq(Nat) /\ Append(u.from, p) \in Seq(Nat)
  BY <1>1
<1>3. t = [u EXCEPT !.ops = Append(u.ops, v), !.from = Append(u.from, p)]
  OBVIOUS
<1> HIDE DEF u
<1>4. /\ t \in Insts /\ t.kind = u.kind /\ t.block = u.block /\ t.repl = u.repl
      /\ t.ops = Append(u.ops, v) /\ t.from = Append(u.from, p)
  BY <1>1, <1>2, <1>3 DEF Insts
<1> HIDE DEF t
<1>5. d \in Seq(Insts) /\ Len(d) = Len(s.vals) /\ d[phi] = t
  BY <1>1, <1>4 DEF Vals
<1>6. \A k \in Vals(s) : k # phi => d[k] = s.vals[k]
  BY <1>1 DEF Vals
<1>7. WithOperand(s, phi, v, p) = [s EXCEPT !.vals = d]
  <2> DEFINE u1 == [u EXCEPT !.ops = Append(u.ops, v)]
             d1 == [s.vals EXCEPT ![phi] = u1]
             s1 == [s EXCEPT !.vals = d1]
             k  == [u1 EXCEPT !.from = Append(u1.from, p)]
  <2>1. u1.from = u.from /\ k = t
    BY <1>1, <1>3 DEF Insts
  <2>2. s1 = [s EXCEPT !.vals[phi].ops = Append(@, v)]
    BY DEF u
  <2> HIDE DEF u1
  <2>3. phi \in DOMAIN s.vals
    BY <1>1 DEF Vals
  <2>4. d1[phi] = u1 /\ [d1 EXCEPT ![phi] = k] = [s.vals EXCEPT ![phi] = k]
    BY <2>3
  <2> HIDE DEF d1
  <2>5. s1.vals = d1 /\ \A h : [s1 EXCEPT !.vals = h] = [s EXCEPT !.vals = h]
    BY DEF SSAOf
  <2>6. [s1 EXCEPT !.vals[phi].from = Append(@, p)] = [s1 EXCEPT !.vals = [d1 EXCEPT ![phi] = k]]
    BY <2>4, <2>5
  <2> HIDE DEF k, s1
  <2>7. WithOperand(s, phi, v, p) = [s1 EXCEPT !.vals[phi].from = Append(@, p)]
    BY <2>2 DEF WithOperand
  <2>8. WithOperand(s, phi, v, p) = [s EXCEPT !.vals = [s.vals EXCEPT ![phi] = k]]
    BY <2>4, <2>5, <2>6, <2>7
  <2> QED
    BY <2>1, <2>8 DEF d
<1> HIDE DEF d
<1> QED
  BY <1>4, <1>5, <1>6, <1>7 DEF HasOperand, SSAOf, u

LEMMA OperandSound ==
  ASSUME NEW g, NEW X, NEW w, NEW T, NEW s, NEW r, NEW of, Graph(g), Sound(g, X, w, T, s, r, of),
         NEW phi \in Vals(s), phi \in T, NEW v \in Vals(s),
         NEW p \in Preds(g, s.vals[phi].block), AtEndOf(w, r, p, of[phi], v)
  PROVE  /\ Sound(g, X, w, T, WithOperand(s, phi, v, p), r, of)
         /\ HasOperand(X, s, phi, v, p, WithOperand(s, phi, v, p))
<1> DEFINE e == WithOperand(s, phi, v, p)
<1>1. s \in SSAOf(X) /\ v \in Nat /\ s.vals[phi].block \in DOMAIN g /\ Len(s.vals) \in Nat
  BY SSAFields DEF Sound, Typed, Vals
<1>2. p \in Nat
  <2>1. Preds(g, s.vals[phi].block) \subseteq DOMAIN g
    BY <1>1, PredsOf
  <2>2. DOMAIN g \subseteq Nat
    BY DEF Graph
  <2> QED
    BY <2>1, <2>2
<1>3. HasOperand(X, s, phi, v, p, e)
  BY <1>1, <1>2, OperandFields
<1> HIDE DEF e
<1>4. /\ e \in SSAOf(X) /\ e.defs = s.defs /\ e.pending = s.pending /\ e.lost = s.lost
      /\ Len(e.vals) = Len(s.vals) /\ \A u \in Vals(s) : u # phi => e.vals[u] = s.vals[u]
      /\ e.vals[phi].kind = s.vals[phi].kind /\ e.vals[phi].block = s.vals[phi].block
      /\ e.vals[phi].repl = s.vals[phi].repl
      /\ e.vals[phi].ops = Append(s.vals[phi].ops, v)
      /\ e.vals[phi].from = Append(s.vals[phi].from, p)
  BY <1>3 DEF HasOperand
<1>5. Vals(e) = Vals(s)
  BY <1>4 DEF Vals
<1>6. \A u \in Vals(s) : /\ e.vals[u].kind = s.vals[u].kind /\ e.vals[u].block = s.vals[u].block
                         /\ e.vals[u].repl = s.vals[u].repl
  BY <1>4
<1>7. Typed(g, X, e)
  BY <1>4, <1>5, <1>6 DEF Sound, Typed
<1>8. Ghosts(g, X, w, e, r, of)
  BY <1>5 DEF Sound, Ghosts
<1>9. Writes(g, X, w, e, of)
  BY <1>4, <1>5, <1>6 DEF Sound, Writes
<1>10. Flows(g, X, w, e, r)
  BY <1>5, <1>6 DEF Sound, Flows, Comes, IsPhiOf
<1>11. Linked(g, X, e, r)
  BY <1>5, <1>6 DEF Sound, Linked
<1>12. Operands(g, w, e, r, of)
  <2>1. ASSUME NEW u \in Vals(e), e.vals[u].kind = "phi"
        PROVE  /\ Len(e.vals[u].ops) = Len(e.vals[u].from)
               /\ \A i \in 1..Len(e.vals[u].from) :
                    /\ e.vals[u].from[i] \in Preds(g, e.vals[u].block)
                    /\ e.vals[u].ops[i] \in Vals(e)
                    /\ AtEndOf(w, r, e.vals[u].from[i], of[u], e.vals[u].ops[i])
    <3>1. /\ Len(s.vals[u].ops) = Len(s.vals[u].from)
          /\ \A i \in 1..Len(s.vals[u].from) :
               /\ s.vals[u].from[i] \in Preds(g, s.vals[u].block)
               /\ s.vals[u].ops[i] \in Vals(s)
               /\ AtEndOf(w, r, s.vals[u].from[i], of[u], s.vals[u].ops[i])
      BY <2>1, <1>5, <1>6 DEF Sound, Operands
    <3>2. CASE u # phi
      BY <3>1, <3>2, <1>4, <1>5
    <3>3. CASE u = phi
      <4> DEFINE a == s.vals[phi].ops
                 f == s.vals[phi].from
                 n == Len(f)
      <4>1. a \in Seq(Nat) /\ f \in Seq(Nat)
        BY <1>1, SSAFields
      <4>2. n \in Nat /\ Len(a) = n
        BY <4>1, <3>1, <3>3
      <4>3. e.vals[phi].ops = Append(a, v) /\ e.vals[phi].from = Append(f, p)
        BY <1>4
      <4> HIDE DEF a, f
      <4>4. /\ Len(Append(a, v)) = n + 1 /\ Len(Append(f, p)) = n + 1
            /\ Append(a, v)[n + 1] = v /\ Append(f, p)[n + 1] = p
            /\ \A i \in 1..n : Append(a, v)[i] = a[i] /\ Append(f, p)[i] = f[i]
        BY <4>1, <4>2
      <4>5. \A i \in 1..(n + 1) : i \in 1..n \/ i = n + 1
        BY <4>2
      <4>6. \A i \in 1..n : /\ f[i] \in Preds(g, e.vals[phi].block) /\ a[i] \in Vals(e)
                            /\ AtEndOf(w, r, f[i], of[phi], a[i])
        BY <3>1, <3>3, <1>5, <1>6 DEF a, f
      <4>7. p \in Preds(g, e.vals[phi].block) /\ v \in Vals(e)
        BY <1>4, <1>5
      <4> HIDE DEF n
      <4>8. ASSUME NEW i \in 1..(n + 1)
            PROVE  /\ Append(f, p)[i] \in Preds(g, e.vals[phi].block)
                   /\ Append(a, v)[i] \in Vals(e)
                   /\ AtEndOf(w, r, Append(f, p)[i], of[phi], Append(a, v)[i])
        <5>1. CASE i \in 1..n
          BY <5>1, <4>4, <4>6
        <5>2. CASE i = n + 1
          BY <5>2, <4>4, <4>7
        <5> QED
          BY <5>1, <5>2, <4>5
      <4> QED
        BY <4>3, <4>4, <4>8, <3>3
    <3> QED
      BY <3>2, <3>3
  <2> QED
    BY <2>1 DEF Operands
<1>13. Filled(g, T, e)
  BY <1>4, <1>5 DEF Sound, Filled
<1>14. PhisDue(g, T, e, of)
  <2>1. PhisDue(g, T, s, of)
    BY DEF Sound
  <2>2. \A u \in Vals(s), b \in DOMAIN g : IsPhiOf(s, u, b) <=> IsPhiOf(e, u, b)
    BY <1>6 DEF IsPhiOf
  <2>3. \A u \in Vals(s) : u \notin T => e.vals[u] = s.vals[u]
    BY <1>4
  <2>4. ASSUME NEW u \in Vals(e), e.vals[u].kind = "phi", ~g[e.vals[u].block].sealed, u \notin T
        PROVE  /\ e.vals[u].from = <<>>
               /\ \E i \in 1..Len(e.pending[e.vals[u].block]) :
                    e.pending[e.vals[u].block][i][2] = u
    <3>1. u \in Vals(s) /\ e.vals[u] = s.vals[u] /\ e.pending = s.pending
      BY <2>3, <2>4, <1>4, <1>5
    <3>2. s.vals[u].kind = "phi" /\ ~g[s.vals[u].block].sealed
      BY <2>4, <3>1
    <3>3. /\ s.vals[u].from = <<>>
          /\ \E i \in 1..Len(s.pending[s.vals[u].block]) :
               s.pending[s.vals[u].block][i][2] = u
      BY <2>1, <2>4, <3>1, <3>2 DEF PhisDue
    <3> QED
      BY <3>1, <3>3
  <2>5. ASSUME NEW c \in DOMAIN g, ~g[c].sealed
        PROVE  /\ \A i \in 1..Len(e.pending[c]) : LET q == e.pending[c][i] IN
                    q[2] \in Vals(e) /\ q[2] \notin T /\ IsPhiOf(e, q[2], c) /\ of[q[2]] = q[1]
               /\ \A i, j \in 1..Len(e.pending[c]) :
                    e.pending[c][i][2] = e.pending[c][j][2] => i = j
    BY <2>1, <2>2, <2>5, <1>4, <1>5 DEF PhisDue
  <2> QED
    BY <2>4, <2>5 DEF PhisDue
<1>15. Removed(g, T, w, e, r, of)
  <2>1. Removed(g, T, w, s, r, of)
    BY DEF Sound
  <2>2. ASSUME NEW z \in Vals(e), e.vals[z].repl # NoVal
        PROVE  /\ z \in Vals(s) /\ s.vals[z].repl = e.vals[z].repl
               /\ s.vals[z].kind = e.vals[z].kind /\ s.vals[z].block = e.vals[z].block
    BY <2>2, <1>4, <1>5, <1>6
  <2>3. ASSUME NEW z \in Vals(e), e.vals[z].repl # NoVal
        PROVE  /\ e.vals[z].kind = "phi" /\ z \notin T /\ e.vals[z].repl \in Vals(e)
               /\ g[e.vals[z].block].sealed /\ g[e.vals[z].block].preds # <<>>
               /\ \A q \in Preds(g, e.vals[z].block) : AtEndOf(w, r, q, of[z], e.vals[z].repl)
    <3>1. /\ s.vals[z].kind = "phi" /\ z \notin T /\ s.vals[z].repl \in Vals(s)
          /\ g[s.vals[z].block].sealed /\ g[s.vals[z].block].preds # <<>>
          /\ \A q \in Preds(g, s.vals[z].block) : AtEndOf(w, r, q, of[z], s.vals[z].repl)
      BY <2>1, <2>2, <2>3 DEF Removed
    <3> QED
      BY <3>1, <2>2, <2>3, <1>4, <1>5, <1>6
  <2> QED
    BY <2>3 DEF Removed
<1>16. Definitions(g, X, w, e, r)
  BY <1>4, <1>5 DEF Sound, Definitions
<1> QED
  BY <1>3, <1>7, <1>8, <1>9, <1>10, <1>11, <1>12, <1>13, <1>14, <1>15, <1>16 DEF Sound, e

-----------------------------------------------------------------------------
(* The removal of a phi. *)

Cut(X, s, phi, new, e) ==
  /\ e \in SSAOf(X) /\ e.defs = s.defs /\ e.pending = s.pending /\ e.lost = s.lost
  /\ Len(e.vals) = Len(s.vals) /\ e.vals[phi].repl = new
  /\ \A v \in Vals(s) :
       /\ e.vals[v].kind = s.vals[v].kind /\ e.vals[v].block = s.vals[v].block
       /\ e.vals[v].from = s.vals[v].from
       /\ v # phi => e.vals[v].repl = s.vals[v].repl
       /\ Len(e.vals[v].ops) = Len(s.vals[v].ops)
       /\ \A i \in 1..Len(s.vals[v].ops) :
            \/ e.vals[v].ops[i] = s.vals[v].ops[i]
            \/ s.vals[v].ops[i] = phi /\ e.vals[v].ops[i] = new

Trivial(s, phi) == \E new \in Same(s, phi) : Same(s, phi) = {new}

LEMMA CutFields ==
  ASSUME NEW X, NEW s \in SSAOf(X), NEW phi \in Vals(s), NEW new \in Nat, Same(s, phi) = {new}
  PROVE  Cut(X, s, phi, new, TryRemove(s, phi))
<1> DEFINE uses == [v \in DOMAIN s.vals |-> Replaced(s.vals[v], phi, new)]
           d == [uses EXCEPT ![phi].repl = new]
<1>1. /\ s.vals \in Seq(Insts) /\ Len(s.vals) \in Nat /\ DOMAIN s.vals = Vals(s)
  <2>1. s.vals \in Seq(Insts) /\ Len(s.vals) \in Nat
    BY SSAFields
  <2> QED
    BY <2>1 DEF Vals
<1>2. ASSUME NEW v \in Vals(s)
      PROVE  LET t == Replaced(s.vals[v], phi, new)
                 u == s.vals[v]
             IN  /\ t \in Insts /\ t.kind = u.kind /\ t.block = u.block /\ t.from = u.from
                 /\ t.repl = u.repl /\ Len(t.ops) = Len(u.ops)
                 /\ \A i \in 1..Len(u.ops) :
                      \/ t.ops[i] = u.ops[i]
                      \/ u.ops[i] = phi /\ t.ops[i] = new
  <2> DEFINE u == s.vals[v]
             o == [i \in DOMAIN u.ops |-> IF u.ops[i] = phi THEN new ELSE u.ops[i]]
             t == Replaced(u, phi, new)
  <2>1. u \in Insts /\ u.ops \in Seq(Nat)
    BY SSAFields
  <2> HIDE DEF u
  <2>2. /\ o \in Seq(Nat) /\ Len(o) = Len(u.ops)
        /\ \A i \in 1..Len(u.ops) : o[i] = u.ops[i] \/ (u.ops[i] = phi /\ o[i] = new)
    <3>1. o \in [1..Len(u.ops) -> Nat] /\ Len(u.ops) \in Nat
      BY <2>1
    <3>2. \A i \in 1..Len(u.ops) : o[i] = u.ops[i] \/ (u.ops[i] = phi /\ o[i] = new)
      BY <2>1
    <3> HIDE DEF o
    <3> QED
      BY <3>1, <3>2
  <2>3. t = IF u.repl # NoVal THEN u ELSE [u EXCEPT !.ops = o]
    BY DEF Replaced
  <2> HIDE DEF o, t
  <2>4. CASE u.repl # NoVal
    BY <2>1, <2>3, <2>4 DEF t, u
  <2>5. CASE u.repl = NoVal
    <3>1. t = [u EXCEPT !.ops = o]
      BY <2>3, <2>5
    <3>2. /\ t \in Insts /\ t.kind = u.kind /\ t.block = u.block /\ t.from = u.from
          /\ t.repl = u.repl /\ t.ops = o
      BY <3>1, <2>1, <2>2 DEF Insts
    <3> QED
      BY <3>2, <2>2 DEF t, u
  <2> QED
    BY <2>4, <2>5
<1> DEFINE k(v) == Replaced(s.vals[v], phi, new)
<1>3. \A v \in Vals(s) : uses[v] = k(v)
  BY <1>1
<1>4. uses \in Seq(Insts) /\ Len(uses) = Len(s.vals)
  <2>1. uses \in [1..Len(s.vals) -> Insts]
    BY <1>1, <1>2 DEF Vals
  <2> HIDE DEF uses
  <2> QED
    BY <2>1, <1>1
<1>5. [uses[phi] EXCEPT !.repl = new] \in Insts
  BY <1>2, <1>3 DEF Insts
<1> HIDE DEF uses, k
<1>6. d \in Seq(Insts) /\ Len(d) = Len(s.vals) /\ d[phi] = [uses[phi] EXCEPT !.repl = new]
  BY <1>1, <1>4, <1>5 DEF Vals
<1>7. \A v \in Vals(s) : v # phi => d[v] = k(v)
  BY <1>1, <1>3, <1>4 DEF Vals
<1>8. /\ d[phi].kind = k(phi).kind /\ d[phi].block = k(phi).block /\ d[phi].from = k(phi).from
      /\ d[phi].ops = k(phi).ops /\ d[phi].repl = new
  <2>1. uses[phi] \in Insts
    BY <1>2, <1>3 DEF k
  <2>2. uses[phi] = k(phi)
    BY <1>3
  <2> QED
    BY <2>1, <2>2, <1>6 DEF Insts
<1>9. TryRemove(s, phi) = [s EXCEPT !.vals = d]
  <2>1. (CHOOSE z \in Same(s, phi) : TRUE) = new
    OBVIOUS
  <2>2. \E z \in Same(s, phi) : Same(s, phi) = {z}
    OBVIOUS
  <2> QED
    BY <2>1, <2>2 DEF TryRemove, d, uses
<1> HIDE DEF d
<1>10. /\ TryRemove(s, phi) \in SSAOf(X) /\ TryRemove(s, phi).vals = d
       /\ TryRemove(s, phi).defs = s.defs /\ TryRemove(s, phi).pending = s.pending
       /\ TryRemove(s, phi).lost = s.lost
  BY <1>6, <1>9 DEF SSAOf
<1>11. ASSUME NEW v \in Vals(s)
       PROVE  /\ d[v].kind = s.vals[v].kind /\ d[v].block = s.vals[v].block
              /\ d[v].from = s.vals[v].from
              /\ v # phi => d[v].repl = s.vals[v].repl
              /\ Len(d[v].ops) = Len(s.vals[v].ops)
              /\ \A i \in 1..Len(s.vals[v].ops) :
                   \/ d[v].ops[i] = s.vals[v].ops[i]
                   \/ s.vals[v].ops[i] = phi /\ d[v].ops[i] = new
  <2>1. CASE v = phi
    BY <2>1, <1>2, <1>8 DEF k
  <2>2. CASE v # phi
    BY <2>2, <1>2, <1>7 DEF k
  <2> QED
    BY <2>1, <2>2
<1> HIDE DEF Replaced
<1> QED
  BY <1>6, <1>8, <1>10, <1>11 DEF Cut

LEMMA CutSound ==
  ASSUME NEW g, NEW X, NEW w, NEW T, NEW s, NEW r, NEW of, Graph(g), Sound(g, X, w, T, s, r, of),
         NEW phi \in Vals(s), NEW new \in Vals(s), phi \notin T, s.vals[phi].kind = "phi",
         g[s.vals[phi].block].sealed, g[s.vals[phi].block].preds # <<>>,
         \A b \in DOMAIN g, y \in X : <<b, y, phi>> \in r => <<b, y, new>> \in r,
         \A p \in Preds(g, s.vals[phi].block) : AtEndOf(w, r, p, of[phi], new),
         NEW e, Cut(X, s, phi, new, e)
  PROVE  Sound(g, X, w, T, e, r, of)
<1>1. /\ e \in SSAOf(X) /\ e.defs = s.defs /\ e.pending = s.pending /\ e.lost = s.lost
      /\ Len(e.vals) = Len(s.vals) /\ e.vals[phi].repl = new
      /\ \A v \in Vals(s) :
           /\ e.vals[v].kind = s.vals[v].kind /\ e.vals[v].block = s.vals[v].block
           /\ e.vals[v].from = s.vals[v].from
           /\ v # phi => e.vals[v].repl = s.vals[v].repl
           /\ Len(e.vals[v].ops) = Len(s.vals[v].ops)
           /\ \A i \in 1..Len(s.vals[v].ops) :
                \/ e.vals[v].ops[i] = s.vals[v].ops[i]
                \/ s.vals[v].ops[i] = phi /\ e.vals[v].ops[i] = new
  BY DEF Cut
<1>2. Vals(e) = Vals(s)
  BY <1>1 DEF Vals
<1>3. Typed(g, X, e)
  BY <1>1, <1>2 DEF Sound, Typed
<1>4. Ghosts(g, X, w, e, r, of)
  BY <1>2 DEF Sound, Ghosts
<1>5. Writes(g, X, w, e, of)
  <2>1. Writes(g, X, w, s, of)
    BY DEF Sound
  <2> QED
    BY <2>1, <1>1, <1>2 DEF Writes
<1>6. Flows(g, X, w, e, r)
  <2>1. \A v \in Vals(s), b \in DOMAIN g : IsPhiOf(s, v, b) <=> IsPhiOf(e, v, b)
    BY <1>1 DEF IsPhiOf
  <2>2. \A v \in Vals(s) : e.vals[v].kind = s.vals[v].kind
    BY <1>1
  <2> QED
    BY <2>1, <2>2, <1>2 DEF Sound, Flows, Comes
<1>7. Linked(g, X, e, r)
  <2>1. \A v \in Vals(s) : v # phi => e.vals[v].repl = s.vals[v].repl
    BY <1>1
  <2> QED
    BY <2>1, <1>1, <1>2 DEF Sound, Linked
<1>8. ASSUME NEW p \in DOMAIN g, NEW y \in X, AtEndOf(w, r, p, y, phi)
      PROVE  AtEndOf(w, r, p, y, new)
  <2>1. w[p][y] = NoVal
    <3>1. w[p][y] # NoVal => s.vals[w[p][y]].kind = "def"
      BY DEF Sound, Writes
    <3> QED
      BY <3>1, <1>8 DEF AtEndOf
  <2> QED
    BY <2>1, <1>8 DEF AtEndOf
<1>9. Operands(g, w, e, r, of)
  <2>1. ASSUME NEW v \in Vals(e), e.vals[v].kind = "phi"
        PROVE  /\ Len(e.vals[v].ops) = Len(e.vals[v].from)
               /\ \A i \in 1..Len(e.vals[v].from) :
                    /\ e.vals[v].from[i] \in Preds(g, e.vals[v].block)
                    /\ e.vals[v].ops[i] \in Vals(e)
                    /\ AtEndOf(w, r, e.vals[v].from[i], of[v], e.vals[v].ops[i])
    <3>1. v \in Vals(s) /\ of[v] \in X /\ s.vals[v].block \in DOMAIN g
      BY <1>2 DEF Sound, Ghosts, Typed
    <3>2. /\ Len(s.vals[v].ops) = Len(s.vals[v].from)
          /\ \A i \in 1..Len(s.vals[v].from) :
               /\ s.vals[v].from[i] \in Preds(g, s.vals[v].block)
               /\ s.vals[v].ops[i] \in Vals(s)
               /\ AtEndOf(w, r, s.vals[v].from[i], of[v], s.vals[v].ops[i])
      BY <2>1, <3>1, <1>1 DEF Sound, Operands
    <3>3. Preds(g, s.vals[v].block) \subseteq DOMAIN g
      BY <3>1, PredsOf
    <3>4. ASSUME NEW i \in 1..Len(e.vals[v].from)
          PROVE  /\ e.vals[v].from[i] \in Preds(g, e.vals[v].block)
                 /\ e.vals[v].ops[i] \in Vals(e)
                 /\ AtEndOf(w, r, e.vals[v].from[i], of[v], e.vals[v].ops[i])
      <4>1. /\ i \in 1..Len(s.vals[v].ops) /\ e.vals[v].from[i] = s.vals[v].from[i]
            /\ \/ e.vals[v].ops[i] = s.vals[v].ops[i]
               \/ s.vals[v].ops[i] = phi /\ e.vals[v].ops[i] = new
        BY SMTT(60), <3>1, <3>2, <1>1
      <4>2. s.vals[v].from[i] \in DOMAIN g
        BY <4>1, <3>2, <3>3
      <4> QED
        BY SMTT(60), <4>1, <4>2, <3>1, <3>2, <1>1, <1>2, <1>8
    <3> QED
      BY <3>1, <3>2, <3>4, <1>1
  <2> QED
    BY <2>1 DEF Operands
<1>10. Filled(g, T, e)
  <2>1. Filled(g, T, s)
    BY DEF Sound
  <2> QED
    BY <2>1, <1>1, <1>2 DEF Filled
<1>11. PhisDue(g, T, e, of)
  <2>1. PhisDue(g, T, s, of)
    BY DEF Sound
  <2>2. \A u \in Vals(s), b \in DOMAIN g : IsPhiOf(s, u, b) <=> IsPhiOf(e, u, b)
    BY <1>1 DEF IsPhiOf
  <2>3. \A v \in Vals(s) : /\ e.vals[v].kind = s.vals[v].kind /\ e.vals[v].block = s.vals[v].block
                           /\ e.vals[v].from = s.vals[v].from
    BY <1>1
  <2>4. \A u \in Vals(e) : e.vals[u].kind = "phi" /\ ~g[e.vals[u].block].sealed /\ u \notin T
          => /\ e.vals[u].from = <<>>
             /\ \E i \in 1..Len(e.pending[e.vals[u].block]) :
                  e.pending[e.vals[u].block][i][2] = u
    BY SMTT(60), <2>1, <2>3, <1>1, <1>2 DEF PhisDue
  <2>5. ASSUME NEW c \in DOMAIN g, ~g[c].sealed
        PROVE  /\ \A i \in 1..Len(e.pending[c]) : LET q == e.pending[c][i] IN
                    q[2] \in Vals(e) /\ q[2] \notin T /\ IsPhiOf(e, q[2], c) /\ of[q[2]] = q[1]
               /\ \A i, j \in 1..Len(e.pending[c]) :
                    e.pending[c][i][2] = e.pending[c][j][2] => i = j
    BY <2>1, <2>2, <2>5, <1>1, <1>2 DEF PhisDue
  <2> QED
    BY <2>4, <2>5 DEF PhisDue
<1>12. Removed(g, T, w, e, r, of)
  <2>1. Removed(g, T, w, s, r, of)
    BY DEF Sound
  <2>2. ASSUME NEW v \in Vals(e), e.vals[v].repl # NoVal
        PROVE  /\ e.vals[v].kind = "phi" /\ v \notin T /\ e.vals[v].repl \in Vals(e)
               /\ g[e.vals[v].block].sealed /\ g[e.vals[v].block].preds # <<>>
               /\ \A p \in Preds(g, e.vals[v].block) : AtEndOf(w, r, p, of[v], e.vals[v].repl)
    <3>1. CASE v = phi
      BY <3>1, <1>1, <1>2
    <3>2. CASE v # phi
      <4>1. /\ v \in Vals(s) /\ e.vals[v].repl = s.vals[v].repl
            /\ e.vals[v].kind = s.vals[v].kind /\ e.vals[v].block = s.vals[v].block
        BY <3>2, <1>1, <1>2
      <4>2. /\ s.vals[v].kind = "phi" /\ v \notin T /\ s.vals[v].repl \in Vals(s)
            /\ g[s.vals[v].block].sealed /\ g[s.vals[v].block].preds # <<>>
            /\ \A p \in Preds(g, s.vals[v].block) : AtEndOf(w, r, p, of[v], s.vals[v].repl)
        BY <4>1, <2>1, <2>2 DEF Removed
      <4> QED
        BY <4>1, <4>2, <1>2
    <3> QED
      BY <3>1, <3>2
  <2> QED
    BY <2>2 DEF Removed
<1>13. Definitions(g, X, w, e, r)
  BY <1>1, <1>2 DEF Sound, Definitions
<1> QED
  BY <1>3, <1>4, <1>5, <1>6, <1>7, <1>9, <1>10, <1>11, <1>12, <1>13 DEF Sound

Tried(g, X, w, T, s, r, of, phi, e) ==
  /\ \E q : r \subseteq q /\ Sound(g, X, w, T, e, q, of)
  /\ Later(X, {phi}, s, e) /\ e.lost = FALSE
  /\ e.pending = s.pending /\ e.defs = s.defs /\ Len(e.vals) = Len(s.vals)

\* Whatever stands for a variable where every predecessor ends, but for those
\* the phi itself comes from, may stand where the phi does.
LEMMA RemoveSound ==
  ASSUME NEW g, NEW X, NEW w, NEW T, NEW s, NEW r, NEW of, Graph(g), Sound(g, X, w, T, s, r, of),
         NEW phi \in Vals(s), phi \notin T, s.vals[phi].kind = "phi", s.vals[phi].repl = NoVal,
         g[s.vals[phi].block].sealed, s.vals[phi].from = g[s.vals[phi].block].preds
  PROVE  Tried(g, X, w, T, s, r, of, phi, TryRemove(s, phi))
<1>0. s \in SSAOf(X) /\ s.lost = FALSE /\ Len(s.vals) \in Nat
  BY SSAFields DEF Sound, Typed
<1>1. CASE ~Trivial(s, phi)
  <2>1. TryRemove(s, phi) = s
    BY <1>1 DEF TryRemove, Trivial
  <2>2. Later(X, {phi}, s, s)
    BY <1>0 DEF Later
  <2>3. Tried(g, X, w, T, s, r, of, phi, s)
    BY <1>0, <2>2 DEF Tried
  <2> QED
    BY <2>1, <2>3
<1>2. CASE Trivial(s, phi)
  <2> DEFINE b0 == s.vals[phi].block
             x == of[phi]
             ps == g[b0].preds
             stands(u) == /\ \A p \in Preds(g, b0) : AtEndOf(w, r, p, x, u) \/ AtEndOf(w, r, p, x, phi)
                          /\ \E p \in Preds(g, b0) : AtEndOf(w, r, p, x, u)
             C == {u \in Vals(s) : stands(u)}
             q == r \cup {t \in (DOMAIN g) \X X \X Vals(s) :
                            <<t[1], t[2], phi>> \in r /\ t[3] \in C}
  <2>1. PICK new \in Same(s, phi) : Same(s, phi) = {new}
    BY <1>2 DEF Trivial
  <2>2. b0 \in DOMAIN g /\ x \in X /\ Preds(g, b0) \subseteq DOMAIN g
    BY PredsOf DEF Sound, Typed, Ghosts
  <2>3. /\ Len(s.vals[phi].ops) = Len(ps) /\ Len(ps) \in Nat
        /\ \A i \in 1..Len(ps) : /\ ps[i] \in Preds(g, b0) /\ s.vals[phi].ops[i] \in Vals(s)
                                 /\ AtEndOf(w, r, ps[i], x, s.vals[phi].ops[i])
    <3>1. Len(ps) \in Nat
      BY <2>2, PredsOf
    <3> QED
      BY <3>1 DEF Sound, Operands
  <2>4. DOMAIN s.vals[phi].ops = 1..Len(ps)
    <3>1. s.vals[phi].ops \in Seq(Nat)
      BY <1>0, SSAFields
    <3> QED
      BY <3>1, <2>3
  <2>5. \A i \in 1..Len(ps) : s.vals[phi].ops[i] = phi \/ s.vals[phi].ops[i] = new
    BY <2>1, <2>4 DEF Same
  <2>6. PICK i0 \in 1..Len(ps) : s.vals[phi].ops[i0] = new
    BY <2>1, <2>4 DEF Same
  <2>7. /\ new \in Vals(s) /\ ps[i0] \in Preds(g, b0) /\ AtEndOf(w, r, ps[i0], x, new)
        /\ ps # <<>>
    <3>1. ps # <<>>
      BY <2>6, <2>2, PredsOf
    <3> QED
      BY <2>3, <2>6, <3>1
  <2>8. \A p \in Preds(g, b0) : \E i \in 1..Len(ps) : p = ps[i]
    <3>1. DOMAIN ps = 1..Len(ps)
      BY <2>2, PredsOf
    <3> QED
      BY <3>1 DEF Preds
  <2>9. new \in C
    <3>1. ASSUME NEW p \in Preds(g, b0) PROVE AtEndOf(w, r, p, x, new) \/ AtEndOf(w, r, p, x, phi)
      <4>1. PICK i \in 1..Len(ps) : p = ps[i]
        BY <2>8
      <4> QED
        BY <4>1, <2>3, <2>5
    <3> QED
      BY <3>1, <2>7
  <2> HIDE DEF ps
  <2>9a. ASSUME NEW p \in DOMAIN g, NEW y \in X, NEW u \in Vals(s), AtEndOf(w, r, p, y, u)
         PROVE  of[u] = y
    <3>1. w[p][y] # NoVal => of[w[p][y]] = y
      BY DEF Sound, Writes
    <3>2. <<p, y, u>> \in r => of[u] = y
      BY DEF Sound, Ghosts
    <3> QED
      BY <3>1, <3>2, <2>9a DEF AtEndOf
  <2>10. ASSUME NEW p \in DOMAIN g, NEW y \in X, NEW u \in Vals(s), AtEndOf(w, r, p, y, u)
         PROVE  /\ s.vals[u].kind # "def" => w[p][y] = NoVal /\ <<p, y, u>> \in r
                /\ s.vals[u].repl # NoVal =>
                     s.vals[u].repl \in Vals(s) /\ AtEndOf(w, r, p, y, s.vals[u].repl)
    <3>1. w[p][y] # NoVal => s.vals[w[p][y]].kind = "def"
      BY DEF Sound, Writes
    <3>2. s.vals[u].repl # NoVal => s.vals[u].kind = "phi" /\ s.vals[u].repl \in Vals(s)
      BY DEF Sound, Removed
    <3>3. CASE w[p][y] # NoVal
      BY <3>1, <3>2, <3>3, <2>10 DEF AtEndOf
    <3>4. CASE w[p][y] = NoVal
      <4>1. <<p, y, u>> \in r
        BY <3>4, <2>10 DEF AtEndOf
      <4>2. s.vals[u].repl # NoVal => <<p, y, s.vals[u].repl>> \in r
        BY <4>1 DEF Sound, Linked
      <4> QED
        BY <3>2, <3>4, <4>1, <4>2 DEF AtEndOf
    <3> QED
      BY <3>3, <3>4
  <2>11. \A u \in C : /\ of[u] = x
                      /\ s.vals[u].repl # NoVal => s.vals[u].repl \in C
    <3>1. ASSUME NEW u \in C PROVE of[u] = x
      <4>1. PICK p \in Preds(g, b0) : AtEndOf(w, r, p, x, u)
        OBVIOUS
      <4>2. p \in DOMAIN g /\ u \in Vals(s) /\ x \in X
        BY <2>2
      <4> HIDE DEF x, C, q, stands
      <4> QED
        BY <4>1, <4>2, <2>9a
    <3>2. ASSUME NEW u \in C, s.vals[u].repl # NoVal PROVE s.vals[u].repl \in C
      <4>1. PICK p \in Preds(g, b0) : AtEndOf(w, r, p, x, u)
        OBVIOUS
      <4>2. s.vals[u].repl \in Vals(s) /\ AtEndOf(w, r, p, x, s.vals[u].repl)
        BY <4>1, <3>2, <2>2, <2>10
      <4>3. \A k \in Preds(g, b0) : AtEndOf(w, r, k, x, s.vals[u].repl) \/ AtEndOf(w, r, k, x, phi)
        BY <3>2, <2>2, <2>10
      <4> QED
        BY <4>2, <4>3
    <3> QED
      BY <3>1, <3>2
  <2>12. \A u \in C : /\ u \in Vals(s)
                      /\ \A p \in Preds(g, b0) : AtEndOf(w, r, p, x, u) \/ AtEndOf(w, r, p, x, phi)
    OBVIOUS
  <2> HIDE DEF C
  <2>13. r \subseteq q /\ q \subseteq (DOMAIN g) \X X \X Vals(s)
    BY DEF Sound, Ghosts
  <2>14. ASSUME NEW b \in DOMAIN g, NEW y \in X, NEW u \in C, <<b, y, phi>> \in r
         PROVE  <<b, y, u>> \in q /\ y = x
    <3>1. y = x
      BY <2>14 DEF Sound, Ghosts
    <3>2. u \in Vals(s)
      BY <2>12
    <3> DEFINE t == <<b, y, u>>
    <3>3. t \in (DOMAIN g) \X X \X Vals(s) /\ t[1] = b /\ t[2] = y /\ t[3] = u
      BY <3>2
    <3> HIDE DEF t
    <3>4. t \in q
      BY <3>3, <2>14
    <3> QED
      BY <3>1, <3>4 DEF t
  <2>15. ASSUME NEW b \in DOMAIN g, NEW y \in X, NEW u \in Vals(s), <<b, y, u>> \in q, <<b, y, u>> \notin r
         PROVE  <<b, y, phi>> \in r /\ u \in C
    <3> DEFINE t == <<b, y, u>>
    <3>1. t[1] = b /\ t[2] = y /\ t[3] = u /\ t \in q /\ t \notin r
      BY <2>15
    <3> HIDE DEF t
    <3> QED
      BY <3>1
  <2> HIDE DEF q
  <2>16. \A p \in DOMAIN g, y \in X, u \in Vals(s) :
           AtEndOf(w, r, p, y, u) => AtEndOf(w, q, p, y, u)
    BY <2>13 DEF AtEndOf
  <2>17. ASSUME NEW p \in DOMAIN g, NEW u \in C, AtEndOf(w, r, p, x, phi) PROVE AtEndOf(w, q, p, x, u)
    <3>1. w[p][x] = NoVal /\ <<p, x, phi>> \in r
      BY <2>2, <2>10, <2>17
    <3> QED
      BY <3>1, <2>2, <2>14 DEF AtEndOf
  <2>18. ASSUME NEW b \in DOMAIN g, NEW y \in X, NEW u \in Vals(s), <<b, y, u>> \in q, <<b, y, u>> \notin r
         PROVE  /\ Comes(g, w, s, q, b, y, u) /\ of[u] = y
                /\ s.vals[u].repl # NoVal => <<b, y, s.vals[u].repl>> \in q
    <3>1. <<b, y, phi>> \in r /\ u \in C
      BY <2>15, <2>18
    <3>2. y = x /\ of[u] = x
      BY <3>1, <2>11, <2>14
    <3>3. s.vals[u].repl # NoVal => <<b, y, s.vals[u].repl>> \in q
      BY <3>1, <2>11, <2>14
    <3>4. Comes(g, w, s, r, b, y, phi)
      BY <3>1 DEF Sound, Flows
    <3>5. CASE IsPhiOf(s, phi, b)
      <4>1. b = b0
        BY <3>5 DEF IsPhiOf
      <4>2. \A p \in Preds(g, b) : AtEndOf(w, q, p, y, u)
        BY <4>1, <3>1, <3>2, <2>2, <2>12, <2>16, <2>17
      <4> QED
        BY <4>1, <4>2, <3>2, <3>3, <2>7 DEF Comes, ps
    <3>6. CASE ~IsPhiOf(s, phi, b)
      <4>1. /\ g[b].sealed /\ g[b].preds # <<>>
            /\ \A p \in Preds(g, b) : AtEndOf(w, r, p, y, phi)
        BY <3>4, <3>6 DEF Comes
      <4>2. Preds(g, b) \subseteq DOMAIN g
        BY PredsOf
      <4>3. \A p \in Preds(g, b) : AtEndOf(w, q, p, y, u)
        BY <4>1, <4>2, <3>1, <3>2, <2>17
      <4> QED
        BY <4>1, <4>3, <3>2, <3>3 DEF Comes
    <3> QED
      BY <3>5, <3>6
  <2>19. Sound(g, X, w, T, s, q, of)
    BY <2>13, <2>18, MoreSound
  <2>20. ASSUME NEW b \in DOMAIN g, NEW y \in X, <<b, y, phi>> \in q PROVE <<b, y, new>> \in q
    <3>1. <<b, y, phi>> \in r
      BY <2>15, <2>20
    <3> QED
      BY <3>1, <2>9, <2>14
  <2>21. \A p \in Preds(g, b0) : AtEndOf(w, q, p, x, new)
    BY <2>2, <2>7, <2>9, <2>12, <2>16, <2>17
  <2>22. Cut(X, s, phi, new, TryRemove(s, phi))
    <3>1. new \in Nat
      BY <2>7, <1>0 DEF Vals
    <3> QED
      BY <3>1, <2>1, <1>0, CutFields
  <2> DEFINE e == TryRemove(s, phi)
  <2>23. g[b0].preds # <<>>
    BY <2>7 DEF ps
  <2> HIDE DEF e, b0, x
  <2>24. Sound(g, X, w, T, e, q, of)
    BY <2>7, <2>19, <2>20, <2>21, <2>22, <2>23, CutSound DEF b0, x, e
  <2>25. /\ Later(X, {phi}, s, e) /\ e.lost = FALSE /\ e.pending = s.pending /\ e.defs = s.defs
         /\ Len(e.vals) = Len(s.vals)
    BY <2>22, <1>0 DEF Cut, Later, Vals, e
  <2>26. Tried(g, X, w, T, s, r, of, phi, e)
    <3> HIDE DEF e
    <3> QED
      BY <2>13, <2>24, <2>25 DEF Tried
  <2> QED
    BY <2>26 DEF e
<1> QED
  BY <1>1, <1>2

-----------------------------------------------------------------------------
(* The recursions, unfolded. *)

\* The operands of a phi are added one after the other.
LEMMA AddOperandsSteps ==
  ASSUME NEW g, NEW s, NEW b, NEW phi, NEW deeper, Len(g[b].preds) \in Nat
  PROVE  \E f : /\ f[0] = s
                /\ \A i \in 1..Len(g[b].preds) : f[i] = AddOperand(deeper, phi, f[i - 1], g[b].preds[i])
                /\ AddOperands(g, s, b, phi, deeper) =
                     IF f[Len(g[b].preds)].lost THEN f[Len(g[b].preds)]
                     ELSE TryRemove(f[Len(g[b].preds)], phi)
<1> DEFINE N == Len(g[b].preds)
           body(f, k) == [i \in 0..k |-> IF i = 0 THEN s ELSE AddOperand(deeper, phi, f[i - 1], g[b].preds[i])]
           Bad == {k \in Nat : ~ \E f : f = body(f, k)}
<1>1. Bad = {}
  <2>1. SUFFICES ASSUME Bad # {} PROVE FALSE
    OBVIOUS
  <2>2. PICK k \in Bad : \A j \in Bad : k <= j
    BY <2>1, LeastOf
  <2>3. k \in Nat /\ ~ \E f : f = body(f, k)
    BY <2>2
  <2>4. ASSUME NEW j \in Nat, j < k PROVE \E f : f = body(f, j)
    <3>1. j \notin Bad
      <4> HIDE DEF Bad
      <4> QED
        BY <2>2, <2>3, <2>4
    <3> QED
      BY <3>1
  <2> HIDE DEF Bad
  <2>5. CASE k = 0
    <3> DEFINE h == [i \in 0..k |-> s]
    <3>1. \A i \in 0..k : i = 0
      BY <2>3, <2>5
    <3>2. h = body(h, k)
      BY <3>1
    <3> QED
      BY <2>3, <3>2
  <2>6. CASE k # 0
    <3>1. k - 1 \in Nat /\ k - 1 < k
      BY <2>3, <2>6
    <3>2. PICK f : f = body(f, k - 1)
      BY <2>4, <3>1
    <3> DEFINE e(i, t) == AddOperand(deeper, phi, t, g[b].preds[i])
               h == [i \in 0..k |-> IF i = k THEN e(k, f[k - 1]) ELSE f[i]]
               val(i) == IF i = 0 THEN s ELSE AddOperand(deeper, phi, h[i - 1], g[b].preds[i])
    <3>3. ASSUME NEW i \in 0..k PROVE h[i] = val(i)
      <4>1. CASE i = k
        <5>1. i # 0 /\ i - 1 \in 0..k /\ i - 1 # k
          BY <4>1, <2>6, <3>1
        <5>2. h[i] = e(k, f[k - 1]) /\ h[i - 1] = f[k - 1]
          BY <4>1, <5>1
        <5> HIDE DEF h
        <5> QED
          BY <5>1, <5>2, <4>1
      <4>2. CASE i # k
        <5>1. i \in 0..(k - 1) /\ (i # 0 => i - 1 \in 0..k /\ i - 1 # k)
          BY <4>2, <3>1, <2>3
        <5>2. f[i] = IF i = 0 THEN s ELSE AddOperand(deeper, phi, f[i - 1], g[b].preds[i])
          BY <3>2, <5>1
        <5>3. h[i] = f[i] /\ (i # 0 => h[i - 1] = f[i - 1])
          BY <4>2, <5>1
        <5> HIDE DEF h
        <5> QED
          BY <5>1, <5>2, <5>3
      <4> QED
        BY <4>1, <4>2
    <3>4. h = [i \in 0..k |-> h[i]]
      OBVIOUS
    <3> HIDE DEF h
    <3>5. h = body(h, k)
      BY <3>3, <3>4
    <3> QED
      BY <2>3, <3>5
  <2> QED
    BY <2>5, <2>6
<1> DEFINE c == CHOOSE f : f = body(f, N)
<1>2. N \in Nat
  OBVIOUS
<1>3. \E f : f = body(f, N)
  BY <1>1, <1>2
<1>4. c = body(c, N)
  BY <1>3
<1>5. c[0] = s /\ \A i \in 1..N : c[i] = AddOperand(deeper, phi, c[i - 1], g[b].preds[i])
  <2> HIDE DEF c
  <2>1. \A i \in 0..N : c[i] = IF i = 0 THEN s ELSE AddOperand(deeper, phi, c[i - 1], g[b].preds[i])
    BY <1>4
  <2> QED
    BY <2>1, <1>2
<1>6. AddOperands(g, s, b, phi, deeper) =
                     IF c[Len(g[b].preds)].lost THEN c[Len(g[b].preds)]
                     ELSE TryRemove(c[Len(g[b].preds)], phi)
  BY DEF AddOperands
<1> QED
  BY <1>5, <1>6

\* The pending phis of a block are completed one after the other.
LEMMA CompletePhisSteps ==
  ASSUME NEW g, NEW s, NEW b, Len(s.pending[b]) \in Nat
  PROVE  \E f : /\ f[0] = s
                /\ \A i \in 1..Len(s.pending[b]) : f[i] = Complete(g, f[i - 1], b, s.pending[b][i])
                /\ CompletePhis(g, s, b) = f[Len(s.pending[b])]
<1> DEFINE N == Len(s.pending[b])
           body(f, k) == [i \in 0..k |-> IF i = 0 THEN s ELSE Complete(g, f[i - 1], b, s.pending[b][i])]
           Bad == {k \in Nat : ~ \E f : f = body(f, k)}
<1>1. Bad = {}
  <2>1. SUFFICES ASSUME Bad # {} PROVE FALSE
    OBVIOUS
  <2>2. PICK k \in Bad : \A j \in Bad : k <= j
    BY <2>1, LeastOf
  <2>3. k \in Nat /\ ~ \E f : f = body(f, k)
    BY <2>2
  <2>4. ASSUME NEW j \in Nat, j < k PROVE \E f : f = body(f, j)
    <3>1. j \notin Bad
      <4> HIDE DEF Bad
      <4> QED
        BY <2>2, <2>3, <2>4
    <3> QED
      BY <3>1
  <2> HIDE DEF Bad
  <2>5. CASE k = 0
    <3> DEFINE h == [i \in 0..k |-> s]
    <3>1. \A i \in 0..k : i = 0
      BY <2>3, <2>5
    <3>2. h = body(h, k)
      BY <3>1
    <3> QED
      BY <2>3, <3>2
  <2>6. CASE k # 0
    <3>1. k - 1 \in Nat /\ k - 1 < k
      BY <2>3, <2>6
    <3>2. PICK f : f = body(f, k - 1)
      BY <2>4, <3>1
    <3> DEFINE e(i, t) == Complete(g, t, b, s.pending[b][i])
               h == [i \in 0..k |-> IF i = k THEN e(k, f[k - 1]) ELSE f[i]]
               val(i) == IF i = 0 THEN s ELSE Complete(g, h[i - 1], b, s.pending[b][i])
    <3>3. ASSUME NEW i \in 0..k PROVE h[i] = val(i)
      <4>1. CASE i = k
        <5>1. i # 0 /\ i - 1 \in 0..k /\ i - 1 # k
          BY <4>1, <2>6, <3>1
        <5>2. h[i] = e(k, f[k - 1]) /\ h[i - 1] = f[k - 1]
          BY <4>1, <5>1
        <5> HIDE DEF h
        <5> QED
          BY <5>1, <5>2, <4>1
      <4>2. CASE i # k
        <5>1. i \in 0..(k - 1) /\ (i # 0 => i - 1 \in 0..k /\ i - 1 # k)
          BY <4>2, <3>1, <2>3
        <5>2. f[i] = IF i = 0 THEN s ELSE Complete(g, f[i - 1], b, s.pending[b][i])
          BY <3>2, <5>1
        <5>3. h[i] = f[i] /\ (i # 0 => h[i - 1] = f[i - 1])
          BY <4>2, <5>1
        <5> HIDE DEF h
        <5> QED
          BY <5>1, <5>2, <5>3
      <4> QED
        BY <4>1, <4>2
    <3>4. h = [i \in 0..k |-> h[i]]
      OBVIOUS
    <3> HIDE DEF h
    <3>5. h = body(h, k)
      BY <3>3, <3>4
    <3> QED
      BY <2>3, <3>5
  <2> QED
    BY <2>5, <2>6
<1> DEFINE c == CHOOSE f : f = body(f, N)
<1>2. N \in Nat
  OBVIOUS
<1>3. \E f : f = body(f, N)
  BY <1>1, <1>2
<1>4. c = body(c, N)
  BY <1>3
<1>5. c[0] = s /\ \A i \in 1..N : c[i] = Complete(g, c[i - 1], b, s.pending[b][i])
  <2> HIDE DEF c
  <2>1. \A i \in 0..N : c[i] = IF i = 0 THEN s ELSE Complete(g, c[i - 1], b, s.pending[b][i])
    BY <1>4
  <2> QED
    BY <2>1, <1>2
<1>6. CompletePhis(g, s, b) = c[Len(s.pending[b])]
  BY DEF CompletePhis
<1> QED
  BY <1>5, <1>6

\* The links of a chain.
LEMMA ChaseSteps ==
  ASSUME NEW vals, NEW v, Len(vals) \in Nat
  PROVE  \E f : /\ f[0] = v
                /\ \A i \in 1..Len(vals) : f[i] = Link(vals, f[i - 1])
                /\ Chase(vals, v) = f[Len(vals)]
<1> DEFINE N == Len(vals)
           body(f, k) == [i \in 0..k |-> IF i = 0 THEN v ELSE Link(vals, f[i - 1])]
           Bad == {k \in Nat : ~ \E f : f = body(f, k)}
<1>1. Bad = {}
  <2>1. SUFFICES ASSUME Bad # {} PROVE FALSE
    OBVIOUS
  <2>2. PICK k \in Bad : \A j \in Bad : k <= j
    BY <2>1, LeastOf
  <2>3. k \in Nat /\ ~ \E f : f = body(f, k)
    BY <2>2
  <2>4. ASSUME NEW j \in Nat, j < k PROVE \E f : f = body(f, j)
    <3>1. j \notin Bad
      <4> HIDE DEF Bad
      <4> QED
        BY <2>2, <2>3, <2>4
    <3> QED
      BY <3>1
  <2> HIDE DEF Bad
  <2>5. CASE k = 0
    <3> DEFINE h == [i \in 0..k |-> v]
    <3>1. \A i \in 0..k : i = 0
      BY <2>3, <2>5
    <3>2. h = body(h, k)
      BY <3>1
    <3> QED
      BY <2>3, <3>2
  <2>6. CASE k # 0
    <3>1. k - 1 \in Nat /\ k - 1 < k
      BY <2>3, <2>6
    <3>2. PICK f : f = body(f, k - 1)
      BY <2>4, <3>1
    <3> DEFINE e(i, t) == Link(vals, t)
               h == [i \in 0..k |-> IF i = k THEN e(k, f[k - 1]) ELSE f[i]]
               val(i) == IF i = 0 THEN v ELSE Link(vals, h[i - 1])
    <3>3. ASSUME NEW i \in 0..k PROVE h[i] = val(i)
      <4>1. CASE i = k
        <5>1. i # 0 /\ i - 1 \in 0..k /\ i - 1 # k
          BY <4>1, <2>6, <3>1
        <5>2. h[i] = e(k, f[k - 1]) /\ h[i - 1] = f[k - 1]
          BY <4>1, <5>1
        <5> HIDE DEF h
        <5> QED
          BY <5>1, <5>2, <4>1
      <4>2. CASE i # k
        <5>1. i \in 0..(k - 1) /\ (i # 0 => i - 1 \in 0..k /\ i - 1 # k)
          BY <4>2, <3>1, <2>3
        <5>2. f[i] = IF i = 0 THEN v ELSE Link(vals, f[i - 1])
          BY <3>2, <5>1
        <5>3. h[i] = f[i] /\ (i # 0 => h[i - 1] = f[i - 1])
          BY <4>2, <5>1
        <5> HIDE DEF h
        <5> QED
          BY <5>1, <5>2, <5>3
      <4> QED
        BY <4>1, <4>2
    <3>4. h = [i \in 0..k |-> h[i]]
      OBVIOUS
    <3> HIDE DEF h
    <3>5. h = body(h, k)
      BY <3>3, <3>4
    <3> QED
      BY <2>3, <3>5
  <2> QED
    BY <2>5, <2>6
<1> DEFINE c == CHOOSE f : f = body(f, N)
<1>2. N \in Nat
  OBVIOUS
<1>3. \E f : f = body(f, N)
  BY <1>1, <1>2
<1>4. c = body(c, N)
  BY <1>3
<1>5. c[0] = v /\ \A i \in 1..N : c[i] = Link(vals, c[i - 1])
  <2> HIDE DEF c
  <2>1. \A i \in 0..N : c[i] = IF i = 0 THEN v ELSE Link(vals, c[i - 1])
    BY <1>4
  <2> QED
    BY <2>1, <1>2
<1>6. Chase(vals, v) = c[Len(vals)]
  BY DEF Chase
<1> QED
  BY <1>5, <1>6

\* The calls of a search, by how many more may be active.
LEMMA SearchSteps ==
  ASSUME NEW g, NEW x, NEW X, MaxCalls(g) \in Nat
  PROVE  \E f : /\ f[0] = NoCalls(g, X)
                /\ \A i \in 1..MaxCalls(g) : f[i] = OneCall(g, x, X, f[i - 1])
                /\ Search(g, x, X) = f[MaxCalls(g)]
<1> DEFINE N == MaxCalls(g)
           body(f, k) == [i \in 0..k |-> IF i = 0 THEN NoCalls(g, X) ELSE OneCall(g, x, X, f[i - 1])]
           Bad == {k \in Nat : ~ \E f : f = body(f, k)}
<1>1. Bad = {}
  <2>1. SUFFICES ASSUME Bad # {} PROVE FALSE
    OBVIOUS
  <2>2. PICK k \in Bad : \A j \in Bad : k <= j
    BY <2>1, LeastOf
  <2>3. k \in Nat /\ ~ \E f : f = body(f, k)
    BY <2>2
  <2>4. ASSUME NEW j \in Nat, j < k PROVE \E f : f = body(f, j)
    <3>1. j \notin Bad
      <4> HIDE DEF Bad
      <4> QED
        BY <2>2, <2>3, <2>4
    <3> QED
      BY <3>1
  <2> HIDE DEF Bad
  <2>5. CASE k = 0
    <3> DEFINE h == [i \in 0..k |-> NoCalls(g, X)]
    <3>1. \A i \in 0..k : i = 0
      BY <2>3, <2>5
    <3>2. h = body(h, k)
      BY <3>1
    <3> QED
      BY <2>3, <3>2
  <2>6. CASE k # 0
    <3>1. k - 1 \in Nat /\ k - 1 < k
      BY <2>3, <2>6
    <3>2. PICK f : f = body(f, k - 1)
      BY <2>4, <3>1
    <3> DEFINE e(i, t) == OneCall(g, x, X, t)
               h == [i \in 0..k |-> IF i = k THEN e(k, f[k - 1]) ELSE f[i]]
               val(i) == IF i = 0 THEN NoCalls(g, X) ELSE OneCall(g, x, X, h[i - 1])
    <3>3. ASSUME NEW i \in 0..k PROVE h[i] = val(i)
      <4>1. CASE i = k
        <5>1. i # 0 /\ i - 1 \in 0..k /\ i - 1 # k
          BY <4>1, <2>6, <3>1
        <5>2. h[i] = e(k, f[k - 1]) /\ h[i - 1] = f[k - 1]
          BY <4>1, <5>1
        <5> HIDE DEF h
        <5> QED
          BY <5>1, <5>2, <4>1
      <4>2. CASE i # k
        <5>1. i \in 0..(k - 1) /\ (i # 0 => i - 1 \in 0..k /\ i - 1 # k)
          BY <4>2, <3>1, <2>3
        <5>2. f[i] = IF i = 0 THEN NoCalls(g, X) ELSE OneCall(g, x, X, f[i - 1])
          BY <3>2, <5>1
        <5>3. h[i] = f[i] /\ (i # 0 => h[i - 1] = f[i - 1])
          BY <4>2, <5>1
        <5> HIDE DEF h
        <5> QED
          BY <5>1, <5>2, <5>3
      <4> QED
        BY <4>1, <4>2
    <3>4. h = [i \in 0..k |-> h[i]]
      OBVIOUS
    <3> HIDE DEF h
    <3>5. h = body(h, k)
      BY <3>3, <3>4
    <3> QED
      BY <2>3, <3>5
  <2> QED
    BY <2>5, <2>6
<1> DEFINE c == CHOOSE f : f = body(f, N)
<1>2. N \in Nat
  OBVIOUS
<1>3. \E f : f = body(f, N)
  BY <1>1, <1>2
<1>4. c = body(c, N)
  BY <1>3
<1>5. c[0] = NoCalls(g, X) /\ \A i \in 1..N : c[i] = OneCall(g, x, X, c[i - 1])
  <2> HIDE DEF c
  <2>1. \A i \in 0..N : c[i] = IF i = 0 THEN NoCalls(g, X) ELSE OneCall(g, x, X, c[i - 1])
    BY <1>4
  <2> QED
    BY <2>1, <1>2
<1>6. Search(g, x, X) = c[MaxCalls(g)]
  BY DEF Search
<1> QED
  BY <1>5, <1>6

-----------------------------------------------------------------------------
(* Chains of removed phis. *)

Chained(vals, v, f) ==
  /\ f[0] = v /\ \A i \in 1..Len(vals) : f[i] = Link(vals, f[i - 1])
  /\ Chase(vals, v) = f[Len(vals)]

LEMMA ChainOf ==
  ASSUME NEW vals, NEW v, Len(vals) \in Nat
  PROVE  \E f : Chained(vals, v, f)
BY ChaseSteps DEF Chained

LEMMA ChaseIn ==
  ASSUME NEW vals, Len(vals) \in Nat, NEW P, NEW v, v \in P, \A u \in P : Link(vals, u) \in P
  PROVE  Chase(vals, v) \in P
<1>0. PICK f : Chained(vals, v, f)
  BY ChainOf
<1>1. /\ f[0] = v /\ \A i \in 1..Len(vals) : f[i] = Link(vals, f[i - 1])
      /\ Chase(vals, v) = f[Len(vals)]
  BY <1>0 DEF Chained
<1> DEFINE Bad == {i \in 0..Len(vals) : f[i] \notin P}
<1>2. Bad \subseteq Nat
  OBVIOUS
<1>3. Bad = {}
  <2>1. SUFFICES ASSUME Bad # {} PROVE FALSE
    OBVIOUS
  <2>2. PICK k \in Bad : \A j \in Bad : k <= j
    BY <2>1, <1>2, LeastOf
  <2>3. k # 0
    BY <1>1, <2>2
  <2>4. k - 1 \in 0..Len(vals) /\ k \in 1..Len(vals) /\ ~(k <= k - 1)
    BY <2>3, <2>2
  <2>5. f[k - 1] \in P
    BY <2>2, <2>4
  <2> QED
    BY <1>1, <2>2, <2>4, <2>5
<1>4. Len(vals) \in 0..Len(vals)
  OBVIOUS
<1> QED
  BY <1>1, <1>3, <1>4

\* A chain that has not ended after as many links as there are values is in a
\* cycle of removed phis.
LEMMA EndlessCycle ==
  ASSUME NEW vals, Len(vals) \in Nat, NEW v \in 1..Len(vals), Endless(vals, v),
         \A u \in 1..Len(vals) : vals[u].repl # NoVal => vals[u].repl \in 1..Len(vals)
  PROVE  \E U : /\ U \subseteq 1..Len(vals) /\ v \in U
                /\ \A u \in U : vals[u].repl # NoVal /\ vals[u].repl \in U
<1> DEFINE N == Len(vals)
<1>1. PICK f : /\ f[0] = v /\ \A i \in 1..N : f[i] = Link(vals, f[i - 1])
               /\ Chase(vals, v) = f[N]
  BY ChaseSteps
<1>2. \A i \in 1..N : i - 1 \in 0..N /\ i \in 0..N
  OBVIOUS
<1>3. \A i \in 0..N : f[i] \in 1..N
  <2> DEFINE Bad == {i \in 0..N : f[i] \notin 1..N}
  <2>1. SUFFICES ASSUME Bad # {} PROVE FALSE
    OBVIOUS
  <2>2. PICK k \in Bad : \A j \in Bad : k <= j
    <3>1. Bad \subseteq Nat
      OBVIOUS
    <3> HIDE DEF Bad
    <3> QED
      BY <2>1, <3>1, LeastOf
  <2>3. k # 0
    BY <1>1, <2>2
  <2>4. k - 1 \in 0..N /\ k \in 1..N /\ ~(k <= k - 1)
    BY <2>3, <2>2
  <2>5. f[k - 1] \in 1..N
    BY <2>2, <2>4
  <2>6. Link(vals, f[k - 1]) \in 1..N
    BY <2>5 DEF Link
  <2> QED
    BY <1>1, <2>2, <2>4, <2>6
<1>4. \A i \in 0..N : vals[f[i]].repl # NoVal
  <2> DEFINE Live == {i \in 0..N : vals[f[i]].repl = NoVal}
  <2>1. SUFFICES ASSUME Live # {} PROVE FALSE
    OBVIOUS
  <2> DEFINE Up == {i + 1 : i \in Live}
  <2>3. Up \subseteq 1..(N + 1) /\ Up # {}
    BY <2>1
  <2>4. PICK m \in Up : \A k \in Up : k <= m
    <3>1. N + 1 \in Nat
      OBVIOUS
    <3> HIDE DEF Up
    <3> QED
      BY <2>3, <3>1, GreatestOf
  <2>5. PICK i \in Live : m = i + 1
    OBVIOUS
  <2>6. i # N
    BY <1>1, <2>5 DEF Endless
  <2>7. i + 1 \in 1..N /\ (i + 1) - 1 = i /\ i + 1 \in 0..N
    BY <2>5, <2>6
  <2>8. f[i + 1] = f[i]
    <3>1. f[i + 1] = Link(vals, f[(i + 1) - 1])
      BY <1>1, <2>7
    <3> QED
      BY <3>1, <2>5, <2>7 DEF Link
  <2>9. i + 1 \in Live
    BY <2>5, <2>7, <2>8
  <2>10. (i + 1) + 1 \in Up
    BY <2>9
  <2>11. i \in Int
    BY <2>5
  <2> HIDE DEF Up, Live
  <2>12. (i + 1) + 1 <= m
    BY <2>4, <2>10
  <2> QED
    BY <2>5, <2>11, <2>12
<1>5. \A i \in 0..N : i + 1 \in 0..N => f[i + 1] = vals[f[i]].repl
  <2>1. ASSUME NEW i \in 0..N, i + 1 \in 0..N PROVE f[i + 1] = vals[f[i]].repl
    <3>1. i + 1 \in 1..N /\ (i + 1) - 1 = i
      BY <2>1
    <3>2. f[i + 1] = Link(vals, f[(i + 1) - 1])
      BY <3>1, <1>1
    <3> QED
      BY <3>1, <3>2, <1>4 DEF Link
  <2> QED
    BY <2>1
<1>6. \E i, j \in 0..N : i # j /\ f[i] = f[j]
  <2> DEFINE h == [i \in 0..N |-> f[i]]
             D == 0..N
             E == 1..N
  <2>1. IsFiniteSet(D) /\ IsFiniteSet(E) /\ Cardinality(D) = N + 1 /\ Cardinality(E) = N
    <3>1. IsFiniteSet(0..N) /\ Cardinality(0..N) = IF 0 > N THEN 0 ELSE N - 0 + 1
      <4>1. 0 \in Int /\ N \in Int
        OBVIOUS
      <4> HIDE DEF N
      <4> QED
        BY <4>1, FS_Interval
    <3>2. IsFiniteSet(1..N) /\ Cardinality(1..N) = IF 1 > N THEN 0 ELSE N - 1 + 1
      <4>1. 1 \in Int /\ N \in Int
        OBVIOUS
      <4> HIDE DEF N
      <4> QED
        BY <4>1, FS_Interval
    <3> QED
      BY <3>1, <3>2
  <2>2. h \in [D -> E]
    BY <1>3
  <2>3. Cardinality(E) < Cardinality(D)
    BY <2>1
  <2> HIDE DEF h, D, E
  <2>4. \E i, j \in D : i # j /\ h[i] = h[j]
    BY <2>1, <2>2, <2>3, FS_PigeonHole
  <2> QED
    BY <2>4 DEF h, D
<1>7. PICK i \in 0..N, j \in 0..N : i < j /\ f[i] = f[j]
  <2>1. PICK i \in 0..N, j \in 0..N : i # j /\ f[i] = f[j]
    BY <1>6
  <2>2. i < j \/ j < i
    BY <2>1
  <2> QED
    BY <2>1, <2>2
<1> DEFINE U == {f[k] : k \in 0..(j - 1)}
<1>8. \A k \in 0..(j - 1) : k \in 0..N /\ k + 1 \in 0..N /\ (k + 1 \in 0..(j - 1) \/ k + 1 = j)
  BY <1>7
<1>9. U \subseteq 1..N
  BY <1>3, <1>8
<1>10. v \in U
  <2>1. 0 \in 0..(j - 1)
    BY <1>7
  <2> QED
    BY <2>1, <1>1
<1>11. ASSUME NEW u \in U PROVE vals[u].repl # NoVal /\ vals[u].repl \in U
  <2>1. PICK k \in 0..(j - 1) : u = f[k]
    OBVIOUS
  <2>2. vals[u].repl # NoVal /\ vals[u].repl = f[k + 1]
    BY <2>1, <1>4, <1>5, <1>8
  <2>3. CASE k + 1 \in 0..(j - 1)
    BY <2>2, <2>3
  <2>4. CASE k + 1 = j
    <3>1. i \in 0..(j - 1)
      BY <1>7
    <3> QED
      BY <3>1, <2>2, <2>4, <1>7
  <2> QED
    BY <2>3, <2>4, <2>1, <1>8
<1> HIDE DEF U
<1> QED
  BY <1>9, <1>10, <1>11

\* The predecessors of such blocks are such blocks, and none is the entry.
Dead(g, S) ==
  /\ S \subseteq DOMAIN g /\ S # {}
  /\ \A b \in S : b # 1 /\ g[b].sealed /\ g[b].preds # <<>> /\ Preds(g, b) \subseteq S

LEMMA DeadIsDeadLoop ==
  ASSUME NEW g, NEW S, Dead(g, S)
  PROVE  DeadLoop(g)
<1>1. S \in SUBSET {b \in DOMAIN g : g[b].sealed /\ b # 1}
  BY DEF Dead
<1> QED
  BY <1>1 DEF Dead, DeadLoop

LEMMA AtEndIsIn ==
  ASSUME NEW g, NEW X, NEW w, NEW T, NEW s, NEW r, NEW of, Sound(g, X, w, T, s, r, of),
         NEW p \in DOMAIN g, NEW x \in X, NEW v \in Vals(s), s.vals[v].kind # "def",
         AtEndOf(w, r, p, x, v)
  PROVE  <<p, x, v>> \in r
<1>1. w[p][x] # NoVal => s.vals[w[p][x]].kind = "def"
  BY DEF Sound, Writes
<1> QED
  BY <1>1 DEF AtEndOf

\* Where a phi of a cycle stands for a variable, a loop is dead.
LEMMA EndlessIsDead ==
  ASSUME NEW g, NEW X, NEW w, NEW T, NEW s, NEW r, NEW of, Graph(g), Sound(g, X, w, T, s, r, of),
         NEW v \in Vals(s), Endless(s.vals, v)
  PROVE  \E S : Dead(g, S) /\ \A b \in DOMAIN g, x \in X : <<b, x, v>> \in r => b \in S
<1>1. Len(s.vals) \in Nat
  BY SSAFields DEF Sound, Typed
<1>2. \A u \in Vals(s) : s.vals[u].repl # NoVal => s.vals[u].repl \in Vals(s)
  BY DEF Sound, Removed
<1>3. PICK U : /\ U \subseteq Vals(s) /\ v \in U
               /\ \A u \in U : s.vals[u].repl # NoVal /\ s.vals[u].repl \in U
  BY <1>1, <1>2, EndlessCycle DEF Vals
<1> DEFINE S == {b \in DOMAIN g : \E x \in X, u \in U : <<b, x, u>> \in r}
<1>4. ASSUME NEW u \in U
      PROVE  /\ u \in Vals(s) /\ s.vals[u].kind = "phi" /\ s.vals[u].block \in DOMAIN g
             /\ of[u] \in X /\ s.vals[u].repl \in U
             /\ g[s.vals[u].block].sealed /\ g[s.vals[u].block].preds # <<>>
             /\ \A p \in Preds(g, s.vals[u].block) : AtEndOf(w, r, p, of[u], s.vals[u].repl)
  <2>1. u \in Vals(s) /\ s.vals[u].repl # NoVal /\ s.vals[u].repl \in U
    BY <1>3
  <2>2. s.vals[u].block \in DOMAIN g /\ of[u] \in X
    BY <2>1 DEF Sound, Typed, Ghosts
  <2> QED
    BY <2>1, <2>2 DEF Sound, Removed
<1>5. ASSUME NEW p \in DOMAIN g, NEW x \in X, NEW u \in U, AtEndOf(w, r, p, x, u) PROVE p \in S
  <2>1. u \in Vals(s) /\ s.vals[u].kind # "def"
    BY <1>4
  <2>2. <<p, x, u>> \in r
    BY <2>1, <1>5, AtEndIsIn
  <2> QED
    BY <2>2
<1>6. ASSUME NEW u \in U, NEW p \in Preds(g, s.vals[u].block) PROVE p \in S
  <2>1. p \in DOMAIN g
    BY <1>4, PredsOf
  <2>2. AtEndOf(w, r, p, of[u], s.vals[u].repl) /\ of[u] \in X /\ s.vals[u].repl \in U
    BY <1>4
  <2> HIDE DEF S
  <2> QED
    BY <2>1, <2>2, <1>5
<1>7. ASSUME NEW b \in S PROVE g[b].sealed /\ g[b].preds # <<>> /\ Preds(g, b) \subseteq S
  <2>1. PICK x \in X, u \in U : <<b, x, u>> \in r
    OBVIOUS
  <2>2. b \in DOMAIN g /\ u \in Vals(s) /\ s.vals[u].kind = "phi"
    BY <1>4
  <2>3. Comes(g, w, s, r, b, x, u)
    BY <2>1, <2>2 DEF Sound, Flows
  <2> HIDE DEF S
  <2>4. CASE IsPhiOf(s, u, b)
    BY <2>4, <1>4, <1>6 DEF IsPhiOf
  <2>5. CASE ~IsPhiOf(s, u, b)
    <3>1. /\ g[b].sealed /\ g[b].preds # <<>>
          /\ \A p \in Preds(g, b) : AtEndOf(w, r, p, x, u)
      BY <2>2, <2>3, <2>5 DEF Comes
    <3>2. Preds(g, b) \subseteq DOMAIN g
      BY <2>2, PredsOf
    <3> QED
      BY <3>1, <3>2, <1>5
  <2> QED
    BY <2>4, <2>5
<1>8. \A b \in S : b # 1
  BY <1>7 DEF Graph
<1>9. S # {}
  <2>1. s.vals[v].block \in DOMAIN g /\ g[s.vals[v].block].preds # <<>>
    BY <1>3, <1>4
  <2>2. Preds(g, s.vals[v].block) # {}
    BY <2>1, PredsOf
  <2> HIDE DEF S
  <2> QED
    BY <2>2, <1>3, <1>6
<1>10. Dead(g, S)
  BY <1>7, <1>8, <1>9 DEF Dead
<1>11. \A b \in DOMAIN g, x \in X : <<b, x, v>> \in r => b \in S
  BY <1>3
<1> HIDE DEF S
<1> QED
  BY <1>10, <1>11

\* What a chain ends in stands wherever its first phi does.
LEMMA ChaseStands ==
  ASSUME NEW g, NEW X, NEW w, NEW T, NEW s, NEW r, NEW of, Sound(g, X, w, T, s, r, of),
         NEW v \in Vals(s)
  PROVE  /\ Chase(s.vals, v) \in Vals(s)
         /\ \A b \in DOMAIN g, x \in X :
              AtEndOf(w, r, b, x, v) => AtEndOf(w, r, b, x, Chase(s.vals, v))
         /\ \A b \in DOMAIN g, x \in X :
              <<b, x, v>> \in r => <<b, x, Chase(s.vals, v)>> \in r
<1>1. Len(s.vals) \in Nat
  BY SSAFields DEF Sound, Typed
<1>2. \A u \in Vals(s) : s.vals[u].repl # NoVal => s.vals[u].repl \in Vals(s) /\ s.vals[u].kind = "phi"
  BY DEF Sound, Removed
<1>3. Chase(s.vals, v) \in Vals(s)
  <2>1. \A u \in Vals(s) : Link(s.vals, u) \in Vals(s)
    BY <1>2 DEF Link
  <2> QED
    BY <2>1, <1>1, ChaseIn
<1>4. ASSUME NEW b \in DOMAIN g, NEW x \in X, <<b, x, v>> \in r
      PROVE  <<b, x, Chase(s.vals, v)>> \in r
  <2> DEFINE P == {u \in Vals(s) : <<b, x, u>> \in r}
  <2>1. \A u \in P : Link(s.vals, u) \in P
    BY <1>2 DEF Link, Sound, Linked
  <2>2. v \in P
    BY <1>4
  <2> HIDE DEF P
  <2>3. Chase(s.vals, v) \in P
    BY <2>1, <2>2, <1>1, ChaseIn
  <2> QED
    BY <2>3 DEF P
<1>5. ASSUME NEW b \in DOMAIN g, NEW x \in X, AtEndOf(w, r, b, x, v)
      PROVE  AtEndOf(w, r, b, x, Chase(s.vals, v))
  <2>1. CASE w[b][x] = NoVal
    BY <2>1, <1>4, <1>5 DEF AtEndOf
  <2>2. CASE w[b][x] # NoVal
    <3>1. v = w[b][x] /\ s.vals[v].kind = "def"
      BY <2>2, <1>5 DEF AtEndOf, Sound, Writes
    <3>2. Link(s.vals, v) = v
      BY <3>1, <1>2 DEF Link
    <3> DEFINE P == {v}
    <3>3. Chase(s.vals, v) \in P
      <4>1. v \in P /\ \A u \in P : Link(s.vals, u) \in P
        BY <3>2
      <4> HIDE DEF P
      <4> QED
        BY <4>1, <1>1, ChaseIn
    <3> QED
      BY <3>3, <1>5
  <2> QED
    BY <2>1, <2>2
<1> QED
  BY <1>3, <1>4, <1>5

-----------------------------------------------------------------------------
(* What one search answers. *)

LEMMA GrownOnly ==
  ASSUME NEW X, NEW E, NEW F, NEW s, NEW e, Later(X, E, s, e), \A v \in Vals(s) : v \in E => v \in F
  PROVE  Later(X, F, s, e)
BY DEF Later

LEMMA GrownTrans ==
  ASSUME NEW X, NEW E, NEW F, NEW s, NEW e, NEW u, Later(X, E, s, e), Later(X, F, e, u),
         \A v \in Vals(s) : v \in F => v \in E,
         Len(s.vals) \in Nat, Len(e.vals) \in Nat, Len(u.vals) \in Nat
  PROVE  Later(X, E, s, u)
<1>1. Len(s.vals) <= Len(u.vals) /\ Vals(s) \subseteq Vals(u) /\ Len(s.defs) = Len(u.defs)
  BY DEF Later
<1>2. ASSUME NEW v \in Vals(s)
      PROVE  /\ u.vals[v].kind = s.vals[v].kind /\ u.vals[v].block = s.vals[v].block
             /\ v \notin E => u.vals[v].from = s.vals[v].from /\ u.vals[v].repl = s.vals[v].repl
  <2>1. v \in Vals(e)
    BY DEF Later
  <2> QED
    BY <2>1 DEF Later
<1>3. \A b \in 1..Len(s.defs), x \in X : s.defs[b][x] # NoVal => u.defs[b][x] # NoVal
  BY DEF Later
<1> QED
  BY <1>1, <1>2, <1>3 DEF Later

\* The joins in which a search for x may still make a phi.
Unmet(g, s, x) == {c \in Joins(g) : s.defs[c][x] = NoVal}

\* A: the passages a search has come through since it made its last phi.
Passed(g, A, b) == A \subseteq Passages(g) /\ \A c \in A : g[c].sealed /\ Preds(g, c) \subseteq A \cup {b}

Room(g, s, x, A) ==
  Cardinality(Unmet(g, s, x)) * (Cardinality(Passages(g)) + 1)
    + (Cardinality(Passages(g)) - Cardinality(A))

LEMMA Times ==
  ASSUME NEW m \in Nat, NEW n \in Nat, NEW k \in Nat
  PROVE  m * k \in Nat /\ (n <= m => n * k <= m * k) /\ (n < m => n * k + k <= m * k)
<1>1. m * k \in Nat /\ n * k \in Nat
  OBVIOUS
<1>2. ASSUME n <= m PROVE n * k <= m * k
  <2>1. m - n \in Nat /\ (m - n) * k >= 0
    BY <1>2
  <2>2. (m - n) * k = m * k - n * k
    OBVIOUS
  <2> QED
    BY <1>1, <2>1, <2>2
<1>3. ASSUME n < m PROVE n * k + k <= m * k
  <2>1. m - n - 1 \in Nat /\ (m - n - 1) * k >= 0
    BY <1>3
  <2>2. (m - n - 1) * k = m * k - n * k - k
    OBVIOUS
  <2> QED
    BY <1>1, <2>1, <2>2
<1> QED
  BY <1>1, <1>2, <1>3

LEMMA Finite ==
  ASSUME NEW g, Graph(g)
  PROVE  /\ IsFiniteSet(Passages(g)) /\ Cardinality(Passages(g)) \in Nat
         /\ IsFiniteSet(Joins(g)) /\ Cardinality(Joins(g)) \in Nat
         /\ MaxCalls(g) \in Nat
         /\ \A s, x : /\ IsFiniteSet(Unmet(g, s, x)) /\ Cardinality(Unmet(g, s, x)) \in Nat
                      /\ Cardinality(Unmet(g, s, x)) <= Cardinality(Joins(g))
         /\ \A A : A \subseteq Passages(g) =>
              IsFiniteSet(A) /\ Cardinality(A) \in Nat /\ Cardinality(A) <= Cardinality(Passages(g))
<1>1. IsFiniteSet(1..Len(g))
  BY FS_Interval DEF Graph
<1>2. IsFiniteSet(Passages(g)) /\ IsFiniteSet(Joins(g))
  <2>1. Passages(g) \in SUBSET (1..Len(g)) /\ Joins(g) \in SUBSET (1..Len(g))
    BY DEF Graph, Passages, Joins
  <2> QED
    BY <1>1, <2>1, FS_Subset
<1>3. Cardinality(Passages(g)) \in Nat /\ Cardinality(Joins(g)) \in Nat
  BY <1>2, FS_CardinalityType
<1>4. MaxCalls(g) \in Nat
  BY <1>3, Times DEF MaxCalls
<1>5. ASSUME NEW s, NEW x
      PROVE  /\ IsFiniteSet(Unmet(g, s, x)) /\ Cardinality(Unmet(g, s, x)) \in Nat
             /\ Cardinality(Unmet(g, s, x)) <= Cardinality(Joins(g))
  <2>1. Unmet(g, s, x) \in SUBSET Joins(g)
    BY DEF Unmet
  <2> QED
    BY <2>1, <1>2, FS_Subset, FS_CardinalityType
<1>6. ASSUME NEW A, A \subseteq Passages(g)
      PROVE  IsFiniteSet(A) /\ Cardinality(A) \in Nat /\ Cardinality(A) <= Cardinality(Passages(g))
  <2>1. A \in SUBSET Passages(g)
    BY <1>6
  <2> QED
    BY <2>1, <1>2, FS_Subset, FS_CardinalityType
<1> QED
  BY <1>2, <1>3, <1>4, <1>5, <1>6

LEMMA RoomIs ==
  ASSUME NEW g, Graph(g), NEW s, NEW x
  PROVE  /\ \A A : A \subseteq Passages(g) => Room(g, s, x, A) \in Nat
         /\ Room(g, s, x, {}) < MaxCalls(g)
<1> DEFINE P == Cardinality(Passages(g))
           J == Cardinality(Joins(g))
           U == Cardinality(Unmet(g, s, x))
<1>1. P \in Nat /\ J \in Nat /\ U \in Nat /\ U <= J /\ P + 1 \in Nat
  BY Finite
<1>2. ASSUME NEW A, A \subseteq Passages(g) PROVE Room(g, s, x, A) \in Nat
  <2>1. Cardinality(A) \in Nat /\ Cardinality(A) <= P
    BY <1>2, Finite
  <2>2. U * (P + 1) \in Nat
    <3> HIDE DEF U, P
    <3> QED
      BY <1>1, Times
  <2> QED
    BY <2>1, <2>2, <1>1 DEF Room
<1>3. Cardinality({}) = 0
  BY FS_EmptySet
<1>4. Room(g, s, x, {}) = U * (P + 1) + (P - 0)
  BY <1>3 DEF Room
<1>5. MaxCalls(g) = (J + 1) * (P + 1)
  BY DEF MaxCalls
<1> HIDE DEF U, P, J
<1>6. U < J + 1 /\ J + 1 \in Nat
  BY <1>1
<1>7. U * (P + 1) + (P + 1) <= (J + 1) * (P + 1) /\ (J + 1) * (P + 1) \in Nat /\ U * (P + 1) \in Nat
  BY <1>1, <1>6, Times
<1>8. Room(g, s, x, {}) < MaxCalls(g)
  BY <1>4, <1>5, <1>7, <1>1
<1> QED
  BY <1>2, <1>8

\* One more passage, or one more join that has its phi, and the room shrinks.
LEMMA RoomShrinks ==
  ASSUME NEW g, Graph(g), NEW s, NEW x
  PROVE  /\ \A A, b : A \subseteq Passages(g) /\ b \in Passages(g) \ A =>
              Room(g, s, x, A \cup {b}) < Room(g, s, x, A)
         /\ \A A, b, e : (A \subseteq Passages(g) /\ b \in Unmet(g, s, x)
                          /\ Unmet(g, e, x) \subseteq Unmet(g, s, x) \ {b}) =>
              Room(g, e, x, {}) < Room(g, s, x, A)
         /\ \A e : Unmet(g, e, x) \subseteq Unmet(g, s, x) =>
              Room(g, e, x, {}) <= Room(g, s, x, {})
<1> DEFINE P == Cardinality(Passages(g))
           U(t) == Cardinality(Unmet(g, t, x))
<1>1. P \in Nat /\ P + 1 \in Nat
  BY Finite
<1>2. ASSUME NEW t
      PROVE  /\ U(t) \in Nat /\ U(t) * (P + 1) \in Nat /\ IsFiniteSet(Unmet(g, t, x))
             /\ Room(g, t, x, {}) = U(t) * (P + 1) + P
             /\ \A A : A \subseteq Passages(g) => Room(g, t, x, A) = U(t) * (P + 1) + (P - Cardinality(A))
  <2>1. U(t) \in Nat /\ IsFiniteSet(Unmet(g, t, x))
    BY Finite
  <2>2. U(t) * (P + 1) \in Nat
    <3> HIDE DEF U, P
    <3> QED
      BY <1>1, <2>1, Times
  <2>3. Cardinality({}) = 0
    BY FS_EmptySet
  <2>4. Room(g, t, x, {}) = U(t) * (P + 1) + (P - 0)
    BY <2>3 DEF Room
  <2>5. \A A : A \subseteq Passages(g) => Room(g, t, x, A) = U(t) * (P + 1) + (P - Cardinality(A))
    BY DEF Room
  <2> HIDE DEF P, U
  <2>6. Room(g, t, x, {}) = U(t) * (P + 1) + P
    BY <2>4, <1>1
  <2> QED
    BY <2>1, <2>2, <2>5, <2>6
<1>3. ASSUME NEW A, NEW b, A \subseteq Passages(g), b \in Passages(g) \ A
      PROVE  Room(g, s, x, A \cup {b}) < Room(g, s, x, A)
  <2>1. IsFiniteSet(A) /\ Cardinality(A) \in Nat /\ A \cup {b} \subseteq Passages(g)
    BY <1>3, Finite
  <2>2. Cardinality(A \cup {b}) = Cardinality(A) + 1
    BY <2>1, <1>3, FS_AddElement
  <2>3. /\ Room(g, s, x, A) = U(s) * (P + 1) + (P - Cardinality(A))
        /\ Room(g, s, x, A \cup {b}) = U(s) * (P + 1) + (P - Cardinality(A \cup {b}))
    <3> HIDE DEF U, P
    <3> QED
      BY <1>2, <1>3, <2>1
  <2>4. U(s) * (P + 1) \in Nat
    BY <1>2
  <2> DEFINE K == U(s) * (P + 1)
  <2> HIDE DEF K, P
  <2> QED
    BY <2>1, <2>2, <2>3, <2>4, <1>1 DEF K
<1>4. ASSUME NEW A, NEW b, NEW e, A \subseteq Passages(g), b \in Unmet(g, s, x),
             Unmet(g, e, x) \subseteq Unmet(g, s, x) \ {b}
      PROVE  Room(g, e, x, {}) < Room(g, s, x, A)
  <2>1. IsFiniteSet(Unmet(g, s, x))
    BY <1>2
  <2>2. IsFiniteSet(Unmet(g, s, x) \ {b}) /\ Cardinality(Unmet(g, s, x) \ {b}) = U(s) - 1
    BY <2>1, <1>4, FS_RemoveElement
  <2>3. U(e) <= U(s) - 1
    <3>1. Unmet(g, e, x) \in SUBSET (Unmet(g, s, x) \ {b})
      BY <1>4
    <3> QED
      BY <3>1, <2>2, FS_Subset
  <2>4. U(e) \in Nat /\ U(s) \in Nat
    BY <1>2
  <2>5. Cardinality(A) \in Nat /\ Cardinality(A) <= P
    BY <1>4, Finite
  <2>6. /\ Room(g, e, x, {}) = U(e) * (P + 1) + P /\ U(e) * (P + 1) \in Nat
        /\ Room(g, s, x, A) = U(s) * (P + 1) + (P - Cardinality(A)) /\ U(s) * (P + 1) \in Nat
    <3> HIDE DEF U, P
    <3> QED
      BY <1>2, <1>4
  <2> HIDE DEF U, P
  <2>7. U(e) < U(s)
    BY <2>3, <2>4
  <2>8. U(e) * (P + 1) + (P + 1) <= U(s) * (P + 1)
    BY <2>4, <2>7, <1>1, Times
  <2> QED
    BY <2>5, <2>6, <2>8, <1>1
<1>5. ASSUME NEW e, Unmet(g, e, x) \subseteq Unmet(g, s, x)
      PROVE  Room(g, e, x, {}) <= Room(g, s, x, {})
  <2>1. U(e) <= U(s)
    <3>1. Unmet(g, e, x) \in SUBSET Unmet(g, s, x)
      BY <1>5
    <3> QED
      BY <3>1, <1>2, FS_Subset
  <2>2. /\ U(e) \in Nat /\ U(s) \in Nat
        /\ Room(g, e, x, {}) = U(e) * (P + 1) + P /\ U(e) * (P + 1) \in Nat
        /\ Room(g, s, x, {}) = U(s) * (P + 1) + P /\ U(s) * (P + 1) \in Nat
    <3> HIDE DEF U, P
    <3> QED
      BY <1>2
  <2> HIDE DEF U, P
  <2>3. U(e) * (P + 1) <= U(s) * (P + 1)
    BY <2>1, <2>2, <1>1, Times
  <2> QED
    BY <2>2, <2>3, <1>1
<1> QED
  BY <1>3, <1>4, <1>5

\* The state e and the value v are what a read of x where b ends may return.
Follows(g, X, x, w, T, s, r, of, b, e, v) ==
  \E q, o : /\ r \subseteq q /\ \A u \in Vals(s) : o[u] = of[u]
            /\ Sound(g, X, w, T, e, q, o) /\ Later(X, {}, s, e)
            /\ v \in Vals(e) /\ AtEndOf(w, q, b, x, v)

\* What a call that has n calls left returns.
Replies(g, X, x, n, w, T, s, r, of, b, reply) ==
  /\ reply.s \in SSAOf(X)
  /\ ~reply.s.lost => Follows(g, X, x, w, T, s, r, of, b, reply.s, reply.v)
  /\ reply.s.lost /\ (\E A : Passed(g, A, b) /\ Room(g, s, x, A) < n) => DeadLoop(g)

Answered(g, X, x, n, d) ==
  \A w, T, s, r, of, b :
    Sound(g, X, w, T, s, r, of) /\ T \subseteq Vals(s) /\ b \in DOMAIN g =>
      Replies(g, X, x, n, w, T, s, r, of, b, d[s][b])

LEMMA LostIs ==
  ASSUME NEW X, NEW s \in SSAOf(X)
  PROVE  Lost(s).s.lost = TRUE /\ Lost(s).s \in SSAOf(X)
<1> DEFINE e == [s EXCEPT !.lost = TRUE]
<1>1. e.lost = TRUE /\ e \in SSAOf(X)
  BY DEF SSAOf
<1>2. Lost(s).s = e
  BY DEF Lost, Found
<1> HIDE DEF e
<1> QED
  BY <1>1, <1>2

LEMMA NoneAnswered ==
  ASSUME NEW g, Graph(g), NEW X, NEW x
  PROVE  Answered(g, X, x, 0, NoCalls(g, X))
<1>1. SUFFICES ASSUME NEW w, NEW T, NEW s, NEW r, NEW of, NEW b, Sound(g, X, w, T, s, r, of),
                      b \in DOMAIN g
               PROVE  Replies(g, X, x, 0, w, T, s, r, of, b, NoCalls(g, X)[s][b])
  BY DEF Answered
<1>2. s \in SSAOf(X)
  BY <1>1 DEF Sound, Typed
<1>3. NoCalls(g, X)[s][b] = Lost(s)
  BY <1>1, <1>2 DEF NoCalls
<1>4. Lost(s).s.lost = TRUE /\ Lost(s).s \in SSAOf(X)
  BY <1>2, LostIs
<1>5. \A A : Passed(g, A, b) => ~ (Room(g, s, x, A) < 0)
  <2>1. ASSUME NEW A, Passed(g, A, b) PROVE ~ (Room(g, s, x, A) < 0)
    <3>1. Room(g, s, x, A) \in Nat
      BY <2>1, RoomIs DEF Passed
    <3> QED
      BY <3>1
  <2> QED
    BY <2>1
<1> QED
  BY <1>3, <1>4, <1>5 DEF Replies

\* A definition is there.
LEMMA FoundReplies ==
  ASSUME NEW g, NEW X, NEW w, NEW T, NEW s, NEW r, NEW of, Graph(g), Sound(g, X, w, T, s, r, of),
         NEW b \in DOMAIN g, NEW x \in X, NEW n, NEW d, s.defs[b][x] # NoVal
  PROVE  Replies(g, X, x, n, w, T, s, r, of, b, ReadVar(g, s, b, x, d))
<1> DEFINE v == s.defs[b][x]
<1>1. v \in Vals(s) /\ AtEndOf(w, r, b, x, v)
  BY DEF Sound, Definitions
<1>2. s \in SSAOf(X) /\ s.lost = FALSE
  BY DEF Sound, Typed
<1>3. CASE Endless(s.vals, v)
  <2>1. DeadLoop(g)
    <3>1. \E S : Dead(g, S)
      <4> HIDE DEF v
      <4> QED
        BY <1>1, <1>3, EndlessIsDead
    <3> QED
      BY <3>1, DeadIsDeadLoop
  <2>2. ReadVar(g, s, b, x, d) = Lost(s)
    BY <1>2, <1>3 DEF ReadVar
  <2>3. Lost(s).s.lost = TRUE /\ Lost(s).s \in SSAOf(X)
    BY <1>2, LostIs
  <2> QED
    BY <2>1, <2>2, <2>3 DEF Replies
<1>4. CASE ~Endless(s.vals, v)
  <2>1. ReadVar(g, s, b, x, d) = Found(s, Chase(s.vals, v))
    BY <1>2, <1>4 DEF ReadVar
  <2>2. ReadVar(g, s, b, x, d).s = s /\ ReadVar(g, s, b, x, d).v = Chase(s.vals, v)
    BY <2>1 DEF Found
  <2>3. Chase(s.vals, v) \in Vals(s) /\ AtEndOf(w, r, b, x, Chase(s.vals, v))
    BY <1>1, ChaseStands
  <2>4. Len(s.vals) \in Nat
    BY <1>2, SSAFields
  <2>5. Later(X, {}, s, s)
    BY <2>4 DEF Later
  <2>6. Follows(g, X, x, w, T, s, r, of, b, s, Chase(s.vals, v))
    BY <2>3, <2>5 DEF Follows
  <2> QED
    BY <1>2, <2>2, <2>6 DEF Replies
<1> QED
  BY <1>3, <1>4

\* Where a phi is made that is to be the block's definition.
Started(g, X, x, w, T, s, r, of, b, e, q, o) ==
  LET n == Len(s.vals) + 1
  IN  /\ Sound(g, X, w, T \cup {n}, e, q, o) /\ r \subseteq q
      /\ \A u \in Vals(s) : o[u] = of[u]
      /\ o[n] = x /\ n \in Vals(e) /\ n \notin Vals(s) /\ Vals(e) = Vals(s) \cup {n}
      /\ IsPhiOf(e, n, b) /\ <<b, x, n>> \in q /\ AtEndOf(w, q, b, x, n)
      /\ e.vals[n].from = <<>> /\ e.vals[n].repl = NoVal
      /\ e.defs = s.defs /\ Later(X, {}, s, e) /\ T \cup {n} \subseteq Vals(e) /\ n \notin T

LEMMA StartPhi ==
  ASSUME NEW g, NEW X, NEW w, NEW T, NEW s, NEW r, NEW of, Graph(g), Sound(g, X, w, T, s, r, of),
         T \subseteq Vals(s), NEW b \in DOMAIN g, NEW x \in X, s.defs[b][x] = NoVal
  PROVE  \E q, o : Started(g, X, x, w, T, s, r, of, b, Emit(s, b, "phi"), q, o)
<1> DEFINE n == Len(s.vals) + 1
           e == Emit(s, b, "phi")
           o == [of EXCEPT ![n] = x]
           q == r \cup {<<b, x, n>>}
<1>1. s \in SSAOf(X) /\ b \in Nat
  BY DEF Sound, Typed, Graph
<1>2. Emitted(X, s, b, "phi", e)
  BY <1>1, EmitFields
<1>3. /\ e.defs = s.defs /\ n \in Nat /\ Len(e.vals) = n /\ Vals(e) = Vals(s) \cup {n}
      /\ n \notin Vals(s) /\ n \in Vals(e) /\ \A v \in Vals(s) : e.vals[v] = s.vals[v]
      /\ e.vals[n].kind = "phi" /\ e.vals[n].block = b
      /\ e.vals[n].from = <<>> /\ e.vals[n].repl = NoVal
  <2> HIDE DEF e
  <2> QED
    BY <1>2 DEF Emitted
<1>4. n \in T \cup {n} /\ \A v \in Vals(s) : v \in T \cup {n} <=> v \in T
  <2> HIDE DEF n
  <2> QED
    BY <1>3
<1>5. Sound(g, X, w, T \cup {n}, e, r, o)
  BY <1>4, EmitSound
<1>6. /\ o[n] = x /\ \A u \in Vals(s) : o[u] = of[u]
  <2>1. DOMAIN of = Nat /\ of = [k \in Nat |-> of[k]]
    BY DEF Sound, Ghosts
  <2>2. n \in Nat /\ \A v \in Vals(s) : v \in Nat /\ v # n
    BY <1>3 DEF Vals
  <2> HIDE DEF n
  <2> QED
    BY <2>1, <2>2
<1>7. w[b][x] = NoVal
  BY DEF Sound, Writes
<1>8. IsPhiOf(e, n, b)
  BY <1>3 DEF IsPhiOf
<1> HIDE DEF n, e, o
<1>9. Sound(g, X, w, T \cup {n}, e, q, o)
  <2>1. r \subseteq (DOMAIN g) \X X \X Vals(e)
    BY <1>5 DEF Sound, Ghosts
  <2>2. q \subseteq (DOMAIN g) \X X \X Vals(e)
    BY <2>1, <1>3
  <2>3. ASSUME NEW c \in DOMAIN g, NEW y \in X, NEW v \in Vals(e),
               <<c, y, v>> \in q, <<c, y, v>> \notin r
        PROVE  /\ Comes(g, w, e, q, c, y, v) /\ o[v] = y
               /\ e.vals[v].repl # NoVal => <<c, y, e.vals[v].repl>> \in q
    <3>1. c = b /\ y = x /\ v = n
      BY <2>3
    <3> QED
      BY <3>1, <1>3, <1>6, <1>8 DEF Comes
  <2>4. r \subseteq q
    OBVIOUS
  <2> HIDE DEF q
  <2> QED
    BY <2>2, <2>3, <2>4, <1>5, MoreSound
<1>10. Len(s.vals) \in Nat
  BY <1>1, SSAFields
<1>11. Later(X, {}, s, e)
  BY <1>3, <1>10 DEF Later, n
<1>12. <<b, x, n>> \in q /\ r \subseteq q
  OBVIOUS
<1> HIDE DEF q
<1>13. AtEndOf(w, q, b, x, n)
  BY <1>7, <1>12 DEF AtEndOf
<1>14. T \cup {n} \subseteq Vals(e) /\ n \notin T
  BY <1>3
<1>15. Started(g, X, x, w, T, s, r, of, b, e, q, o)
  BY <1>3, <1>6, <1>8, <1>9, <1>11, <1>12, <1>13, <1>14 DEF Started, n
<1> QED
  BY <1>15 DEF e

\* More predecessors may follow: the phi waits.
LEMMA UnsealedReplies ==
  ASSUME NEW g, NEW X, NEW w, NEW T, NEW s, NEW r, NEW of, Graph(g), Sound(g, X, w, T, s, r, of),
         T \subseteq Vals(s), NEW b \in DOMAIN g, NEW x \in X, NEW n, NEW d,
         s.defs[b][x] = NoVal, ~g[b].sealed
  PROVE  Replies(g, X, x, n, w, T, s, r, of, b, ReadVar(g, s, b, x, d))
<1> DEFINE next == Len(s.vals) + 1
           e == Emit(s, b, "phi")
           p == Pended(e, b, x, next)
           u == WriteVar(p, b, x, next)
<1>1. PICK q, o : Started(g, X, x, w, T, s, r, of, b, e, q, o)
  BY StartPhi
<1>2. /\ Sound(g, X, w, T \cup {next}, e, q, o) /\ r \subseteq q
      /\ \A v \in Vals(s) : o[v] = of[v]
      /\ o[next] = x /\ next \in Vals(e) /\ IsPhiOf(e, next, b) /\ AtEndOf(w, q, b, x, next)
      /\ e.vals[next].from = <<>> /\ Later(X, {}, s, e) /\ next \notin T
      /\ e.defs = s.defs
  <2> HIDE DEF e
  <2> QED
    BY <1>1 DEF Started
<1>3. s \in SSAOf(X) /\ s.lost = FALSE
  BY DEF Sound, Typed
<1>4. ReadVar(g, s, b, x, d) = Found(u, next)
  <2>1. ReadVar(g, s, b, x, d) =
          Found(WriteVar([Emit(s, b, "phi") EXCEPT !.pending[b] = Append(@, <<x, next>>)], b, x, next), next)
    BY <1>3 DEF ReadVar
  <2> QED
    BY <2>1 DEF Pended
<1> HIDE DEF next, e
<1>5. Sound(g, X, w, (T \cup {next}) \ {next}, p, q, o)
  BY <1>2, PendedSound
<1>6. (T \cup {next}) \ {next} = T
  BY <1>2
<1>7. Sound(g, X, w, T, p, q, o)
  BY <1>5, <1>6
<1>8. e \in SSAOf(X) /\ b \in 1..Len(e.pending) /\ next \in Nat /\ b \in 1..Len(e.defs)
  BY <1>2 DEF Sound, Typed, Graph, Vals
<1>9. PendedTo(X, e, b, x, next, p)
  BY <1>8, PendedFields
<1> HIDE DEF p
<1>10. p \in SSAOf(X) /\ p.vals = e.vals /\ p.defs = e.defs /\ Vals(p) = Vals(e)
  BY <1>9 DEF PendedTo, Vals
<1>11. Sound(g, X, w, T, u, q, o)
  BY <1>2, <1>7, <1>10, WriteVarSound
<1>12. /\ u.vals = p.vals /\ Len(u.defs) = Len(p.defs) /\ u.defs[b][x] = next
       /\ \A c \in 1..Len(p.defs), y \in X :
            ~(c = b /\ y = x) => u.defs[c][y] = p.defs[c][y]
  BY <1>8, <1>10, WriteVarFields
<1> HIDE DEF u
<1>13. Vals(u) = Vals(e) /\ next # NoVal
  BY <1>2, <1>10, <1>12 DEF Vals, NoVal
<1>14. Later(X, {}, e, u)
  <2>1. \A c \in 1..Len(e.defs), y \in X : e.defs[c][y] # NoVal => u.defs[c][y] # NoVal
    BY <1>10, <1>12, <1>13
  <2>2. Len(e.vals) \in Nat
    BY <1>8, SSAFields
  <2> QED
    BY <2>1, <2>2, <1>10, <1>12, <1>13 DEF Later
<1>15. Later(X, {}, s, u)
  <2>1. Len(s.vals) \in Nat /\ Len(e.vals) \in Nat /\ Len(u.vals) \in Nat
    BY <1>3, <1>8, <1>10, <1>12, SSAFields
  <2> QED
    BY <2>1, <1>2, <1>14, GrownTrans
<1>16. Follows(g, X, x, w, T, s, r, of, b, u, next)
  BY <1>2, <1>11, <1>13, <1>15 DEF Follows
<1>17. u.lost = FALSE /\ u \in SSAOf(X)
  BY <1>11 DEF Sound, Typed
<1>18. Found(u, next).s = u /\ Found(u, next).v = next
  BY DEF Found
<1> QED
  BY <1>4, <1>16, <1>17, <1>18 DEF Replies

\* A call that has n calls left and what the calls deeper than it reply.
DefinedThere(X, s, b, x, v, u) ==
  /\ u \in SSAOf(X) /\ u.vals = s.vals /\ u.pending = s.pending /\ Vals(u) = Vals(s)
  /\ u.lost = s.lost /\ Later(X, {}, s, u)

LEMMA DefineThere ==
  ASSUME NEW X, NEW s \in SSAOf(X), NEW b \in 1..Len(s.defs), NEW x \in X, NEW v \in Vals(s)
  PROVE  DefinedThere(X, s, b, x, v, WriteVar(s, b, x, v))
<1> DEFINE u == WriteVar(s, b, x, v)
<1>1. v \in Nat /\ v # NoVal
  BY DEF Vals, NoVal
<1>2. /\ u \in SSAOf(X) /\ u.vals = s.vals /\ u.pending = s.pending /\ u.lost = s.lost
      /\ Len(u.defs) = Len(s.defs) /\ u.defs[b][x] = v
      /\ \A c \in 1..Len(s.defs), y \in X :
           ~(c = b /\ y = x) => u.defs[c][y] = s.defs[c][y]
  BY <1>1, WriteVarFields
<1> HIDE DEF u
<1>3. \A c \in 1..Len(s.defs), y \in X : s.defs[c][y] # NoVal => u.defs[c][y] # NoVal
  BY <1>1, <1>2
<1>4. Len(s.vals) \in Nat
  BY SSAFields
<1>5. Vals(u) = Vals(s)
  BY <1>2 DEF Vals
<1>6. Later(X, {}, s, u)
  BY <1>2, <1>3, <1>4, <1>5 DEF Later
<1> QED
  BY <1>2, <1>5, <1>6 DEF DefinedThere, u

\* Nothing comes before the block.
LEMMA ZeroReplies ==
  ASSUME NEW g, NEW X, NEW w, NEW T, NEW s, NEW r, NEW of, Graph(g), Sound(g, X, w, T, s, r, of),
         T \subseteq Vals(s), NEW b \in DOMAIN g, NEW x \in X, NEW n, NEW d,
         s.defs[b][x] = NoVal, g[b].sealed, Len(g[b].preds) = 0
  PROVE  Replies(g, X, x, n, w, T, s, r, of, b, ReadVar(g, s, b, x, d))
<1> DEFINE next == Len(s.vals) + 1
           e == Emit(s, b, "zero")
           u == WriteVar(e, b, x, next)
           o == [of EXCEPT ![next] = x]
           q == r \cup {<<b, x, next>>}
<1>1. s \in SSAOf(X) /\ s.lost = FALSE /\ b \in Nat
  BY DEF Sound, Typed, Graph
<1>2. ReadVar(g, s, b, x, d) = Found(u, next)
  BY <1>1 DEF ReadVar
<1>3. Emitted(X, s, b, "zero", e)
  BY <1>1, EmitFields
<1>4. /\ e \in SSAOf(X) /\ e.defs = s.defs /\ next \in Nat /\ Len(e.vals) = next
      /\ Vals(e) = Vals(s) \cup {next} /\ next \notin Vals(s) /\ next \in Vals(e)
      /\ \A v \in Vals(s) : e.vals[v] = s.vals[v]
      /\ e.vals[next].kind = "zero" /\ e.vals[next].repl = NoVal
  <2> HIDE DEF e
  <2> QED
    BY <1>3 DEF Emitted
<1>5. next \notin T
  BY <1>4
<1>6. Sound(g, X, w, T, e, r, o)
  BY <1>5, EmitSound
<1>7. o[next] = x /\ \A v \in Vals(s) : o[v] = of[v]
  <2>1. DOMAIN of = Nat /\ of = [k \in Nat |-> of[k]]
    BY DEF Sound, Ghosts
  <2>2. next \in Nat /\ \A v \in Vals(s) : v \in Nat /\ v # next
    BY <1>4 DEF Vals
  <2> HIDE DEF next
  <2> QED
    BY <2>1, <2>2
<1>8. w[b][x] = NoVal
  BY DEF Sound, Writes
<1>9. g[b].preds = <<>> /\ Preds(g, b) = {}
  BY PredsOf
<1> HIDE DEF e, next, o
<1>10. Sound(g, X, w, T, e, q, o)
  <2>1. r \subseteq (DOMAIN g) \X X \X Vals(e)
    BY <1>6 DEF Sound, Ghosts
  <2>2. q \subseteq (DOMAIN g) \X X \X Vals(e)
    BY <2>1, <1>4
  <2>3. ASSUME NEW c \in DOMAIN g, NEW y \in X, NEW v \in Vals(e),
               <<c, y, v>> \in q, <<c, y, v>> \notin r
        PROVE  /\ Comes(g, w, e, q, c, y, v) /\ o[v] = y
               /\ e.vals[v].repl # NoVal => <<c, y, e.vals[v].repl>> \in q
    <3>1. c = b /\ y = x /\ v = next
      BY <2>3
    <3> QED
      BY <3>1, <1>4, <1>7, <1>9 DEF Comes
  <2>4. r \subseteq q
    OBVIOUS
  <2> HIDE DEF q
  <2> QED
    BY <2>2, <2>3, <2>4, <1>6, MoreSound
<1>11. r \subseteq q /\ AtEndOf(w, q, b, x, next)
  BY <1>8 DEF AtEndOf
<1> HIDE DEF q
<1>12. Sound(g, X, w, T, u, q, o)
  BY <1>4, <1>10, <1>11, WriteVarSound
<1>13. b \in 1..Len(e.defs)
  BY <1>6 DEF Sound, Typed, Graph
<1>14. DefinedThere(X, e, b, x, next, u)
  BY <1>4, <1>13, DefineThere
<1> HIDE DEF u
<1>15. Vals(u) = Vals(e) /\ Later(X, {}, e, u) /\ u \in SSAOf(X)
  BY <1>14 DEF DefinedThere
<1>16. Len(s.vals) \in Nat /\ Len(e.vals) \in Nat /\ Len(u.vals) \in Nat
  BY <1>1, <1>4, <1>15, SSAFields
<1>17. Later(X, {}, s, e)
  BY <1>4, <1>16 DEF Later, next
<1>18. Later(X, {}, s, u)
  BY <1>15, <1>16, <1>17, GrownTrans
<1>19. Follows(g, X, x, w, T, s, r, of, b, u, next)
  BY <1>4, <1>7, <1>11, <1>12, <1>15, <1>18 DEF Follows
<1>20. u.lost = FALSE /\ u \in SSAOf(X)
  BY <1>12 DEF Sound, Typed
<1>21. Found(u, next).s = u /\ Found(u, next).v = next
  BY DEF Found
<1> QED
  BY <1>2, <1>19, <1>20, <1>21 DEF Replies

\* The one predecessor has the value.
LEMMA PassageReplies ==
  ASSUME NEW g, NEW X, NEW w, NEW T, NEW s, NEW r, NEW of, Graph(g), Sound(g, X, w, T, s, r, of),
         T \subseteq Vals(s), NEW b \in DOMAIN g, NEW x \in X, NEW n \in Nat, NEW d,
         s.defs[b][x] = NoVal, g[b].sealed, Len(g[b].preds) = 1, Answered(g, X, x, n, d)
  PROVE  Replies(g, X, x, n + 1, w, T, s, r, of, b, ReadVar(g, s, b, x, d))
<1> DEFINE p == g[b].preds[1]
           a == d[s][p]
           u == WriteVar(a.s, b, x, a.v)
<1>1. s \in SSAOf(X) /\ s.lost = FALSE
  BY DEF Sound, Typed
<1>2. p \in DOMAIN g /\ Preds(g, b) = {p}
  <2>1. DOMAIN g[b].preds = 1..1
    BY PredsOf
  <2>2. Preds(g, b) = {g[b].preds[i] : i \in {1}}
    BY <2>1 DEF Preds
  <2>3. Preds(g, b) \subseteq DOMAIN g
    BY PredsOf
  <2> QED
    BY <2>2, <2>3
<1>3. b \in Passages(g)
  BY DEF Passages
<1>4. Replies(g, X, x, n, w, T, s, r, of, p, a)
  BY <1>2 DEF Answered
<1>5. ReadVar(g, s, b, x, d) = IF a.s.lost THEN a ELSE Found(u, a.v)
  BY <1>1 DEF ReadVar
<1> HIDE DEF a, p
<1>6. CASE a.s.lost
  <2>1. ASSUME NEW A, Passed(g, A, b), Room(g, s, x, A) < n + 1 PROVE DeadLoop(g)
    <3>1. CASE b \in A
      <4>1. \A c \in A : c \in DOMAIN g /\ Len(g[c].preds) = 1
        BY <2>1 DEF Passed, Passages
      <4>2. \A c \in A : c # 1 /\ g[c].preds # <<>>
        <5>1. Len(<<>>) = 0 /\ g[1].preds = <<>>
          BY DEF Graph
        <5>2. ASSUME NEW c \in A PROVE g[c].preds # <<>>
          <6>1. c \in DOMAIN g /\ Len(g[c].preds) = 1
            BY <4>1
          <6> QED
            BY <6>1, PredsOf
        <5> QED
          BY <5>1, <5>2
      <4>3. A \subseteq DOMAIN g /\ A # {} /\ \A c \in A : g[c].sealed /\ Preds(g, c) \subseteq A
        BY <4>1, <3>1, <2>1 DEF Passed
      <4>4. Dead(g, A)
        BY <4>2, <4>3 DEF Dead
      <4> QED
        BY <4>4, DeadIsDeadLoop
    <3>2. CASE b \notin A
      <4> DEFINE B == A \cup {b}
      <4>1. Passed(g, B, p)
        BY <1>2, <1>3, <2>1 DEF Passed
      <4>2. A \subseteq Passages(g) /\ B \subseteq Passages(g)
        BY <1>3, <2>1 DEF Passed
      <4>3. Room(g, s, x, B) < Room(g, s, x, A)
        BY <4>2, <3>2, <1>3, RoomShrinks
      <4>4. Room(g, s, x, A) \in Nat /\ Room(g, s, x, B) \in Nat
        <5> HIDE DEF B
        <5> QED
          BY <4>2, RoomIs
      <4> HIDE DEF B
      <4>5. Room(g, s, x, B) < n
        BY <2>1, <4>3, <4>4
      <4> QED
        BY <4>1, <4>5, <1>4, <1>6 DEF Replies
    <3> QED
      BY <3>1, <3>2
  <2> QED
    BY <2>1, <1>4, <1>5, <1>6 DEF Replies
<1>7. CASE ~a.s.lost
  <2>1. Follows(g, X, x, w, T, s, r, of, p, a.s, a.v)
    BY <1>4, <1>7 DEF Replies
  <2> DEFINE e == a.s
             v == a.v
  <2>2. PICK q, o : /\ r \subseteq q /\ \A y \in Vals(s) : o[y] = of[y]
                    /\ Sound(g, X, w, T, e, q, o) /\ Later(X, {}, s, e)
                    /\ v \in Vals(e) /\ AtEndOf(w, q, p, x, v)
    BY <2>1 DEF Follows
  <2>3. w[b][x] = NoVal
    BY DEF Sound, Writes
  <2> HIDE DEF e, v
  <2> DEFINE new == {<<b, x, y>> : y \in {z \in Vals(e) : AtEndOf(w, q, p, x, z)}}
             q2 == q \cup new
  <2>4. Sound(g, X, w, T, e, q2, o)
    <3>1. q \subseteq (DOMAIN g) \X X \X Vals(e)
      BY <2>2 DEF Sound, Ghosts
    <3>2. q2 \subseteq (DOMAIN g) \X X \X Vals(e)
      BY <3>1
    <3>3. ASSUME NEW c \in DOMAIN g, NEW y \in X, NEW z \in Vals(e),
                 <<c, y, z>> \in q2, <<c, y, z>> \notin q
          PROVE  /\ Comes(g, w, e, q2, c, y, z) /\ o[z] = y
                 /\ e.vals[z].repl # NoVal => <<c, y, e.vals[z].repl>> \in q2
      <4>1. c = b /\ y = x /\ AtEndOf(w, q, p, x, z)
        BY <3>3
      <4>2. AtEndOf(w, q2, p, x, z)
        BY <4>1 DEF AtEndOf
      <4>3. g[b].preds # <<>>
        BY <1>2, PredsOf
      <4>4. Comes(g, w, e, q2, c, y, z)
        BY <4>1, <4>2, <4>3, <1>2 DEF Comes
      <4>5. o[z] = y
        <5>1. CASE w[p][x] # NoVal
          BY <5>1, <4>1, <2>2, <1>2 DEF AtEndOf, Sound, Writes
        <5>2. CASE w[p][x] = NoVal
          BY <5>2, <4>1, <2>2, <1>2 DEF AtEndOf, Sound, Ghosts
        <5> QED
          BY <5>1, <5>2
      <4>6. ASSUME e.vals[z].repl # NoVal PROVE <<c, y, e.vals[z].repl>> \in q2
        <5>1. e.vals[z].kind = "phi" /\ e.vals[z].repl \in Vals(e)
          BY <4>6, <2>2 DEF Sound, Removed
        <5>2. <<p, x, z>> \in q
          BY <5>1, <4>1, <2>2, <1>2, AtEndIsIn
        <5>3. <<p, x, e.vals[z].repl>> \in q
          BY <5>2, <4>6, <2>2, <1>2 DEF Sound, Linked
        <5>4. w[p][x] = NoVal
          BY <5>1, <4>1, <2>2, <1>2 DEF AtEndOf, Sound, Writes
        <5>5. AtEndOf(w, q, p, x, e.vals[z].repl)
          BY <5>3, <5>4 DEF AtEndOf
        <5> QED
          BY <5>1, <5>5, <4>1
      <4> QED
        BY <4>4, <4>5, <4>6
    <3>4. q \subseteq q2
      OBVIOUS
    <3> HIDE DEF q2
    <3> QED
      BY <3>2, <3>3, <3>4, <2>2, MoreSound
  <2>5. r \subseteq q2 /\ AtEndOf(w, q2, b, x, v)
    BY <2>2, <2>3 DEF AtEndOf
  <2> HIDE DEF q2
  <2>6. Sound(g, X, w, T, WriteVar(e, b, x, v), q2, o)
    BY <2>2, <2>4, <2>5, WriteVarSound
  <2>7. e \in SSAOf(X) /\ b \in 1..Len(e.defs)
    BY <2>4 DEF Sound, Typed, Graph
  <2>8. DefinedThere(X, e, b, x, v, WriteVar(e, b, x, v))
    BY <2>2, <2>7, DefineThere
  <2>9. u = WriteVar(e, b, x, v)
    BY DEF e, v
  <2> HIDE DEF u
  <2>10. Vals(u) = Vals(e) /\ Later(X, {}, e, u) /\ u \in SSAOf(X)
    BY <2>8, <2>9 DEF DefinedThere
  <2>11. Len(s.vals) \in Nat /\ Len(e.vals) \in Nat /\ Len(u.vals) \in Nat
    BY <1>1, <2>7, <2>10, SSAFields
  <2>12. Later(X, {}, s, u)
    BY <2>2, <2>10, <2>11, GrownTrans
  <2>13. Follows(g, X, x, w, T, s, r, of, b, u, v)
    BY <2>2, <2>5, <2>6, <2>9, <2>10, <2>12 DEF Follows
  <2>14. u.lost = FALSE /\ u \in SSAOf(X)
    BY <2>6, <2>9 DEF Sound, Typed
  <2>15. Found(u, v).s = u /\ Found(u, v).v = v
    BY DEF Found
  <2> QED
    BY <1>5, <1>7, <2>13, <2>14, <2>15 DEF Replies, v
<1> QED
  BY <1>6, <1>7

\* The operands of a phi are read and a trivial phi is removed.
Filling(g, X, x, w, T, s, r, of, b, phi, i, e) ==
  \E q, o : /\ r \subseteq q /\ \A u \in Vals(s) : o[u] = of[u]
            /\ Sound(g, X, w, T, e, q, o) /\ Later(X, {phi}, s, e)
            /\ e.vals[phi].repl = NoVal /\ Len(e.vals[phi].from) = i
            /\ \A j \in 1..i : e.vals[phi].from[j] = g[b].preds[j]

LEMMA OneOperand ==
  ASSUME NEW g, NEW X, NEW w, NEW T, NEW s, NEW r, NEW of, Graph(g), Sound(g, X, w, T, s, r, of),
         T \subseteq Vals(s), NEW b \in DOMAIN g, NEW x \in X, NEW n \in Nat, NEW d,
         NEW phi \in Vals(s), phi \in T, IsPhiOf(s, phi, b), of[phi] = x,
         Answered(g, X, x, n, d), NEW i \in 1..Len(g[b].preds), NEW e,
         Filling(g, X, x, w, T, s, r, of, b, phi, i - 1, e)
  PROVE  LET u == AddOperand(d, phi, e, g[b].preds[i])
         IN  /\ u \in SSAOf(X)
             /\ ~u.lost => Filling(g, X, x, w, T, s, r, of, b, phi, i, u)
             /\ u.lost /\ Room(g, s, x, {}) < n => DeadLoop(g)
<1> DEFINE p == g[b].preds[i]
           a == d[e][p]
           u == AddOperand(d, phi, e, p)
<1>1. PICK q, o : /\ r \subseteq q /\ \A v \in Vals(s) : o[v] = of[v]
                  /\ Sound(g, X, w, T, e, q, o) /\ Later(X, {phi}, s, e)
                  /\ e.vals[phi].repl = NoVal /\ Len(e.vals[phi].from) = i - 1
                  /\ \A j \in 1..(i - 1) : e.vals[phi].from[j] = g[b].preds[j]
  BY DEF Filling
<1>2. p \in Preds(g, b) /\ p \in DOMAIN g
  BY PredsOf
<1>3. Vals(s) \subseteq Vals(e) /\ T \subseteq Vals(e) /\ phi \in Vals(e)
  BY <1>1 DEF Later
<1>4. Replies(g, X, x, n, w, T, e, q, o, p, a)
  BY <1>1, <1>2, <1>3 DEF Answered
<1>5. e \in SSAOf(X) /\ e.lost = FALSE /\ s \in SSAOf(X)
  BY <1>1 DEF Sound, Typed
<1>6. u = IF a.s.lost THEN a.s ELSE WithOperand(a.s, phi, a.v, p)
  BY <1>5 DEF AddOperand, WithOperand
<1> HIDE DEF u, a, p
<1>7. CASE a.s.lost
  <2>1. ASSUME Room(g, s, x, {}) < n PROVE DeadLoop(g)
    <3>1. Passed(g, {}, p)
      BY DEF Passed
    <3>2. Unmet(g, e, x) \subseteq Unmet(g, s, x)
      <4>1. Joins(g) \subseteq 1..Len(s.defs)
        BY DEF Joins, Graph, Sound, Typed
      <4> QED
        BY <4>1, <1>1 DEF Later, Unmet
    <3>3. Room(g, e, x, {}) <= Room(g, s, x, {})
      BY <3>2, RoomShrinks
    <3>4. Room(g, e, x, {}) \in Nat /\ Room(g, s, x, {}) \in Nat
      BY RoomIs
    <3>5. Room(g, e, x, {}) < n
      BY <2>1, <3>3, <3>4
    <3> QED
      BY <3>1, <3>5, <1>4, <1>7 DEF Replies
  <2>2. a.s \in SSAOf(X)
    BY <1>4 DEF Replies
  <2> QED
    BY <2>1, <2>2, <1>6, <1>7 DEF u, p
<1>8. CASE ~a.s.lost
  <2> DEFINE c == a.s
             v == a.v
  <2>1. Follows(g, X, x, w, T, e, q, o, p, c, v)
    BY <1>4, <1>8 DEF Replies
  <2>2. PICK q2, o2 : /\ q \subseteq q2 /\ \A y \in Vals(e) : o2[y] = o[y]
                      /\ Sound(g, X, w, T, c, q2, o2) /\ Later(X, {}, e, c)
                      /\ v \in Vals(c) /\ AtEndOf(w, q2, p, x, v)
    BY <2>1 DEF Follows
  <2>3. u = WithOperand(c, phi, v, p)
    BY <1>6, <1>8
  <2> HIDE DEF c, v
  <2>4. /\ phi \in Vals(c) /\ c.vals[phi].block = b /\ c.vals[phi].kind = "phi"
        /\ c.vals[phi].from = e.vals[phi].from /\ c.vals[phi].repl = NoVal
        /\ o2[phi] = x
    <3>1. e.vals[phi].block = b /\ e.vals[phi].kind = "phi"
      BY <1>1 DEF Later, IsPhiOf
    <3>2. phi \notin {}
      OBVIOUS
    <3>3. /\ c.vals[phi].kind = e.vals[phi].kind /\ c.vals[phi].block = e.vals[phi].block
          /\ c.vals[phi].from = e.vals[phi].from /\ c.vals[phi].repl = e.vals[phi].repl
      BY <1>3, <2>2, <3>2 DEF Later
    <3>4. phi \in Vals(c)
      BY <1>3, <2>2 DEF Later
    <3>5. o2[phi] = x
      BY <1>1, <1>3, <2>2
    <3> QED
      BY <3>1, <3>3, <3>4, <3>5, <1>1
  <2>5. Sound(g, X, w, T, u, q2, o2) /\ HasOperand(X, c, phi, v, p, u)
    BY <2>2, <2>3, <2>4, <1>2, OperandSound
  <2>6. /\ u \in SSAOf(X) /\ u.defs = c.defs /\ Len(u.vals) = Len(c.vals)
        /\ \A y \in Vals(c) : y # phi => u.vals[y] = c.vals[y]
        /\ u.vals[phi].kind = c.vals[phi].kind /\ u.vals[phi].block = c.vals[phi].block
        /\ u.vals[phi].repl = c.vals[phi].repl
        /\ u.vals[phi].from = Append(c.vals[phi].from, p)
    BY <2>5 DEF HasOperand
  <2>7. c \in SSAOf(X) /\ c.vals[phi].from \in Seq(Nat) /\ p \in Nat
    <3>1. c \in SSAOf(X)
      BY <2>2 DEF Sound, Typed
    <3>2. p \in Nat
      BY <1>2 DEF Graph
    <3> QED
      BY <3>1, <3>2, <2>4, SSAFields
  <2>8. Len(s.vals) \in Nat /\ Len(e.vals) \in Nat /\ Len(c.vals) \in Nat /\ Len(u.vals) \in Nat
    BY <1>5, <2>6, <2>7, SSAFields
  <2>9. Later(X, {phi}, c, u)
    <3>1. Vals(u) = Vals(c)
      BY <2>6 DEF Vals
    <3> QED
      BY <3>1, <2>6, <2>8 DEF Later
  <2>10. Later(X, {phi}, s, c)
    BY <2>8, <2>2, <1>1, GrownTrans
  <2>11. Later(X, {phi}, s, u)
    BY <2>8, <2>9, <2>10, GrownTrans
  <2>12. i \in Nat /\ i - 1 \in Nat /\ i \in 1..i /\ \A j \in 1..i : j # i => j \in 1..(i - 1)
    BY PredsOf
  <2>13. Len(c.vals[phi].from) = i - 1
    BY <1>1, <2>4
  <2>14. /\ Len(u.vals[phi].from) = (i - 1) + 1
         /\ u.vals[phi].from[(i - 1) + 1] = p
         /\ \A j \in 1..(i - 1) : u.vals[phi].from[j] = c.vals[phi].from[j]
    BY <2>6, <2>7, <2>13, <2>12
  <2>15. (i - 1) + 1 = i
    BY <2>12
  <2>16. Len(u.vals[phi].from) = i /\ \A j \in 1..i : u.vals[phi].from[j] = g[b].preds[j]
    BY <2>4, <2>12, <2>14, <2>15, <1>1 DEF p
  <2>17. r \subseteq q2 /\ \A y \in Vals(s) : o2[y] = of[y]
    BY <1>1, <1>3, <2>2
  <2>18. Filling(g, X, x, w, T, s, r, of, b, phi, i, u)
    BY <2>4, <2>5, <2>6, <2>11, <2>16, <2>17 DEF Filling
  <2>19. u.lost = FALSE
    BY <2>5 DEF Sound, Typed
  <2> QED
    BY <2>6, <2>18, <2>19 DEF u, p
<1> QED
  BY <1>7, <1>8

\* What AddOperands returns.
PhiFilled(g, X, w, T, s, r, of, phi, e) ==
  \E q, o : /\ r \subseteq q /\ \A u \in Vals(s) : o[u] = of[u]
            /\ Sound(g, X, w, T \ {phi}, e, q, o) /\ Later(X, {phi}, s, e)

LEMMA AddOperandsReplies ==
  ASSUME NEW g, NEW X, NEW w, NEW T, NEW s, NEW r, NEW of, Graph(g), Sound(g, X, w, T, s, r, of),
         T \subseteq Vals(s), NEW b \in DOMAIN g, NEW x \in X, NEW n \in Nat, NEW d,
         NEW phi \in Vals(s), phi \in T, IsPhiOf(s, phi, b), of[phi] = x,
         s.vals[phi].from = <<>>, s.vals[phi].repl = NoVal, g[b].sealed,
         Answered(g, X, x, n, d)
  PROVE  LET e == AddOperands(g, s, b, phi, d)
         IN  /\ e \in SSAOf(X)
             /\ ~e.lost => PhiFilled(g, X, w, T, s, r, of, phi, e)
             /\ e.lost /\ Room(g, s, x, {}) < n => DeadLoop(g)
<1> DEFINE N == Len(g[b].preds)
           e == AddOperands(g, s, b, phi, d)
<1>1. N \in Nat
  BY PredsOf
<1>2. PICK f : /\ f[0] = s
               /\ \A i \in 1..N : f[i] = AddOperand(d, phi, f[i - 1], g[b].preds[i])
               /\ e = IF f[N].lost THEN f[N] ELSE TryRemove(f[N], phi)
  BY <1>1, AddOperandsSteps
<1>3. s.lost = FALSE /\ s \in SSAOf(X)
  BY DEF Sound, Typed
<1> DEFINE Good(i) == /\ f[i] \in SSAOf(X)
                      /\ ~f[i].lost => Filling(g, X, x, w, T, s, r, of, b, phi, i, f[i])
                      /\ f[i].lost /\ Room(g, s, x, {}) < n => DeadLoop(g)
           Bad == {i \in 0..N : ~Good(i)}
<1>4. Good(0)
  <2>1. Len(s.vals) \in Nat
    BY <1>3, SSAFields
  <2>2. Later(X, {phi}, s, s)
    BY <2>1 DEF Later
  <2>3. Len(s.vals[phi].from) = 0 /\ 1..0 = {}
    OBVIOUS
  <2>4. Filling(g, X, x, w, T, s, r, of, b, phi, 0, s)
    BY <2>2, <2>3 DEF Filling
  <2> QED
    BY <2>4, <1>2, <1>3
<1>5. ASSUME NEW i \in 1..N, Good(i - 1) PROVE Good(i)
  <2>1. f[i] = AddOperand(d, phi, f[i - 1], g[b].preds[i])
    BY <1>2
  <2>2. CASE f[i - 1].lost
    <3>1. f[i] = f[i - 1]
      BY <2>1, <2>2 DEF AddOperand
    <3> QED
      BY <3>1, <2>2, <1>5
  <2>3. CASE ~f[i - 1].lost
    <3>1. Filling(g, X, x, w, T, s, r, of, b, phi, i - 1, f[i - 1])
      BY <2>3, <1>5
    <3>2. LET u == AddOperand(d, phi, f[i - 1], g[b].preds[i])
          IN  /\ u \in SSAOf(X)
              /\ ~u.lost => Filling(g, X, x, w, T, s, r, of, b, phi, i, u)
              /\ u.lost /\ Room(g, s, x, {}) < n => DeadLoop(g)
      BY <3>1, OneOperand
    <3> QED
      BY <3>2, <2>1
  <2> QED
    BY <2>2, <2>3
<1>6. Bad = {}
  <2>1. SUFFICES ASSUME Bad # {} PROVE FALSE
    OBVIOUS
  <2>2. Bad \subseteq Nat
    BY <1>1
  <2>3. PICK k \in Bad : \A j \in Bad : k <= j
    <3> HIDE DEF Bad
    <3> QED
      BY <2>1, <2>2, LeastOf
  <2>4. k \in 0..N /\ ~Good(k)
    OBVIOUS
  <2>5. k # 0
    BY <2>4, <1>4
  <2>6. k \in 1..N /\ k - 1 \in 0..N /\ ~ (k <= k - 1)
    BY <2>4, <2>5, <1>1
  <2>7. k - 1 \notin Bad
    <3> HIDE DEF Bad
    <3> QED
      BY <2>3, <2>6
  <2>8. Good(k - 1)
    BY <2>6, <2>7
  <2> HIDE DEF Good, Bad
  <2> QED
    BY <2>4, <2>6, <2>8, <1>5
<1>7. Good(N)
  <2>1. N \in 0..N
    BY <1>1
  <2> HIDE DEF Good
  <2> QED
    BY <2>1, <1>6
<1>8. CASE f[N].lost
  BY <1>2, <1>7, <1>8
<1>9. CASE ~f[N].lost
  <2>0. Filling(g, X, x, w, T, s, r, of, b, phi, N, f[N])
    BY <1>7, <1>9
  <2> DEFINE u == f[N]
  <2>1. PICK q, o : /\ r \subseteq q /\ \A v \in Vals(s) : o[v] = of[v]
                    /\ Sound(g, X, w, T, u, q, o) /\ Later(X, {phi}, s, u)
                    /\ u.vals[phi].repl = NoVal /\ Len(u.vals[phi].from) = N
                    /\ \A j \in 1..N : u.vals[phi].from[j] = g[b].preds[j]
    BY <2>0 DEF Filling
  <2>2. e = TryRemove(u, phi)
    BY <1>2, <1>9
  <2> HIDE DEF u, e
  <2>3. phi \in Vals(u) /\ u.vals[phi].block = b /\ u.vals[phi].kind = "phi" /\ u \in SSAOf(X)
    BY <2>1 DEF Later, IsPhiOf, Sound, Typed
  <2>4. u.vals[phi].from = g[b].preds
    <3>1. u.vals[phi].from \in Seq(Nat)
      BY <2>3, SSAFields
    <3>2. g[b].preds \in Seq(DOMAIN g)
      BY DEF Graph
    <3>3. DOMAIN u.vals[phi].from = 1..N /\ DOMAIN g[b].preds = 1..N
      BY <3>1, <3>2, <2>1
    <3> QED
      BY SMTT(60), <3>1, <3>2, <3>3, <2>1
  <2>5. Sound(g, X, w, T \ {phi}, u, q, o)
    BY <2>1, <2>3, <2>4, FilledSound
  <2>6. Tried(g, X, w, T \ {phi}, u, q, o, phi, TryRemove(u, phi))
    <3>1. phi \notin T \ {phi}
      OBVIOUS
    <3>2. /\ g[u.vals[phi].block].sealed /\ u.vals[phi].from = g[u.vals[phi].block].preds
          /\ u.vals[phi].repl = NoVal /\ u.vals[phi].kind = "phi" /\ phi \in Vals(u)
      BY <2>1, <2>3, <2>4
    <3> HIDE DEF Good, Bad
    <3> QED
      BY <3>1, <3>2, <2>5, RemoveSound
  <2>7. PICK q2 : q \subseteq q2 /\ Sound(g, X, w, T \ {phi}, e, q2, o)
    BY <2>2, <2>6 DEF Tried
  <2>8. Len(s.vals) \in Nat /\ Len(u.vals) \in Nat /\ Len(e.vals) \in Nat
    BY <1>3, <2>2, <2>3, <2>6, SSAFields DEF Tried
  <2>9. Later(X, {phi}, u, e)
    BY <2>2, <2>6 DEF Tried
  <2>10. Later(X, {phi}, s, e)
    BY <2>1, <2>8, <2>9, GrownTrans
  <2>11. r \subseteq q2
    BY <2>1, <2>7
  <2>12. PhiFilled(g, X, w, T, s, r, of, phi, e)
    BY <2>1, <2>7, <2>10, <2>11 DEF PhiFilled
  <2>13. e.lost = FALSE /\ e \in SSAOf(X)
    BY <2>7 DEF Sound, Typed
  <2> QED
    BY <2>12, <2>13 DEF e
<1> QED
  BY <1>8, <1>9

\* Several predecessors: a phi, with an operand for each.
LEMMA JoinReplies ==
  ASSUME NEW g, NEW X, NEW w, NEW T, NEW s, NEW r, NEW of, Graph(g), Sound(g, X, w, T, s, r, of),
         T \subseteq Vals(s), NEW b \in DOMAIN g, NEW x \in X, NEW n \in Nat, NEW d,
         s.defs[b][x] = NoVal, g[b].sealed, Len(g[b].preds) > 1, Answered(g, X, x, n, d)
  PROVE  Replies(g, X, x, n + 1, w, T, s, r, of, b, ReadVar(g, s, b, x, d))
<1> DEFINE next == Len(s.vals) + 1
           e0 == Emit(s, b, "phi")
           e1 == WriteVar(e0, b, x, next)
           e2 == AddOperands(g, e1, b, next, d)
           e3 == WriteVar(e2, b, x, next)
           U == T \cup {next}
<1>1. s \in SSAOf(X) /\ s.lost = FALSE
  BY DEF Sound, Typed
<1>2. ReadVar(g, s, b, x, d) = Found(e3, next)
  <2>1. Len(g[b].preds) # 0 /\ Len(g[b].preds) # 1
    BY PredsOf
  <2> QED
    BY <1>1, <2>1 DEF ReadVar, NewPhi
<1>3. PICK q, o : Started(g, X, x, w, T, s, r, of, b, e0, q, o)
  BY StartPhi
<1>4. /\ Sound(g, X, w, U, e0, q, o) /\ r \subseteq q /\ \A v \in Vals(s) : o[v] = of[v]
      /\ o[next] = x /\ next \in Vals(e0) /\ next \notin Vals(s)
      /\ IsPhiOf(e0, next, b) /\ AtEndOf(w, q, b, x, next)
      /\ e0.vals[next].from = <<>> /\ e0.vals[next].repl = NoVal
      /\ e0.defs = s.defs /\ Later(X, {}, s, e0) /\ U \subseteq Vals(e0) /\ next \notin T
  <2> HIDE DEF e0
  <2> QED
    BY <1>3 DEF Started
<1> HIDE DEF e0, next
<1>5. e0 \in SSAOf(X) /\ b \in 1..Len(e0.defs) /\ next \in Nat /\ next # NoVal
  BY <1>4 DEF Sound, Typed, Graph, Vals, NoVal
<1>6. Sound(g, X, w, U, e1, q, o)
  <2> HIDE DEF U
  <2> QED
    BY <1>4, WriteVarSound
<1>7. DefinedThere(X, e0, b, x, next, e1)
  BY <1>4, <1>5, DefineThere
<1>8. /\ e1.vals = e0.vals /\ Len(e1.defs) = Len(e0.defs) /\ e1.defs[b][x] = next
      /\ \A c \in 1..Len(e0.defs), y \in X :
           ~(c = b /\ y = x) => e1.defs[c][y] = e0.defs[c][y]
  BY <1>5, WriteVarFields
<1> HIDE DEF e1
<1>9. Vals(e1) = Vals(e0) /\ Later(X, {}, e0, e1) /\ e1 \in SSAOf(X)
  BY <1>7 DEF DefinedThere
<1>10. /\ U \subseteq Vals(e1) /\ next \in Vals(e1) /\ next \in U /\ IsPhiOf(e1, next, b)
       /\ e1.vals[next].from = <<>> /\ e1.vals[next].repl = NoVal
  BY <1>4, <1>8, <1>9 DEF IsPhiOf
<1>11. /\ e2 \in SSAOf(X)
       /\ ~e2.lost => PhiFilled(g, X, w, U, e1, q, o, next, e2)
       /\ e2.lost /\ Room(g, e1, x, {}) < n => DeadLoop(g)
  <2> HIDE DEF U
  <2> QED
    BY <1>4, <1>6, <1>10, AddOperandsReplies
<1>12. e2.lost /\ (\E A : Passed(g, A, b) /\ Room(g, s, x, A) < n + 1) => DeadLoop(g)
  <2>1. SUFFICES ASSUME e2.lost, NEW A, Passed(g, A, b), Room(g, s, x, A) < n + 1
                 PROVE  Room(g, e1, x, {}) < n
    <3> HIDE DEF e2
    <3> QED
      BY <1>11
  <2>2. b \in Unmet(g, s, x) /\ A \subseteq Passages(g)
    BY <2>1 DEF Unmet, Joins, Passed
  <2>3. Unmet(g, e1, x) \subseteq Unmet(g, s, x) \ {b}
    <3>1. Joins(g) \subseteq 1..Len(e0.defs)
      BY <1>4 DEF Joins, Graph, Sound, Typed
    <3> QED
      BY <3>1, <1>4, <1>5, <1>8 DEF Unmet
  <2>4. Room(g, e1, x, {}) < Room(g, s, x, A)
    BY <2>2, <2>3, RoomShrinks
  <2>5. Room(g, e1, x, {}) \in Nat /\ Room(g, s, x, A) \in Nat
    BY <2>2, RoomIs
  <2> QED
    BY <2>1, <2>4, <2>5
<1> HIDE DEF e2
<1>13. b \in 1..Len(e2.defs) \/ e2.lost
  <2>1. ~e2.lost => Len(e1.defs) = Len(e2.defs)
    BY <1>11 DEF PhiFilled, Later
  <2> QED
    BY <2>1, <1>5, <1>8
<1>14. CASE e2.lost
  <2>1. e3.lost = e2.lost /\ e3 \in SSAOf(X)
    <3>1. CASE b \in 1..Len(e2.defs)
      BY <1>5, <1>11, <3>1, WriteVarFields
    <3>2. CASE b \notin 1..Len(e2.defs)
      <4> DEFINE df == [e2.defs EXCEPT ![b][x] = next]
      <4>1. DOMAIN e2.defs = 1..Len(e2.defs) /\ e2.defs = [c \in DOMAIN e2.defs |-> e2.defs[c]]
        <5>1. e2.defs \in Seq([X -> Nat])
          BY <1>11, SSAFields
        <5> QED
          BY <5>1
      <4>2. df = e2.defs
        BY <3>2, <4>1
      <4>3. e3 = [e2 EXCEPT !.defs = df]
        BY DEF WriteVar
      <4> HIDE DEF df
      <4> QED
        BY <4>2, <4>3, <1>11 DEF SSAOf
    <3> QED
      BY <3>1, <3>2
  <2>2. Found(e3, next).s = e3
    BY DEF Found
  <2> HIDE DEF e3
  <2> QED
    BY <1>2, <1>12, <1>14, <2>1, <2>2 DEF Replies
<1>15. CASE ~e2.lost
  <2>1. PICK q2, o2 : /\ q \subseteq q2 /\ \A u \in Vals(e1) : o2[u] = o[u]
                      /\ Sound(g, X, w, U \ {next}, e2, q2, o2) /\ Later(X, {next}, e1, e2)
    BY <1>11, <1>15 DEF PhiFilled
  <2>2. U \ {next} = T
    BY <1>4
  <2>3. Sound(g, X, w, T, e2, q2, o2)
    BY <2>1, <2>2
  <2>4. next \in Vals(e2) /\ AtEndOf(w, q2, b, x, next) /\ b \in 1..Len(e2.defs)
    BY <1>4, <1>10, <1>13, <1>15, <2>1 DEF Later, AtEndOf
  <2>5. Sound(g, X, w, T, e3, q2, o2)
    BY <2>3, <2>4, WriteVarSound
  <2>6. DefinedThere(X, e2, b, x, next, e3)
    BY <1>11, <2>4, DefineThere
  <2> HIDE DEF e3, U
  <2>7. Vals(e3) = Vals(e2) /\ Later(X, {}, e2, e3) /\ e3 \in SSAOf(X)
    BY <2>6 DEF DefinedThere
  <2>8. /\ Len(s.vals) \in Nat /\ Len(e0.vals) \in Nat /\ Len(e1.vals) \in Nat
        /\ Len(e2.vals) \in Nat /\ Len(e3.vals) \in Nat
    BY <1>1, <1>5, <1>9, <1>11, <2>7, SSAFields
  <2>9. Later(X, {}, s, e1)
    BY <1>4, <1>9, <2>8, GrownTrans
  <2>10. Later(X, {next}, s, e1)
    BY <2>9, GrownOnly
  <2>11. Later(X, {next}, s, e2)
    BY <2>1, <2>8, <2>10, GrownTrans
  <2>12. Later(X, {}, s, e2)
    BY <2>11, <1>4, GrownOnly
  <2>13. Later(X, {}, s, e3)
    BY <2>7, <2>8, <2>12, GrownTrans
  <2>14. r \subseteq q2 /\ \A u \in Vals(s) : o2[u] = of[u]
    BY <1>4, <2>1, <2>9 DEF Later
  <2>15. Follows(g, X, x, w, T, s, r, of, b, e3, next)
    BY <2>4, <2>5, <2>7, <2>13, <2>14 DEF Follows
  <2>16. e3.lost = FALSE
    BY <2>5 DEF Sound, Typed
  <2>17. Found(e3, next).s = e3 /\ Found(e3, next).v = next
    BY DEF Found
  <2> QED
    BY <1>2, <2>7, <2>15, <2>16, <2>17 DEF Replies
<1> QED
  BY <1>14, <1>15

LEMMA OneMoreAnswered ==
  ASSUME NEW g, Graph(g), NEW X, NEW x \in X, NEW n \in Nat, NEW d, Answered(g, X, x, n, d)
  PROVE  Answered(g, X, x, n + 1, OneCall(g, x, X, d))
<1> DEFINE c == OneCall(g, x, X, d)
<1>1. SUFFICES ASSUME NEW w, NEW T, NEW s, NEW r, NEW of, NEW b, Sound(g, X, w, T, s, r, of),
                      T \subseteq Vals(s), b \in DOMAIN g
               PROVE  Replies(g, X, x, n + 1, w, T, s, r, of, b, c[s][b])
  BY DEF Answered
<1>2. s \in SSAOf(X)
  BY <1>1 DEF Sound, Typed
<1>3. c[s][b] = ReadVar(g, s, b, x, d)
  BY <1>1, <1>2 DEF OneCall
<1> HIDE DEF c
<1>4. CASE s.defs[b][x] # NoVal
  BY <1>1, <1>3, <1>4, FoundReplies
<1>5. CASE s.defs[b][x] = NoVal /\ ~g[b].sealed
  BY <1>1, <1>3, <1>5, UnsealedReplies
<1>6. CASE s.defs[b][x] = NoVal /\ g[b].sealed
  <2>1. Len(g[b].preds) = 0 \/ Len(g[b].preds) = 1 \/ Len(g[b].preds) > 1
    <3> DEFINE N == Len(g[b].preds)
    <3>1. N \in Nat
      BY <1>1, PredsOf
    <3> HIDE DEF N
    <3>2. N = 0 \/ N = 1 \/ N > 1
      BY <3>1
    <3> QED
      BY <3>2 DEF N
  <2>2. CASE Len(g[b].preds) = 0
    BY <1>1, <1>3, <1>6, <2>2, ZeroReplies
  <2>3. CASE Len(g[b].preds) = 1
    BY <1>1, <1>3, <1>6, <2>3, PassageReplies
  <2>4. CASE Len(g[b].preds) > 1
    BY <1>1, <1>3, <1>6, <2>4, JoinReplies
  <2> QED
    BY <2>1, <2>2, <2>3, <2>4
<1> QED
  BY <1>4, <1>5, <1>6

LEMMA SearchAnswered ==
  ASSUME NEW g, Graph(g), NEW X, NEW x \in X
  PROVE  Answered(g, X, x, MaxCalls(g), Search(g, x, X))
<1> DEFINE N == MaxCalls(g)
<1>1. N \in Nat
  BY Finite
<1>2. PICK f : /\ f[0] = NoCalls(g, X)
               /\ \A i \in 1..N : f[i] = OneCall(g, x, X, f[i - 1])
               /\ Search(g, x, X) = f[N]
  BY <1>1, SearchSteps
<1> HIDE DEF N
<1> DEFINE Bad == {i \in 0..N : ~Answered(g, X, x, i, f[i])}
<1>3. Bad = {}
  <2>1. SUFFICES ASSUME Bad # {} PROVE FALSE
    OBVIOUS
  <2>2. Bad \subseteq Nat
    BY <1>1
  <2>3. PICK k \in Bad : \A j \in Bad : k <= j
    <3> HIDE DEF Bad
    <3> QED
      BY <2>1, <2>2, LeastOf
  <2>4. k \in 0..N /\ ~Answered(g, X, x, k, f[k])
    OBVIOUS
  <2>5. k # 0
    BY <2>4, <1>2, NoneAnswered
  <2>6. k \in 1..N /\ k - 1 \in 0..N /\ ~ (k <= k - 1) /\ k - 1 \in Nat /\ (k - 1) + 1 = k
    BY <2>4, <2>5, <1>1
  <2>7. k - 1 \notin Bad
    <3> HIDE DEF Bad
    <3> QED
      BY <2>3, <2>6
  <2>8. Answered(g, X, x, k - 1, f[k - 1])
    BY <2>6, <2>7
  <2>9. Answered(g, X, x, (k - 1) + 1, OneCall(g, x, X, f[k - 1]))
    BY <2>6, <2>8, OneMoreAnswered
  <2> QED
    BY <2>4, <2>6, <2>9, <1>2
<1>4. N \in 0..N
  BY <1>1
<1> QED
  BY <1>2, <1>3, <1>4 DEF N

LEMMA VarsOfSound ==
  ASSUME NEW g, NEW X, NEW s, Graph(g), s \in SSAOf(X), Len(s.defs) = Len(g)
  PROVE  VarsOf(s) = X
<1>1. 1 \in 1..Len(s.defs) /\ s.defs \in Seq([X -> Nat])
  BY SSAFields DEF Graph
<1>2. s.defs[1] \in [X -> Nat]
  BY <1>1
<1> QED
  BY <1>2 DEF VarsOf

\* What a read of x where b ends returns.
Answer(g, X, x, w, T, s, r, of, b, a) ==
  /\ a.s \in SSAOf(X)
  /\ ~a.s.lost => Follows(g, X, x, w, T, s, r, of, b, a.s, a.v)
  /\ a.s.lost => DeadLoop(g)

LEMMA ReadSound ==
  ASSUME NEW g, NEW X, NEW w, NEW T, NEW s, NEW r, NEW of, Graph(g), Sound(g, X, w, T, s, r, of),
         T \subseteq Vals(s), NEW b \in DOMAIN g, NEW x \in X
  PROVE  Answer(g, X, x, w, T, s, r, of, b, Read(g, s, b, x))
<1> DEFINE d == Search(g, x, X)
<1>1. s \in SSAOf(X) /\ Len(s.defs) = Len(g)
  BY DEF Sound, Typed
<1>2. Read(g, s, b, x) = d[s][b]
  BY <1>1, VarsOfSound DEF Read
<1>3. Answered(g, X, x, MaxCalls(g), d)
  BY SearchAnswered
<1> HIDE DEF d
<1>4. Replies(g, X, x, MaxCalls(g), w, T, s, r, of, b, d[s][b])
  BY <1>3 DEF Answered
<1>5. Passed(g, {}, b) /\ Room(g, s, x, {}) < MaxCalls(g)
  BY RoomIs DEF Passed
<1> QED
  BY <1>2, <1>4, <1>5 DEF Replies, Answer

-----------------------------------------------------------------------------
(* What a caller does between reads. *)

\* h is g with b sealed.
SealedAt(g, b, h) ==
  /\ Graph(h) /\ Len(h) = Len(g) /\ h[b].sealed
  /\ \A c \in DOMAIN g : h[c].preds = g[c].preds /\ (c # b => h[c].sealed = g[c].sealed)

\* The phis of b from the i-th on.
Waiting(s, b, i) == {s.pending[b][j][2] : j \in i..Len(s.pending[b])}

\* The phis that were pending in b still have no operand, and each is there once.
LEMMA SealSound ==
  ASSUME NEW g, NEW X, NEW w, NEW s, NEW r, NEW of, Graph(g), Sound(g, X, w, {}, s, r, of),
         NEW b \in DOMAIN g, ~g[b].sealed, NEW h, SealedAt(g, b, h)
  PROVE  /\ Sound(h, X, w, Waiting(s, b, 1), s, r, of)
         /\ \A i \in 1..Len(s.pending[b]) : LET p == s.pending[b][i] IN
              /\ p[2] \in Vals(s) /\ IsPhiOf(s, p[2], b) /\ of[p[2]] = p[1]
              /\ s.vals[p[2]].from = <<>> /\ s.vals[p[2]].repl = NoVal
         /\ \A i, j \in 1..Len(s.pending[b]) :
              s.pending[b][i][2] = s.pending[b][j][2] => i = j
<1> DEFINE T == Waiting(s, b, 1)
<1>1. /\ DOMAIN h = DOMAIN g /\ Len(h) = Len(g) /\ h[b].sealed = TRUE
      /\ \A c \in DOMAIN g : /\ h[c].preds = g[c].preds /\ Preds(h, c) = Preds(g, c)
                             /\ c # b => h[c].sealed = g[c].sealed
                             /\ g[c].sealed => h[c].sealed
  <2>1. DOMAIN h = DOMAIN g /\ h[b].sealed \in BOOLEAN
    BY DEF SealedAt, Graph
  <2>2. h[b].sealed = TRUE
    BY <2>1 DEF SealedAt
  <2> QED
    BY <2>1, <2>2 DEF SealedAt, Preds
<1>2. ASSUME NEW i \in 1..Len(s.pending[b])
      PROVE  LET p == s.pending[b][i] IN
             /\ p[2] \in Vals(s) /\ IsPhiOf(s, p[2], b) /\ of[p[2]] = p[1]
             /\ s.vals[p[2]].from = <<>> /\ s.vals[p[2]].repl = NoVal
  <2> DEFINE p == s.pending[b][i]
  <2>1. p[2] \in Vals(s) /\ IsPhiOf(s, p[2], b) /\ of[p[2]] = p[1]
    BY DEF Sound, PhisDue
  <2> HIDE DEF p
  <2>2. s.vals[p[2]].from = <<>>
    BY <2>1 DEF Sound, PhisDue, IsPhiOf
  <2>3. s.vals[p[2]].repl = NoVal
    BY <2>1 DEF Sound, Removed, IsPhiOf
  <2> QED
    BY <2>1, <2>2, <2>3 DEF p
<1>3. \A i, j \in 1..Len(s.pending[b]) : s.pending[b][i][2] = s.pending[b][j][2] => i = j
  BY DEF Sound, PhisDue
<1>4. \A v \in Vals(s) : v \in T => IsPhiOf(s, v, b) /\ s.vals[v].repl = NoVal
  BY <1>2 DEF Waiting
<1>5. \A v \in Vals(s) : IsPhiOf(s, v, b) => v \in T
  <2>1. ASSUME NEW v \in Vals(s), IsPhiOf(s, v, b) PROVE v \in T
    <3>1. \E i \in 1..Len(s.pending[b]) : s.pending[b][i][2] = v
      BY <2>1 DEF Sound, PhisDue, IsPhiOf
    <3> QED
      BY <3>1 DEF Waiting
  <2> QED
    BY <2>1
<1> HIDE DEF T
<1>6. Typed(h, X, s) /\ Ghosts(h, X, w, s, r, of)
  BY <1>1 DEF Sound, Typed, Ghosts
<1>7. Writes(h, X, w, s, of) /\ Linked(h, X, s, r) /\ Definitions(h, X, w, s, r)
  BY <1>1 DEF Sound, Writes, Linked, Definitions
<1>8. Flows(h, X, w, s, r)
  <2>1. Flows(g, X, w, s, r)
    BY DEF Sound
  <2>2. \A c \in DOMAIN g, x \in X, v \in Vals(s) :
          Comes(g, w, s, r, c, x, v) => Comes(h, w, s, r, c, x, v)
    BY <1>1 DEF Comes
  <2> QED
    BY <2>1, <2>2, <1>1 DEF Flows
<1>9. \A v \in Vals(s) : s.vals[v].block \in DOMAIN g
  BY DEF Sound, Typed
<1>10. Operands(h, w, s, r, of)
  <2>1. Operands(g, w, s, r, of)
    BY DEF Sound
  <2> QED
    BY <2>1, <1>1, <1>9 DEF Operands
<1>11. Filled(h, T, s)
  BY <1>1, <1>5, <1>9 DEF Sound, Filled, IsPhiOf
<1>12. PhisDue(h, T, s, of)
  <2>1. \A v \in Vals(s) : s.vals[v].kind = "phi" /\ ~h[s.vals[v].block].sealed /\ v \notin T =>
          /\ s.vals[v].from = <<>>
          /\ \E i \in 1..Len(s.pending[s.vals[v].block]) :
               s.pending[s.vals[v].block][i][2] = v
    BY <1>1, <1>9 DEF Sound, PhisDue
  <2>2. ASSUME NEW c \in DOMAIN h, ~h[c].sealed
        PROVE  /\ \A i \in 1..Len(s.pending[c]) : LET p == s.pending[c][i] IN
                    p[2] \in Vals(s) /\ p[2] \notin T /\ IsPhiOf(s, p[2], c) /\ of[p[2]] = p[1]
               /\ \A i, j \in 1..Len(s.pending[c]) :
                    s.pending[c][i][2] = s.pending[c][j][2] => i = j
    <3>1. c \in DOMAIN g /\ c # b /\ ~g[c].sealed
      BY <2>2, <1>1
    <3>2. /\ \A i \in 1..Len(s.pending[c]) : LET p == s.pending[c][i] IN
               p[2] \in Vals(s) /\ IsPhiOf(s, p[2], c) /\ of[p[2]] = p[1]
          /\ \A i, j \in 1..Len(s.pending[c]) :
               s.pending[c][i][2] = s.pending[c][j][2] => i = j
      BY <3>1 DEF Sound, PhisDue
    <3>3. \A v \in Vals(s) : IsPhiOf(s, v, c) => v \notin T
      BY <3>1, <1>4 DEF IsPhiOf
    <3>4. ASSUME NEW i \in 1..Len(s.pending[c])
          PROVE  LET p == s.pending[c][i] IN
                   p[2] \in Vals(s) /\ p[2] \notin T /\ IsPhiOf(s, p[2], c) /\ of[p[2]] = p[1]
      BY <3>2, <3>3
    <3> QED
      BY <3>2, <3>4
  <2> QED
    BY <2>1, <2>2 DEF PhisDue
<1>13. Removed(h, T, w, s, r, of)
  <2>1. Removed(g, {}, w, s, r, of)
    BY DEF Sound
  <2> QED
    BY <2>1, <1>1, <1>4, <1>9 DEF Removed
<1>14. Sound(h, X, w, T, s, r, of)
  BY <1>6, <1>7, <1>8, <1>10, <1>11, <1>12, <1>13 DEF Sound
<1> QED
  BY <1>2, <1>3, <1>14 DEF T

\* After the first i phis of b have their operands.
UpTo(h, X, w, s, r, of, b, i, e) ==
  \E q, o : /\ r \subseteq q /\ \A u \in Vals(s) : o[u] = of[u]
            /\ Sound(h, X, w, Waiting(s, b, i + 1), e, q, o)
            /\ Later(X, {s.pending[b][j][2] : j \in 1..i}, s, e)

Done(h, X, w, s, r, of, b, i, e) ==
  /\ e \in SSAOf(X)
  /\ ~e.lost => UpTo(h, X, w, s, r, of, b, i, e)
  /\ e.lost => DeadLoop(h)

LEMMA OnePhi ==
  ASSUME NEW g, NEW X, NEW w, NEW s, NEW r, NEW of, Graph(g), Sound(g, X, w, {}, s, r, of),
         NEW b \in DOMAIN g, ~g[b].sealed, NEW h, SealedAt(g, b, h),
         NEW i \in 1..Len(s.pending[b]), NEW e, Done(h, X, w, s, r, of, b, i - 1, e)
  PROVE  Done(h, X, w, s, r, of, b, i, Complete(h, e, b, s.pending[b][i]))
<1> DEFINE p == s.pending[b][i]
           phi == p[2]
           x == p[1]
           N == Len(s.pending[b])
           u == Complete(h, e, b, p)
<1>1. s \in SSAOf(X) /\ b \in DOMAIN h /\ b \in 1..Len(s.pending) /\ Graph(h) /\ h[b].sealed
  BY DEF Sound, Typed, SealedAt, Graph
<1>2. N \in Nat /\ i \in Nat /\ i - 1 \in Nat /\ (i - 1) + 1 = i
  <2>1. s.pending \in Seq(Seq(X \X Nat))
    BY <1>1, SSAFields
  <2>2. s.pending[b] \in Seq(X \X Nat)
    BY <2>1, <1>1
  <2> QED
    BY <2>2
<1>3. /\ phi \in Vals(s) /\ IsPhiOf(s, phi, b) /\ of[phi] = x
      /\ s.vals[phi].from = <<>> /\ s.vals[phi].repl = NoVal
      /\ \A j \in 1..N : s.pending[b][j][2] = phi => j = i
  BY SealSound
<1>4. x \in X
  BY <1>3 DEF Sound, Ghosts
<1>5. \A j \in 1..N : s.pending[b][j][2] \in Vals(s)
  BY SealSound
<1>6. CASE e.lost
  <2>1. u = e
    BY <1>6 DEF Complete
  <2> QED
    BY <2>1, <1>6 DEF Done
<1>7. CASE ~e.lost
  <2> DEFINE T == Waiting(s, b, i)
             E == {s.pending[b][j][2] : j \in 1..(i - 1)}
             F == {s.pending[b][j][2] : j \in 1..i}
  <2>1. e \in SSAOf(X) /\ UpTo(h, X, w, s, r, of, b, i - 1, e)
    BY <1>7 DEF Done
  <2>2. PICK q, o : /\ r \subseteq q /\ \A v \in Vals(s) : o[v] = of[v]
                    /\ Sound(h, X, w, Waiting(s, b, (i - 1) + 1), e, q, o)
                    /\ Later(X, E, s, e)
    BY <2>1 DEF UpTo
  <2>3. Sound(h, X, w, T, e, q, o)
    BY <2>2, <1>2
  <2>4. phi \in T /\ phi \notin E /\ T \subseteq Vals(s) /\ T \ {phi} = Waiting(s, b, i + 1)
    <3>1. i \in i..N /\ \A j \in 1..(i - 1) : j \in 1..N /\ j # i
      BY <1>2
    <3>2. phi \in T /\ phi \notin E
      BY <3>1, <1>3 DEF Waiting
    <3>3. \A j \in i..N : j \in 1..N
      BY <1>2
    <3>4. T \subseteq Vals(s)
      BY <3>3, <1>5 DEF Waiting
    <3>5. \A j \in i..N : j = i \/ j \in (i + 1)..N
      BY <1>2
    <3>6. \A j \in (i + 1)..N : j \in i..N /\ j # i
      BY <1>2
    <3>7. T \ {phi} = Waiting(s, b, i + 1)
      <4>1. T \ {phi} \subseteq Waiting(s, b, i + 1)
        BY <3>5 DEF Waiting
      <4>2. Waiting(s, b, i + 1) \subseteq T \ {phi}
        BY <3>3, <3>6, <1>3 DEF Waiting
      <4> QED
        BY <4>1, <4>2
    <3> QED
      BY <3>2, <3>4, <3>7
  <2>5. F = E \cup {phi}
    <3>1. \A j \in 1..i : j = i \/ j \in 1..(i - 1)
      BY <1>2
    <3>2. i \in 1..i /\ \A j \in 1..(i - 1) : j \in 1..i
      BY <1>2
    <3> QED
      BY <3>1, <3>2
  <2> HIDE DEF T, E, F
  <2>6. /\ T \subseteq Vals(e) /\ phi \in Vals(e) /\ IsPhiOf(e, phi, b) /\ o[phi] = x
        /\ e.vals[phi].from = <<>> /\ e.vals[phi].repl = NoVal
    BY <1>3, <2>2, <2>4 DEF Later, IsPhiOf
  <2>7. VarsOf(e) = X
    <3>1. Len(e.defs) = Len(h)
      BY <2>3 DEF Sound, Typed
    <3> QED
      BY <3>1, <2>1, <1>1, VarsOfSound
  <2> DEFINE d == Search(h, x, X)
             n == MaxCalls(h)
  <2>8. u = AddOperands(h, e, b, phi, d)
    BY <1>7, <2>7 DEF Complete
  <2>9. Answered(h, X, x, n, d)
    BY <1>1, <1>4, SearchAnswered
  <2>10. n \in Nat /\ Room(h, e, x, {}) < n
    BY <1>1, Finite, RoomIs
  <2> HIDE DEF d, n, u, phi, x, p
  <2>11. /\ u \in SSAOf(X)
         /\ ~u.lost => PhiFilled(h, X, w, T, e, q, o, phi, u)
         /\ u.lost /\ Room(h, e, x, {}) < n => DeadLoop(h)
    BY <1>1, <1>4, <2>3, <2>4, <2>6, <2>8, <2>9, <2>10, AddOperandsReplies
  <2>12. CASE u.lost
    BY <2>10, <2>11, <2>12 DEF Done, u, p
  <2>13. CASE ~u.lost
    <3>1. PICK q2, o2 : /\ q \subseteq q2 /\ \A v \in Vals(e) : o2[v] = o[v]
                        /\ Sound(h, X, w, T \ {phi}, u, q2, o2) /\ Later(X, {phi}, e, u)
      BY <2>11, <2>13 DEF PhiFilled
    <3>2. Len(s.vals) \in Nat /\ Len(e.vals) \in Nat /\ Len(u.vals) \in Nat
      BY <1>1, <2>1, <2>11, SSAFields
    <3>3. Later(X, F, s, e) /\ Later(X, F, s, u)
      <4>1. Later(X, F, s, e)
        BY <2>2, <2>5, GrownOnly
      <4>2. phi \in F
        BY <2>5
      <4> QED
        BY <3>1, <3>2, <4>1, <4>2, GrownTrans
    <3>4. r \subseteq q2 /\ \A v \in Vals(s) : o2[v] = of[v]
      BY <2>2, <3>1 DEF Later
    <3>5. UpTo(h, X, w, s, r, of, b, i, u)
      BY <2>4, <3>1, <3>3, <3>4 DEF UpTo, F
    <3> QED
      BY <2>11, <2>13, <3>5 DEF Done, u, p
  <2> QED
    BY <2>12, <2>13
<1> QED
  BY <1>6, <1>7

\* What sealing b returns.
Sealing(h, X, w, s, r, of, e) ==
  /\ e \in SSAOf(X)
  /\ ~e.lost => \E q, o : r \subseteq q /\ Sound(h, X, w, {}, e, q, o)
  /\ e.lost => DeadLoop(h)

LEMMA CompleteSound ==
  ASSUME NEW g, NEW X, NEW w, NEW s, NEW r, NEW of, Graph(g), Sound(g, X, w, {}, s, r, of),
         NEW b \in DOMAIN g, ~g[b].sealed, NEW h, SealedAt(g, b, h)
  PROVE  Sealing(h, X, w, s, r, of, CompletePhis(h, s, b))
<1> DEFINE N == Len(s.pending[b])
<1>1. s \in SSAOf(X) /\ s.lost = FALSE /\ b \in 1..Len(s.pending)
  BY DEF Sound, Typed, Graph
<1>2. N \in Nat
  <2>1. s.pending \in Seq(Seq(X \X Nat))
    BY <1>1, SSAFields
  <2>2. s.pending[b] \in Seq(X \X Nat)
    BY <2>1, <1>1
  <2> QED
    BY <2>2
<1>3. PICK f : /\ f[0] = s
               /\ \A i \in 1..N : f[i] = Complete(h, f[i - 1], b, s.pending[b][i])
               /\ CompletePhis(h, s, b) = f[N]
  BY <1>2, CompletePhisSteps
<1>4. Done(h, X, w, s, r, of, b, 0, f[0])
  <2>1. Len(s.vals) \in Nat
    BY <1>1, SSAFields
  <2>2. Later(X, {s.pending[b][j][2] : j \in 1..0}, s, s)
    BY <2>1 DEF Later
  <2>3. Sound(h, X, w, Waiting(s, b, 0 + 1), s, r, of)
    BY SealSound
  <2>4. UpTo(h, X, w, s, r, of, b, 0, s)
    BY <2>2, <2>3 DEF UpTo
  <2> QED
    BY <1>1, <1>3, <2>4 DEF Done
<1>5. ASSUME NEW i \in 1..N, Done(h, X, w, s, r, of, b, i - 1, f[i - 1])
      PROVE  Done(h, X, w, s, r, of, b, i, f[i])
  BY <1>3, <1>5, OnePhi
<1> HIDE DEF N
<1> DEFINE Bad == {i \in 0..N : ~Done(h, X, w, s, r, of, b, i, f[i])}
<1>6. Bad = {}
  <2>1. SUFFICES ASSUME Bad # {} PROVE FALSE
    OBVIOUS
  <2>2. Bad \subseteq Nat
    BY <1>2
  <2>3. PICK k \in Bad : \A j \in Bad : k <= j
    <3> HIDE DEF Bad
    <3> QED
      BY <2>1, <2>2, LeastOf
  <2>4. k \in 0..N /\ ~Done(h, X, w, s, r, of, b, k, f[k])
    OBVIOUS
  <2>5. k # 0
    BY <2>4, <1>4
  <2>6. k \in 1..N /\ k - 1 \in 0..N /\ ~ (k <= k - 1)
    BY <2>4, <2>5, <1>2
  <2>7. k - 1 \notin Bad
    <3> HIDE DEF Bad
    <3> QED
      BY <2>3, <2>6
  <2>8. Done(h, X, w, s, r, of, b, k - 1, f[k - 1])
    BY <2>6, <2>7
  <2> QED
    BY <2>4, <2>6, <2>8, <1>5
<1>7. Done(h, X, w, s, r, of, b, N, f[N])
  <2>1. N \in 0..N
    BY <1>2
  <2> QED
    BY <2>1, <1>6
<1>8. Waiting(s, b, N + 1) = {}
  <2>1. (N + 1)..N = {}
    BY <1>2
  <2> QED
    BY <2>1 DEF Waiting, N
<1> QED
  BY <1>3, <1>7, <1>8 DEF Done, UpTo, Sealing

\* Blocks that are not sealed may get predecessors.
LEMMA EdgesSound ==
  ASSUME NEW g, NEW X, NEW w, NEW s, NEW r, NEW of, Graph(g), Sound(g, X, w, {}, s, r, of),
         NEW h, Graph(h), Len(h) = Len(g),
         \A c \in DOMAIN g : /\ h[c].sealed = g[c].sealed
                             /\ g[c].sealed => h[c].preds = g[c].preds
                             /\ Preds(g, c) \subseteq Preds(h, c)
  PROVE  Sound(h, X, w, {}, s, r, of)
<1>1. DOMAIN h = DOMAIN g
  BY DEF Graph
<1>2. \A c \in DOMAIN g : g[c].sealed => h[c].preds = g[c].preds /\ Preds(h, c) = Preds(g, c)
  BY DEF Preds
<1>3. \A v \in Vals(s) : s.vals[v].block \in DOMAIN g
  BY DEF Sound, Typed
<1>4. Typed(h, X, s) /\ Ghosts(h, X, w, s, r, of)
  BY <1>1 DEF Sound, Typed, Ghosts
<1>5. Writes(h, X, w, s, of) /\ Linked(h, X, s, r) /\ Definitions(h, X, w, s, r)
  BY <1>1 DEF Sound, Writes, Linked, Definitions
<1>6. Flows(h, X, w, s, r)
  <2>1. Flows(g, X, w, s, r)
    BY DEF Sound
  <2>2. \A c \in DOMAIN g, x \in X, v \in Vals(s) :
          Comes(g, w, s, r, c, x, v) => Comes(h, w, s, r, c, x, v)
    BY <1>1, <1>2 DEF Comes
  <2> QED
    BY <2>1, <2>2, <1>1 DEF Flows
<1>7. Operands(h, w, s, r, of)
  <2>1. Operands(g, w, s, r, of)
    BY DEF Sound
  <2>2. ASSUME NEW v \in Vals(s), s.vals[v].kind = "phi"
        PROVE  /\ Len(s.vals[v].ops) = Len(s.vals[v].from)
               /\ \A i \in 1..Len(s.vals[v].from) :
                    /\ s.vals[v].from[i] \in Preds(h, s.vals[v].block)
                    /\ s.vals[v].ops[i] \in Vals(s)
                    /\ AtEndOf(w, r, s.vals[v].from[i], of[v], s.vals[v].ops[i])
    BY <2>1, <2>2, <1>3 DEF Operands
  <2> QED
    BY <2>2 DEF Operands
<1>8. Filled(h, {}, s) /\ PhisDue(h, {}, s, of)
  <2>1. Filled(g, {}, s) /\ PhisDue(g, {}, s, of)
    BY DEF Sound
  <2>2. Filled(h, {}, s)
    BY <2>1, <1>2, <1>3 DEF Filled
  <2>3. PhisDue(h, {}, s, of)
    BY <2>1, <1>1, <1>3 DEF PhisDue
  <2> QED
    BY <2>2, <2>3
<1>9. Removed(h, {}, w, s, r, of)
  <2>1. Removed(g, {}, w, s, r, of)
    BY DEF Sound
  <2> QED
    BY <2>1, <1>2, <1>3 DEF Removed
<1> QED
  BY <1>4, <1>5, <1>6, <1>7, <1>8, <1>9 DEF Sound

DefsAdded(X, s, n, e) ==
  /\ e \in SSAOf(X) /\ e.vals = s.vals /\ e.lost = s.lost
  /\ Len(e.defs) = Len(s.defs) + n /\ Len(e.pending) = Len(s.pending) + n
  /\ \A c \in 1..Len(s.defs) : e.defs[c] = s.defs[c]
  /\ \A c \in 1..Len(s.pending) : e.pending[c] = s.pending[c]
  /\ \A c \in 1..(Len(s.defs) + n) : c \notin 1..Len(s.defs) => e.defs[c] = [x \in X |-> NoVal]
  /\ \A c \in 1..(Len(s.pending) + n) : c \notin 1..Len(s.pending) => e.pending[c] = <<>>

LEMMA Joined ==
  ASSUME NEW S, NEW d \in Seq(S), NEW n \in Nat, NEW v \in S
  PROVE  LET e == d \o [i \in 1..n |-> v]
         IN  /\ e \in Seq(S) /\ Len(e) = Len(d) + n /\ \A c \in 1..Len(d) : e[c] = d[c]
             /\ \A c \in 1..(Len(d) + n) : c \notin 1..Len(d) => e[c] = v
<1> DEFINE f == [i \in 1..n |-> v]
           e == d \o f
<1>1. f \in Seq(S) /\ Len(f) = n /\ \A i \in 1..n : f[i] = v
  OBVIOUS
<1> HIDE DEF f
<1>2. e \in Seq(S) /\ Len(e) = Len(d) + n /\ \A c \in 1..Len(d) : e[c] = d[c]
  BY <1>1
<1>3. ASSUME NEW c \in 1..(Len(d) + n), c \notin 1..Len(d) PROVE e[c] = v
  <2>1. c - Len(d) \in 1..n /\ e[c] = f[c - Len(d)]
    BY <1>1, <1>3
  <2> QED
    BY <2>1, <1>1
<1> QED
  BY <1>2, <1>3 DEF f

LEMMA WithDefsFields ==
  ASSUME NEW X, NEW s \in SSAOf(X), NEW n \in Nat
  PROVE  DefsAdded(X, s, n, WithDefs(s, X, n))
<1> DEFINE none == [x \in X |-> NoVal]
           D == s.defs \o [i \in 1..n |-> none]
           P == s.pending \o [i \in 1..n |-> <<>>]
           e == WithDefs(s, X, n)
<1>1. s.defs \in Seq([X -> Nat]) /\ s.pending \in Seq(Seq(X \X Nat))
  BY SSAFields
<1>2. none \in [X -> Nat] /\ <<>> \in Seq(X \X Nat)
  BY DEF NoVal
<1> HIDE DEF none
<1>3. /\ D \in Seq([X -> Nat]) /\ Len(D) = Len(s.defs) + n
      /\ \A c \in 1..Len(s.defs) : D[c] = s.defs[c]
      /\ \A c \in 1..(Len(s.defs) + n) : c \notin 1..Len(s.defs) => D[c] = none
  BY <1>1, <1>2, Joined
<1>4. /\ P \in Seq(Seq(X \X Nat)) /\ Len(P) = Len(s.pending) + n
      /\ \A c \in 1..Len(s.pending) : P[c] = s.pending[c]
      /\ \A c \in 1..(Len(s.pending) + n) : c \notin 1..Len(s.pending) => P[c] = <<>>
  BY <1>1, <1>2, Joined
<1>5. e = [s EXCEPT !.defs = D, !.pending = P]
  BY DEF WithDefs, none
<1> HIDE DEF D, P
<1>6. e \in SSAOf(X) /\ e.defs = D /\ e.pending = P /\ e.vals = s.vals /\ e.lost = s.lost
  BY <1>3, <1>4, <1>5 DEF SSAOf
<1> HIDE DEF e
<1> QED
  BY <1>3, <1>4, <1>6 DEF DefsAdded, none, e

\* h is g with blocks added that nothing branches to yet.
BlocksAdded(g, n, h) ==
  /\ Graph(h) /\ Len(h) = Len(g) + n
  /\ \A c \in DOMAIN g : h[c].preds = g[c].preds /\ h[c].sealed = g[c].sealed
  /\ \A c \in DOMAIN h : c \notin DOMAIN g => h[c].preds = <<>> /\ ~h[c].sealed

MoreWrites(X, w, h) == [b \in DOMAIN h |-> IF b \in DOMAIN w THEN w[b] ELSE [x \in X |-> NoVal]]

LEMMA BlocksSound ==
  ASSUME NEW g, NEW X, NEW w, NEW s, NEW r, NEW of, Graph(g), Sound(g, X, w, {}, s, r, of),
         NEW n \in Nat, NEW h, BlocksAdded(g, n, h)
  PROVE  Sound(h, X, MoreWrites(X, w, h), {}, WithDefs(s, X, n), r, of)
<1> DEFINE e == WithDefs(s, X, n)
           z == MoreWrites(X, w, h)
<1>1. /\ s \in SSAOf(X) /\ s.lost = FALSE /\ Len(s.defs) = Len(g) /\ Len(s.pending) = Len(g)
      /\ Len(g) \in Nat
  BY DEF Sound, Typed, Graph
<1>2. DefsAdded(X, s, n, e)
  BY <1>1, WithDefsFields
<1>3. /\ DOMAIN g = 1..Len(g) /\ DOMAIN h = 1..(Len(g) + n) /\ DOMAIN g \subseteq DOMAIN h
      /\ \A c \in DOMAIN g : /\ h[c].preds = g[c].preds /\ h[c].sealed = g[c].sealed
                             /\ Preds(h, c) = Preds(g, c)
      /\ \A c \in DOMAIN h : c \notin DOMAIN g => h[c].preds = <<>> /\ ~h[c].sealed
  <2>1. DOMAIN g = 1..Len(g) /\ DOMAIN h = 1..Len(h) /\ Len(h) = Len(g) + n
    BY DEF Graph, BlocksAdded
  <2> QED
    BY <2>1, <1>1 DEF BlocksAdded, Preds
<1>4. w \in [DOMAIN g -> [X -> Nat]]
  BY DEF Sound, Ghosts
<1>5. /\ z \in [DOMAIN h -> [X -> Nat]] /\ \A b \in DOMAIN g : z[b] = w[b]
      /\ \A b \in DOMAIN h : b \notin DOMAIN g => \A x \in X : z[b][x] = NoVal
  BY <1>3, <1>4 DEF MoreWrites, NoVal
<1> HIDE DEF e, z
<1>6. /\ e \in SSAOf(X) /\ e.vals = s.vals /\ e.lost = s.lost /\ Vals(e) = Vals(s)
      /\ Len(e.defs) = Len(h) /\ Len(e.pending) = Len(h)
      /\ \A c \in DOMAIN g : e.defs[c] = s.defs[c] /\ e.pending[c] = s.pending[c]
      /\ \A c \in DOMAIN h : c \notin DOMAIN g =>
           e.pending[c] = <<>> /\ \A x \in X : e.defs[c][x] = NoVal
  <2>1. /\ e \in SSAOf(X) /\ e.vals = s.vals /\ e.lost = s.lost /\ Vals(e) = Vals(s)
        /\ Len(e.defs) = Len(h) /\ Len(e.pending) = Len(h)
    BY <1>1, <1>2 DEF DefsAdded, Vals, BlocksAdded
  <2>2. \A c \in DOMAIN g : e.defs[c] = s.defs[c] /\ e.pending[c] = s.pending[c]
    BY <1>1, <1>2, <1>3 DEF DefsAdded
  <2>3. \A c \in DOMAIN h : c \notin DOMAIN g =>
          e.pending[c] = <<>> /\ e.defs[c] = [x \in X |-> NoVal]
    BY <1>1, <1>2, <1>3 DEF DefsAdded
  <2> QED
    BY <2>1, <2>2, <2>3
<1>7. \A c \in DOMAIN g, x \in X, v \in Vals(s) : AtEndOf(z, r, c, x, v) <=> AtEndOf(w, r, c, x, v)
  BY <1>5 DEF AtEndOf
<1>8. /\ \A v \in Vals(s) : s.vals[v].block \in DOMAIN g /\ of[v] \in X
      /\ \A c \in DOMAIN g : Preds(g, c) \subseteq DOMAIN g
      /\ \A b, x, v : <<b, x, v>> \in r => b \in DOMAIN g
  <2>1. \A c \in DOMAIN g : Preds(g, c) \subseteq DOMAIN g
    BY PredsOf
  <2>2. r \subseteq (DOMAIN g) \X X \X Vals(s)
    BY DEF Sound, Ghosts
  <2> QED
    BY <2>1, <2>2 DEF Sound, Typed, Ghosts
<1>9. Typed(h, X, e)
  BY <1>1, <1>3, <1>6, <1>8 DEF Typed
<1>10. Ghosts(h, X, z, e, r, of)
  <2>1. r \subseteq (DOMAIN h) \X X \X Vals(e)
    BY <1>3, <1>6 DEF Sound, Ghosts
  <2>2. \A b \in DOMAIN h, x \in X, v \in Vals(e) : <<b, x, v>> \in r => of[v] = x
    BY <1>6, <1>8 DEF Sound, Ghosts
  <2> QED
    BY <2>1, <2>2, <1>5, <1>6 DEF Sound, Ghosts
<1>11. Writes(h, X, z, e, of)
  <2>1. Writes(g, X, w, s, of)
    BY DEF Sound
  <2> QED
    BY <2>1, <1>3, <1>5, <1>6 DEF Writes
<1>12. Flows(h, X, z, e, r)
  <2>1. ASSUME NEW b \in DOMAIN h, NEW x \in X, NEW v \in Vals(e), <<b, x, v>> \in r
        PROVE  Comes(h, z, e, r, b, x, v)
    <3>1. b \in DOMAIN g /\ v \in Vals(s)
      BY <2>1, <1>6, <1>8
    <3>2. Comes(g, w, s, r, b, x, v)
      BY <2>1, <3>1 DEF Sound, Flows
    <3>3. CASE IsPhiOf(s, v, b)
      BY <3>3, <1>6 DEF Comes, IsPhiOf
    <3>4. CASE ~IsPhiOf(s, v, b)
      <4>1. /\ g[b].sealed /\ g[b].preds = <<>> => s.vals[v].kind = "zero"
            /\ \A p \in Preds(g, b) : AtEndOf(w, r, p, x, v)
        BY <3>2, <3>4 DEF Comes
      <4>2. g[b].sealed
        BY <3>2, <3>4 DEF Comes
      <4>3. \A p \in Preds(h, b) : AtEndOf(z, r, p, x, v)
        BY <3>1, <3>2, <3>4, <1>3, <1>7, <1>8 DEF Comes
      <4>4. g[b].preds = <<>> => s.vals[v].kind = "zero"
        BY <3>2, <3>4 DEF Comes
      <4> QED
        BY <4>2, <4>3, <4>4, <3>1, <1>3, <1>6 DEF Comes
    <3> QED
      BY <3>3, <3>4
  <2> QED
    BY <2>1 DEF Flows
<1>13. Linked(h, X, e, r)
  BY <1>3, <1>6, <1>8 DEF Sound, Linked
<1>14. Operands(h, z, e, r, of)
  <2>1. ASSUME NEW v \in Vals(s), s.vals[v].kind = "phi"
        PROVE  /\ Len(s.vals[v].ops) = Len(s.vals[v].from)
               /\ \A i \in 1..Len(s.vals[v].from) :
                    /\ s.vals[v].from[i] \in Preds(h, s.vals[v].block)
                    /\ s.vals[v].ops[i] \in Vals(s)
                    /\ AtEndOf(z, r, s.vals[v].from[i], of[v], s.vals[v].ops[i])
    <3>1. /\ Len(s.vals[v].ops) = Len(s.vals[v].from)
          /\ \A i \in 1..Len(s.vals[v].from) :
               /\ s.vals[v].from[i] \in Preds(g, s.vals[v].block)
               /\ s.vals[v].ops[i] \in Vals(s)
               /\ AtEndOf(w, r, s.vals[v].from[i], of[v], s.vals[v].ops[i])
      BY <2>1 DEF Sound, Operands
    <3>2. s.vals[v].block \in DOMAIN g /\ of[v] \in X
      BY <1>8
    <3> QED
      BY <3>1, <3>2, <1>3, <1>7, <1>8
  <2> QED
    BY <2>1, <1>6 DEF Operands
<1>15. Filled(h, {}, e)
  BY <1>3, <1>6, <1>8 DEF Sound, Filled
<1>16. PhisDue(h, {}, e, of)
  <2>1. PhisDue(g, {}, s, of)
    BY DEF Sound
  <2>2. ASSUME NEW v \in Vals(e), e.vals[v].kind = "phi", ~h[e.vals[v].block].sealed
        PROVE  /\ e.vals[v].from = <<>>
               /\ \E i \in 1..Len(e.pending[e.vals[v].block]) :
                    e.pending[e.vals[v].block][i][2] = v
    <3>1. v \in Vals(s) /\ s.vals[v] = e.vals[v] /\ s.vals[v].block \in DOMAIN g
      BY <1>6, <1>8
    <3>2. ~g[s.vals[v].block].sealed
      BY <2>2, <3>1, <1>3
    <3>3. /\ s.vals[v].from = <<>>
          /\ \E i \in 1..Len(s.pending[s.vals[v].block]) :
               s.pending[s.vals[v].block][i][2] = v
      BY <2>1, <2>2, <3>1, <3>2 DEF PhisDue
    <3> QED
      BY <3>1, <3>3, <1>6
  <2>3. ASSUME NEW c \in DOMAIN h, ~h[c].sealed
        PROVE  /\ \A i \in 1..Len(e.pending[c]) : LET p == e.pending[c][i] IN
                    p[2] \in Vals(e) /\ p[2] \notin {} /\ IsPhiOf(e, p[2], c) /\ of[p[2]] = p[1]
               /\ \A i, j \in 1..Len(e.pending[c]) :
                    e.pending[c][i][2] = e.pending[c][j][2] => i = j
    <3>1. CASE c \in DOMAIN g
      <4>1. ~g[c].sealed /\ e.pending[c] = s.pending[c]
        BY <3>1, <2>3, <1>3, <1>6
      <4>2. /\ \A i \in 1..Len(s.pending[c]) : LET p == s.pending[c][i] IN
                 p[2] \in Vals(s) /\ IsPhiOf(s, p[2], c) /\ of[p[2]] = p[1]
            /\ \A i, j \in 1..Len(s.pending[c]) :
                 s.pending[c][i][2] = s.pending[c][j][2] => i = j
        BY <2>1, <3>1, <4>1 DEF PhisDue
      <4>3. \A v \in Vals(s) : IsPhiOf(s, v, c) => IsPhiOf(e, v, c)
        BY <1>6 DEF IsPhiOf
      <4> QED
        BY <4>1, <4>2, <4>3, <1>6
    <3>2. CASE c \notin DOMAIN g
      <4>1. 1..Len(e.pending[c]) = {}
        BY <3>2, <1>6
      <4> QED
        BY <4>1
    <3> QED
      BY <3>1, <3>2
  <2> QED
    BY <2>2, <2>3 DEF PhisDue
<1>17. Removed(h, {}, z, e, r, of)
  <2>1. ASSUME NEW v \in Vals(s), s.vals[v].repl # NoVal
        PROVE  /\ s.vals[v].kind = "phi" /\ s.vals[v].repl \in Vals(s)
               /\ h[s.vals[v].block].sealed /\ h[s.vals[v].block].preds # <<>>
               /\ \A p \in Preds(h, s.vals[v].block) : AtEndOf(z, r, p, of[v], s.vals[v].repl)
    <3>1. /\ s.vals[v].kind = "phi" /\ s.vals[v].repl \in Vals(s)
          /\ g[s.vals[v].block].sealed /\ g[s.vals[v].block].preds # <<>>
          /\ \A p \in Preds(g, s.vals[v].block) : AtEndOf(w, r, p, of[v], s.vals[v].repl)
      BY <2>1 DEF Sound, Removed
    <3>2. s.vals[v].block \in DOMAIN g /\ of[v] \in X
      BY <1>8
    <3> QED
      BY <3>1, <3>2, <1>3, <1>7, <1>8
  <2>2. ASSUME NEW v \in Vals(e), e.vals[v].repl # NoVal
        PROVE  v \in Vals(s) /\ e.vals[v] = s.vals[v] /\ Vals(e) = Vals(s)
    BY <1>6
  <2>3. ASSUME NEW v \in Vals(e), e.vals[v].repl # NoVal
        PROVE  /\ e.vals[v].kind = "phi" /\ v \notin {} /\ e.vals[v].repl \in Vals(e)
               /\ h[e.vals[v].block].sealed /\ h[e.vals[v].block].preds # <<>>
               /\ \A p \in Preds(h, e.vals[v].block) : AtEndOf(z, r, p, of[v], e.vals[v].repl)
    <3>1. v \in Vals(s) /\ s.vals[v].repl # NoVal /\ e.vals[v] = s.vals[v] /\ Vals(e) = Vals(s)
      BY <2>2, <2>3
    <3> QED
      BY <3>1, <2>1
  <2> QED
    BY <2>3 DEF Removed
<1>18. Definitions(h, X, z, e, r)
  <2>1. Definitions(g, X, w, s, r)
    BY DEF Sound
  <2> QED
    BY <2>1, <1>6, <1>7 DEF Definitions
<1>19. Sound(h, X, z, {}, e, r, of)
  BY <1>9, <1>10, <1>11, <1>12, <1>13, <1>14, <1>15, <1>16, <1>17, <1>18 DEF Sound
<1> QED
  BY <1>19 DEF e, z

\* A write in a block that precedes no sealed one.
WrittenAt(w, b, x, n) == [w EXCEPT ![b][x] = n]

LEMMA WriteSound ==
  ASSUME NEW g, NEW X, NEW w, NEW s, NEW r, NEW of, Graph(g), Sound(g, X, w, {}, s, r, of),
         NEW b \in DOMAIN g, NEW x \in X, \A c \in DOMAIN g : b \in Preds(g, c) => ~g[c].sealed
  PROVE  LET n == Len(s.vals) + 1
         IN  Sound(g, X, WrittenAt(w, b, x, n), {}, WriteVar(Emit(s, b, "def"), b, x, n), r,
                   [of EXCEPT ![n] = x])
<1> DEFINE n == Len(s.vals) + 1
           e == Emit(s, b, "def")
           o == [of EXCEPT ![n] = x]
           z == WrittenAt(w, b, x, n)
           u == WriteVar(e, b, x, n)
<1>1. s \in SSAOf(X) /\ b \in Nat
  BY DEF Sound, Typed, Graph
<1>2. Emitted(X, s, b, "def", e)
  BY <1>1, EmitFields
<1>3. /\ e.defs = s.defs /\ n \in Nat /\ Len(e.vals) = n /\ Vals(e) = Vals(s) \cup {n}
      /\ n \notin Vals(s) /\ n \in Vals(e) /\ \A v \in Vals(s) : e.vals[v] = s.vals[v]
      /\ e.vals[n].kind = "def" /\ e \in SSAOf(X)
  <2> HIDE DEF e
  <2> QED
    BY <1>2 DEF Emitted
<1>4. Sound(g, X, w, {}, e, r, o)
  BY EmitSound
<1>5. o[n] = x
  <2>1. DOMAIN of = Nat /\ of = [k \in Nat |-> of[k]]
    BY DEF Sound, Ghosts
  <2> HIDE DEF n
  <2> QED
    BY <2>1, <1>3
<1> HIDE DEF n, e, o
<1>6. w \in [DOMAIN g -> [X -> Nat]]
  BY DEF Sound, Ghosts
<1>7. /\ z \in [DOMAIN g -> [X -> Nat]] /\ z[b][x] = n /\ n # NoVal
      /\ \A c \in DOMAIN g, y \in X : ~(c = b /\ y = x) => z[c][y] = w[c][y]
  BY <1>3, <1>6 DEF WrittenAt, NoVal, Vals
<1> HIDE DEF z
<1>8. b \in 1..Len(e.defs) /\ DOMAIN g = 1..Len(e.defs) /\ Len(e.defs) = Len(g)
  BY <1>4 DEF Sound, Typed, Graph
<1>9. /\ u \in SSAOf(X) /\ u.vals = e.vals /\ u.pending = e.pending /\ u.lost = e.lost
      /\ Len(u.defs) = Len(e.defs) /\ u.defs[b][x] = n
      /\ \A c \in 1..Len(e.defs), y \in X :
           ~(c = b /\ y = x) => u.defs[c][y] = e.defs[c][y]
  BY <1>3, <1>8, WriteVarFields
<1> HIDE DEF u
<1>10. Vals(u) = Vals(e)
  BY <1>9 DEF Vals
<1>11. \A c \in DOMAIN g : \A p \in Preds(g, c) : p \in DOMAIN g /\ (g[c].sealed => p # b)
  BY PredsOf
<1>12. \A c \in DOMAIN g : g[c].sealed =>
         \A p \in Preds(g, c), y \in X, v \in Vals(e) :
           AtEndOf(z, r, p, y, v) <=> AtEndOf(w, r, p, y, v)
  BY <1>7, <1>11 DEF AtEndOf
<1>13. \A v \in Vals(e) : e.vals[v].block \in DOMAIN g /\ o[v] \in X
  BY <1>4 DEF Sound, Typed, Ghosts
<1>14. Typed(g, X, u) /\ Ghosts(g, X, z, u, r, o)
  <2>1. Typed(g, X, u)
    BY <1>4, <1>9, <1>10 DEF Sound, Typed
  <2>2. Ghosts(g, X, z, u, r, o)
    BY <1>4, <1>7, <1>10 DEF Sound, Ghosts
  <2> QED
    BY <2>1, <2>2
<1>15. Writes(g, X, z, u, o)
  <2>1. ASSUME NEW c \in DOMAIN g, NEW y \in X, z[c][y] # NoVal
        PROVE  /\ z[c][y] \in Vals(u) /\ u.vals[z[c][y]].kind = "def" /\ o[z[c][y]] = y
               /\ u.defs[c][y] # NoVal
    <3>1. CASE c = b /\ y = x
      BY <3>1, <1>3, <1>5, <1>7, <1>9, <1>10
    <3>2. CASE ~(c = b /\ y = x)
      <4>1. z[c][y] = w[c][y] /\ u.defs[c][y] = e.defs[c][y]
        BY <3>2, <1>7, <1>8, <1>9
      <4> QED
        BY <4>1, <2>1, <1>4, <1>9, <1>10 DEF Sound, Writes
    <3> QED
      BY <3>1, <3>2
  <2> QED
    BY <2>1 DEF Writes
<1>16. Flows(g, X, z, u, r)
  <2>1. ASSUME NEW c \in DOMAIN g, NEW y \in X, NEW v \in Vals(e), <<c, y, v>> \in r
        PROVE  Comes(g, z, u, r, c, y, v)
    <3>1. Comes(g, w, e, r, c, y, v)
      BY <2>1, <1>4 DEF Sound, Flows
    <3> QED
      BY <3>1, <1>9, <1>12 DEF Comes, IsPhiOf
  <2> QED
    BY <2>1, <1>10 DEF Flows
<1>17. Linked(g, X, u, r) /\ Filled(g, {}, u)
  BY <1>4, <1>9, <1>10 DEF Sound, Linked, Filled
<1>18. Operands(g, z, u, r, o)
  <2>1. ASSUME NEW v \in Vals(e), e.vals[v].kind = "phi"
        PROVE  /\ Len(e.vals[v].ops) = Len(e.vals[v].from)
               /\ \A i \in 1..Len(e.vals[v].from) :
                    /\ e.vals[v].from[i] \in Preds(g, e.vals[v].block)
                    /\ e.vals[v].ops[i] \in Vals(e)
                    /\ AtEndOf(z, r, e.vals[v].from[i], o[v], e.vals[v].ops[i])
    <3>1. /\ Len(e.vals[v].ops) = Len(e.vals[v].from)
          /\ \A i \in 1..Len(e.vals[v].from) :
               /\ e.vals[v].from[i] \in Preds(g, e.vals[v].block)
               /\ e.vals[v].ops[i] \in Vals(e)
               /\ AtEndOf(w, r, e.vals[v].from[i], o[v], e.vals[v].ops[i])
      BY <2>1, <1>4 DEF Sound, Operands
    <3>2. CASE g[e.vals[v].block].sealed
      BY <3>1, <3>2, <1>12, <1>13
    <3>3. CASE ~g[e.vals[v].block].sealed
      <4>1. e.vals[v].from = <<>>
        BY <2>1, <3>3, <1>4 DEF Sound, PhisDue
      <4>2. 1..Len(e.vals[v].from) = {}
        BY <4>1
      <4> QED
        BY <3>1, <4>2
    <3> QED
      BY <3>2, <3>3
  <2> QED
    BY <2>1, <1>9, <1>10 DEF Operands
<1>19. PhisDue(g, {}, u, o)
  <2>1. PhisDue(g, {}, e, o)
    BY <1>4 DEF Sound
  <2>2. \A v, c : IsPhiOf(u, v, c) <=> IsPhiOf(e, v, c)
    BY <1>9 DEF IsPhiOf
  <2> QED
    BY <2>1, <2>2, <1>9, <1>10 DEF PhisDue
<1>20. Removed(g, {}, z, u, r, o)
  <2>1. ASSUME NEW v \in Vals(e), e.vals[v].repl # NoVal
        PROVE  /\ e.vals[v].kind = "phi" /\ e.vals[v].repl \in Vals(e)
               /\ g[e.vals[v].block].sealed /\ g[e.vals[v].block].preds # <<>>
               /\ \A p \in Preds(g, e.vals[v].block) : AtEndOf(z, r, p, o[v], e.vals[v].repl)
    <3>1. /\ e.vals[v].kind = "phi" /\ e.vals[v].repl \in Vals(e)
          /\ g[e.vals[v].block].sealed /\ g[e.vals[v].block].preds # <<>>
          /\ \A p \in Preds(g, e.vals[v].block) : AtEndOf(w, r, p, o[v], e.vals[v].repl)
      BY <2>1, <1>4 DEF Sound, Removed
    <3> QED
      BY <3>1, <1>12, <1>13
  <2>2. ASSUME NEW v \in Vals(u), u.vals[v].repl # NoVal
        PROVE  /\ u.vals[v].kind = "phi" /\ v \notin {} /\ u.vals[v].repl \in Vals(u)
               /\ g[u.vals[v].block].sealed /\ g[u.vals[v].block].preds # <<>>
               /\ \A p \in Preds(g, u.vals[v].block) : AtEndOf(z, r, p, o[v], u.vals[v].repl)
    <3>1. v \in Vals(e) /\ u.vals = e.vals /\ Vals(u) = Vals(e)
      BY <2>2, <1>9, <1>10
    <3> QED
      BY <2>1, <2>2, <3>1
  <2> QED
    BY <2>2 DEF Removed
<1>21. Definitions(g, X, z, u, r)
  <2>1. ASSUME NEW c \in DOMAIN g, NEW y \in X, u.defs[c][y] # NoVal
        PROVE  u.defs[c][y] \in Vals(u) /\ AtEndOf(z, r, c, y, u.defs[c][y])
    <3>1. CASE c = b /\ y = x
      BY <3>1, <1>3, <1>7, <1>9, <1>10 DEF AtEndOf
    <3>2. CASE ~(c = b /\ y = x)
      <4>1. z[c][y] = w[c][y] /\ u.defs[c][y] = e.defs[c][y]
        BY <3>2, <1>7, <1>8, <1>9
      <4>2. e.defs[c][y] \in Vals(e) /\ AtEndOf(w, r, c, y, e.defs[c][y])
        BY <4>1, <2>1, <1>4 DEF Sound, Definitions
      <4> QED
        BY <4>1, <4>2, <1>10 DEF AtEndOf
    <3> QED
      BY <3>1, <3>2
  <2> QED
    BY <2>1 DEF Definitions
<1>22. Sound(g, X, z, {}, u, r, o)
  BY <1>14, <1>15, <1>16, <1>17, <1>18, <1>19, <1>20, <1>21 DEF Sound
<1> QED
  BY <1>22 DEF u, z, o, e, n

-----------------------------------------------------------------------------
(* Where a search may go.  R says for each variable in which blocks.        *)

\* Links, operands, definitions and phis that wait are values.
Tidy(g, X, s) ==
  /\ s \in SSAOf(X) /\ s.lost = FALSE /\ Len(s.defs) = Len(g) /\ Len(s.pending) = Len(g)
  /\ \A v \in Vals(s) : /\ s.vals[v].repl # NoVal => s.vals[v].repl \in Vals(s)
                        /\ \A i \in 1..Len(s.vals[v].ops) : s.vals[v].ops[i] \in Vals(s)
  /\ \A b \in DOMAIN g, x \in X : s.defs[b][x] # NoVal => s.defs[b][x] \in Vals(s)
  /\ \A b \in DOMAIN g : \A i \in 1..Len(s.pending[b]) : s.pending[b][i][2] \in Vals(s)

\* The only ways out of a region lead to blocks that define the variable.
Fenced(g, X, R, s) ==
  \A x \in X, b \in DOMAIN g : b \in R[x] =>
    b # 1 /\ \A p \in Preds(g, b) : p \in R[x] \/ s.defs[p][x] # NoVal

\* Searches have kept to the regions, and those to come will.
Confined(g, X, R, s) ==
  /\ Fenced(g, X, R, s)
  /\ \A v \in Vals(s) : s.vals[v].kind = "zero" => s.vals[v].block # 1
  /\ \A b \in DOMAIN g : \A i \in 1..Len(s.pending[b]) : b \in R[s.pending[b][i][1]]

Nice(g, X, R, s) == Tidy(g, X, s) /\ Confined(g, X, R, s)

\* No value and no definition goes away.
Onward(X, s, e) ==
  /\ Vals(s) \subseteq Vals(e) /\ Len(s.defs) = Len(e.defs)
  /\ \A b \in 1..Len(s.defs), x \in X : s.defs[b][x] # NoVal => e.defs[b][x] # NoVal

LEMMA OnwardTrans ==
  ASSUME NEW X, NEW s, NEW e, NEW u, Onward(X, s, e), Onward(X, e, u)
  PROVE  Onward(X, s, u)
  BY DEF Onward

LEMMA FencedOn ==
  ASSUME NEW g, Graph(g), NEW X, NEW R, NEW s, Fenced(g, X, R, s), Len(s.defs) = Len(g),
         NEW e, \A b \in 1..Len(s.defs), x \in X : s.defs[b][x] # NoVal => e.defs[b][x] # NoVal
  PROVE  Fenced(g, X, R, e)
<1> SUFFICES ASSUME NEW x \in X, NEW b \in DOMAIN g, b \in R[x]
             PROVE  b # 1 /\ \A p \in Preds(g, b) : p \in R[x] \/ e.defs[p][x] # NoVal
  BY DEF Fenced
<1>1. Preds(g, b) \subseteq 1..Len(s.defs)
  BY PredsOf DEF Graph
<1> QED
  BY <1>1 DEF Fenced

LEMMA EmitNice ==
  ASSUME NEW g, Graph(g), NEW X, NEW R, NEW s, Nice(g, X, R, s), NEW b \in DOMAIN g,
         NEW kind \in {"def", "zero", "phi"}, kind = "zero" => b # 1
  PROVE  /\ Nice(g, X, R, Emit(s, b, kind)) /\ Onward(X, s, Emit(s, b, kind))
         /\ Len(s.vals) + 1 \in Vals(Emit(s, b, kind)) /\ Emit(s, b, kind).defs = s.defs
<1> DEFINE n == Len(s.vals) + 1
           e == Emit(s, b, kind)
<1>1. s \in SSAOf(X) /\ b \in Nat
  BY DEF Nice, Tidy, Graph
<1>2. Emitted(X, s, b, kind, e)
  BY <1>1, EmitFields
<1> HIDE DEF e
<1>3. /\ e \in SSAOf(X) /\ e.defs = s.defs /\ e.pending = s.pending /\ e.lost = s.lost
      /\ Vals(e) = Vals(s) \cup {n} /\ \A v \in Vals(s) : e.vals[v] = s.vals[v]
      /\ e.vals[n].kind = kind /\ e.vals[n].block = b /\ e.vals[n].ops = <<>>
      /\ e.vals[n].repl = NoVal
  BY <1>2 DEF Emitted
<1> HIDE DEF n
<1>4. 1..Len(<<>>) = {}
  OBVIOUS
<1>5. Tidy(g, X, e)
  BY <1>3, <1>4 DEF Nice, Tidy
<1>6. Fenced(g, X, R, e)
  BY <1>3 DEF Nice, Confined, Fenced
<1>7. Confined(g, X, R, e)
  BY <1>3, <1>6 DEF Nice, Confined
<1>8. Onward(X, s, e)
  BY <1>3 DEF Onward
<1> QED
  BY <1>3, <1>5, <1>7, <1>8 DEF Nice, n, e

LEMMA WriteNice ==
  ASSUME NEW g, Graph(g), NEW X, NEW R, NEW s, Nice(g, X, R, s), NEW b \in DOMAIN g,
         NEW x \in X, NEW v \in Vals(s)
  PROVE  /\ Nice(g, X, R, WriteVar(s, b, x, v)) /\ Onward(X, s, WriteVar(s, b, x, v))
         /\ Vals(WriteVar(s, b, x, v)) = Vals(s) /\ WriteVar(s, b, x, v).defs[b][x] # NoVal
<1> DEFINE e == WriteVar(s, b, x, v)
<1>1. s \in SSAOf(X) /\ b \in 1..Len(s.defs) /\ v \in Nat /\ v # NoVal /\ DOMAIN g = 1..Len(s.defs)
  BY DEF Nice, Tidy, Graph, Vals, NoVal
<1>2. /\ e \in SSAOf(X) /\ e.vals = s.vals /\ e.pending = s.pending /\ e.lost = s.lost
      /\ Len(e.defs) = Len(s.defs) /\ e.defs[b][x] = v
      /\ \A c \in 1..Len(s.defs), y \in X :
           ~(c = b /\ y = x) => e.defs[c][y] = s.defs[c][y]
  BY <1>1, WriteVarFields
<1> HIDE DEF e
<1>3. Vals(e) = Vals(s)
  BY <1>2 DEF Vals
<1>4. \A c \in 1..Len(s.defs), y \in X : s.defs[c][y] # NoVal => e.defs[c][y] # NoVal
  BY <1>1, <1>2
<1>5. \A c \in 1..Len(s.defs), y \in X : e.defs[c][y] # NoVal => e.defs[c][y] \in Vals(e)
  BY <1>1, <1>2, <1>3 DEF Nice, Tidy
<1>6. Tidy(g, X, e)
  BY <1>1, <1>2, <1>3, <1>5 DEF Nice, Tidy
<1>7. Fenced(g, X, R, e)
  BY <1>4, FencedOn DEF Nice, Tidy, Confined
<1>8. Confined(g, X, R, e)
  BY <1>2, <1>3, <1>7 DEF Nice, Confined
<1>9. Onward(X, s, e)
  BY <1>2, <1>3, <1>4 DEF Onward
<1> QED
  BY <1>1, <1>2, <1>3, <1>6, <1>8, <1>9 DEF Nice, e

LEMMA PendNice ==
  ASSUME NEW g, Graph(g), NEW X, NEW R, NEW s, Nice(g, X, R, s), NEW b \in DOMAIN g,
         NEW x \in X, NEW phi \in Vals(s), b \in R[x]
  PROVE  /\ Nice(g, X, R, Pended(s, b, x, phi)) /\ Onward(X, s, Pended(s, b, x, phi))
         /\ Vals(Pended(s, b, x, phi)) = Vals(s)
<1> DEFINE e == Pended(s, b, x, phi)
<1>1. /\ s \in SSAOf(X) /\ b \in 1..Len(s.pending) /\ phi \in Nat
      /\ DOMAIN g = 1..Len(s.pending)
  BY DEF Nice, Tidy, Graph, Vals
<1>2. PendedTo(X, s, b, x, phi, e)
  BY <1>1, PendedFields
<1> HIDE DEF e
<1>3. /\ e \in SSAOf(X) /\ e.vals = s.vals /\ e.defs = s.defs /\ e.lost = s.lost
      /\ Len(e.pending) = Len(s.pending)
      /\ e.pending[b] = Append(s.pending[b], <<x, phi>>)
      /\ s.pending[b] \in Seq(X \X Nat)
      /\ \A c \in 1..Len(s.pending) : c # b => e.pending[c] = s.pending[c]
  BY <1>2 DEF PendedTo
<1>4. Vals(e) = Vals(s)
  BY <1>3 DEF Vals
<1>5. ASSUME NEW i \in 1..Len(e.pending[b])
      PROVE  e.pending[b][i] = <<x, phi>> \/ (i \in 1..Len(s.pending[b]) /\ e.pending[b][i] = s.pending[b][i])
  <2> DEFINE q == s.pending[b]
  <2>1. q \in Seq(X \X Nat) /\ e.pending[b] = Append(q, <<x, phi>>)
    BY <1>3
  <2> HIDE DEF q
  <2>2. Len(Append(q, <<x, phi>>)) = Len(q) + 1 /\ Len(q) \in Nat
    BY <2>1
  <2>3. i \in 1..(Len(q) + 1)
    BY <2>1, <2>2
  <2>4. CASE i = Len(q) + 1
    BY <2>1, <2>4
  <2>5. CASE i \in 1..Len(q)
    BY <2>1, <2>5 DEF q
  <2> QED
    BY <2>2, <2>3, <2>4, <2>5
<1>6. <<x, phi>>[1] = x /\ <<x, phi>>[2] = phi
  OBVIOUS
<1>7. Tidy(g, X, e)
  <2>1. ASSUME NEW c \in DOMAIN g, NEW i \in 1..Len(e.pending[c]) PROVE e.pending[c][i][2] \in Vals(e)
    <3>1. CASE c = b
      <4>1. e.pending[b][i] = <<x, phi>> \/ (i \in 1..Len(s.pending[b]) /\ e.pending[b][i] = s.pending[b][i])
        BY <3>1, <1>5
      <4>2. \A j \in 1..Len(s.pending[b]) : s.pending[b][j][2] \in Vals(s)
        BY DEF Nice, Tidy
      <4> QED
        BY <3>1, <4>1, <4>2, <1>4, <1>6
    <3>2. CASE c # b
      <4>1. e.pending[c] = s.pending[c]
        BY <3>2, <1>1, <1>3
      <4> QED
        BY <4>1, <1>4 DEF Nice, Tidy
    <3> QED
      BY <3>1, <3>2
  <2> QED
    BY <2>1, <1>3, <1>4 DEF Nice, Tidy
<1>8. Confined(g, X, R, e)
  <2>1. ASSUME NEW c \in DOMAIN g, NEW i \in 1..Len(e.pending[c]) PROVE c \in R[e.pending[c][i][1]]
    <3>1. CASE c = b
      <4>1. e.pending[b][i] = <<x, phi>> \/ (i \in 1..Len(s.pending[b]) /\ e.pending[b][i] = s.pending[b][i])
        BY <3>1, <1>5
      <4>2. \A j \in 1..Len(s.pending[b]) : b \in R[s.pending[b][j][1]]
        BY DEF Nice, Confined
      <4> QED
        BY <3>1, <4>1, <4>2, <1>6
    <3>2. CASE c # b
      <4>1. e.pending[c] = s.pending[c]
        BY <3>2, <1>1, <1>3
      <4> QED
        BY <4>1 DEF Nice, Confined
    <3> QED
      BY <3>1, <3>2
  <2>2. Fenced(g, X, R, e)
    BY <1>3 DEF Nice, Confined, Fenced
  <2> QED
    BY <2>1, <2>2, <1>3, <1>4 DEF Nice, Confined
<1>9. Onward(X, s, e)
  BY <1>3, <1>4 DEF Onward
<1> QED
  BY <1>4, <1>7, <1>8, <1>9 DEF Nice, e

LEMMA OperandNice ==
  ASSUME NEW g, Graph(g), NEW X, NEW R, NEW s, Nice(g, X, R, s),
         NEW phi \in Vals(s), NEW v \in Vals(s), NEW p \in Nat
  PROVE  Nice(g, X, R, WithOperand(s, phi, v, p)) /\ Onward(X, s, WithOperand(s, phi, v, p))
<1> DEFINE e == WithOperand(s, phi, v, p)
<1>1. s \in SSAOf(X) /\ v \in Nat
  BY DEF Nice, Tidy, Vals
<1>2. HasOperand(X, s, phi, v, p, e)
  BY <1>1, OperandFields
<1> HIDE DEF e
<1>3. /\ e \in SSAOf(X) /\ e.defs = s.defs /\ e.pending = s.pending /\ e.lost = s.lost
      /\ Len(e.vals) = Len(s.vals) /\ \A u \in Vals(s) : u # phi => e.vals[u] = s.vals[u]
      /\ e.vals[phi].kind = s.vals[phi].kind /\ e.vals[phi].block = s.vals[phi].block
      /\ e.vals[phi].repl = s.vals[phi].repl
      /\ e.vals[phi].ops = Append(s.vals[phi].ops, v)
  BY <1>2 DEF HasOperand
<1>4. Vals(e) = Vals(s)
  BY <1>3 DEF Vals
<1>5. ASSUME NEW i \in 1..Len(e.vals[phi].ops) PROVE e.vals[phi].ops[i] \in Vals(s)
  <2> DEFINE q == s.vals[phi].ops
  <2>1. q \in Seq(Nat) /\ e.vals[phi].ops = Append(q, v) /\ \A j \in 1..Len(q) : q[j] \in Vals(s)
    BY <1>1, <1>3, SSAFields DEF Nice, Tidy
  <2> HIDE DEF q
  <2>2. Len(Append(q, v)) = Len(q) + 1 /\ Len(q) \in Nat
    BY <2>1
  <2>3. i \in 1..(Len(q) + 1)
    BY <2>1, <2>2
  <2>4. CASE i = Len(q) + 1
    BY <1>1, <2>1, <2>4
  <2>5. CASE i \in 1..Len(q)
    BY <1>1, <2>1, <2>5
  <2> QED
    BY <2>2, <2>3, <2>4, <2>5
<1>6. \A u \in Vals(s) : /\ e.vals[u].repl = s.vals[u].repl /\ e.vals[u].kind = s.vals[u].kind
                         /\ e.vals[u].block = s.vals[u].block
  BY <1>3
<1>7. Tidy(g, X, e)
  <2>1. \A u \in Vals(e) : \A i \in 1..Len(e.vals[u].ops) : e.vals[u].ops[i] \in Vals(e)
    BY <1>3, <1>4, <1>5 DEF Nice, Tidy
  <2> QED
    BY <2>1, <1>3, <1>4, <1>6 DEF Nice, Tidy
<1>8. Confined(g, X, R, e)
  <2>1. Fenced(g, X, R, e)
    BY <1>3 DEF Nice, Confined, Fenced
  <2> QED
    BY <2>1, <1>3, <1>4, <1>6 DEF Nice, Confined
<1>9. Onward(X, s, e)
  BY <1>3, <1>4 DEF Onward
<1> QED
  BY <1>7, <1>8, <1>9 DEF Nice, e

LEMMA RemoveNice ==
  ASSUME NEW g, Graph(g), NEW X, NEW R, NEW s, Nice(g, X, R, s), NEW phi \in Vals(s)
  PROVE  Nice(g, X, R, TryRemove(s, phi)) /\ Onward(X, s, TryRemove(s, phi))
<1> DEFINE e == TryRemove(s, phi)
<1>1. s \in SSAOf(X)
  BY DEF Nice, Tidy
<1>2. CASE ~ \E w \in Same(s, phi) : Same(s, phi) = {w}
  <2>1. e = s
    BY <1>2 DEF TryRemove
  <2> HIDE DEF e
  <2> QED
    BY <2>1 DEF Onward, e
<1>3. CASE \E w \in Same(s, phi) : Same(s, phi) = {w}
  <2>1. PICK new \in Same(s, phi) : Same(s, phi) = {new}
    BY <1>3
  <2>2. new \in Vals(s)
    <3>1. s.vals[phi].ops \in Seq(Nat)
      BY <1>1, SSAFields
    <3>2. PICK i \in DOMAIN s.vals[phi].ops : new = s.vals[phi].ops[i]
      BY <2>1 DEF Same
    <3>3. i \in 1..Len(s.vals[phi].ops)
      BY <3>1, <3>2
    <3> QED
      BY <3>2, <3>3 DEF Nice, Tidy
  <2>3. new \in Nat
    BY <2>2 DEF Vals
  <2>4. Cut(X, s, phi, new, e)
    BY <1>1, <2>1, <2>3, CutFields
  <2> HIDE DEF e
  <2>5. /\ e \in SSAOf(X) /\ e.defs = s.defs /\ e.pending = s.pending /\ e.lost = s.lost
        /\ Len(e.vals) = Len(s.vals) /\ e.vals[phi].repl = new
        /\ \A v \in Vals(s) :
             /\ e.vals[v].kind = s.vals[v].kind /\ e.vals[v].block = s.vals[v].block
             /\ v # phi => e.vals[v].repl = s.vals[v].repl
             /\ Len(e.vals[v].ops) = Len(s.vals[v].ops)
             /\ \A i \in 1..Len(s.vals[v].ops) :
                  e.vals[v].ops[i] = s.vals[v].ops[i] \/ e.vals[v].ops[i] = new
    BY <2>4 DEF Cut
  <2>6. Vals(e) = Vals(s)
    BY <2>5 DEF Vals
  <2>7. Tidy(g, X, e)
    <3>1. ASSUME NEW v \in Vals(s), e.vals[v].repl # NoVal PROVE e.vals[v].repl \in Vals(s)
      <4>1. CASE v = phi
        BY <2>2, <2>5, <4>1
      <4>2. CASE v # phi
        <5>1. e.vals[v].repl = s.vals[v].repl
          BY <2>5, <4>2
        <5> QED
          BY <3>1, <5>1 DEF Nice, Tidy
      <4> QED
        BY <4>1, <4>2
    <3>2. ASSUME NEW v \in Vals(s), NEW i \in 1..Len(e.vals[v].ops)
          PROVE  e.vals[v].ops[i] \in Vals(s)
      <4>1. /\ i \in 1..Len(s.vals[v].ops)
            /\ e.vals[v].ops[i] = s.vals[v].ops[i] \/ e.vals[v].ops[i] = new
        BY <2>5, <3>2
      <4>2. s.vals[v].ops[i] \in Vals(s)
        BY <4>1 DEF Nice, Tidy
      <4> QED
        BY <2>2, <4>1, <4>2
    <3>3. \A v \in Vals(e) : /\ e.vals[v].repl # NoVal => e.vals[v].repl \in Vals(e)
                             /\ \A i \in 1..Len(e.vals[v].ops) : e.vals[v].ops[i] \in Vals(e)
      BY <2>6, <3>1, <3>2
    <3> QED
      BY <3>3, <2>5, <2>6 DEF Nice, Tidy
  <2>8. Confined(g, X, R, e)
    <3>1. Fenced(g, X, R, e)
      BY <2>5 DEF Nice, Confined, Fenced
    <3> QED
      BY <3>1, <2>5, <2>6 DEF Nice, Confined
  <2>9. Onward(X, s, e)
    BY <2>5, <2>6 DEF Onward
  <2> QED
    BY <2>7, <2>8, <2>9 DEF Nice, e
<1> QED
  BY <1>2, <1>3

-----------------------------------------------------------------------------
(* A search that starts in the region of its variable, or where the         *)
(* variable is defined, keeps to it.                                        *)

Inside(g, X, R, s, reply) ==
  /\ reply.s \in SSAOf(X)
  /\ ~reply.s.lost => /\ Nice(g, X, R, reply.s) /\ Onward(X, s, reply.s)
                      /\ reply.v \in Vals(reply.s)

StartsWell(R, s, b, x) == b \in R[x] \/ s.defs[b][x] # NoVal

AllInside(g, X, R, x, d) ==
  \A s, b : Nice(g, X, R, s) /\ b \in DOMAIN g /\ StartsWell(R, s, b, x) =>
              Inside(g, X, R, s, d[s][b])

LEMMA NiceChase ==
  ASSUME NEW g, NEW X, NEW R, NEW s, Nice(g, X, R, s), NEW v \in Vals(s)
  PROVE  Chase(s.vals, v) \in Vals(s)
<1>1. Len(s.vals) \in Nat
  BY SSAFields DEF Nice, Tidy
<1>2. \A u \in Vals(s) : Link(s.vals, u) \in Vals(s)
  BY DEF Nice, Tidy, Link
<1> DEFINE P == Vals(s)
           vals == s.vals
<1>3. v \in P /\ (\A u \in P : Link(vals, u) \in P) /\ Len(vals) \in Nat
  BY <1>1, <1>2
<1> HIDE DEF P, vals
<1>4. Chase(vals, v) \in P
  BY <1>3, ChaseIn
<1> QED
  BY <1>4 DEF P, vals

LEMMA OnwardSelf ==
  ASSUME NEW X, NEW s
  PROVE  Onward(X, s, s)
  BY DEF Onward

LEMMA AddNice ==
  ASSUME NEW g, Graph(g), NEW X, NEW R, NEW s, Nice(g, X, R, s), NEW b \in DOMAIN g, NEW x \in X,
         \A p \in Preds(g, b) : StartsWell(R, s, p, x), NEW phi \in Vals(s),
         NEW d, AllInside(g, X, R, x, d)
  PROVE  LET e == AddOperands(g, s, b, phi, d)
         IN  e \in SSAOf(X) /\ (~e.lost => Nice(g, X, R, e) /\ Onward(X, s, e))
<1> DEFINE N == Len(g[b].preds)
           e == AddOperands(g, s, b, phi, d)
<1>1. N \in Nat /\ \A i \in 1..N : g[b].preds[i] \in Preds(g, b)
  BY PredsOf
<1>2. PICK f : /\ f[0] = s
               /\ \A i \in 1..N : f[i] = AddOperand(d, phi, f[i - 1], g[b].preds[i])
               /\ e = IF f[N].lost THEN f[N] ELSE TryRemove(f[N], phi)
  BY <1>1, AddOperandsSteps
<1>3. s \in SSAOf(X) /\ DOMAIN g = 1..Len(s.defs)
  BY DEF Nice, Tidy, Graph
<1> DEFINE Good(i) == f[i] \in SSAOf(X) /\ (~f[i].lost => Nice(g, X, R, f[i]) /\ Onward(X, s, f[i]))
           Bad == {i \in 0..N : ~Good(i)}
<1>4. Good(0)
  BY <1>2, <1>3, OnwardSelf
<1>5. ASSUME NEW i \in 1..N, Good(i - 1) PROVE Good(i)
  <2> DEFINE u == f[i - 1]
             p == g[b].preds[i]
             a == d[u][p]
  <2>1. f[i] = AddOperand(d, phi, u, p)
    BY <1>2
  <2>2. u \in SSAOf(X) /\ (~u.lost => Nice(g, X, R, u) /\ Onward(X, s, u))
    BY <1>5
  <2>3. p \in Preds(g, b) /\ p \in DOMAIN g /\ p \in Nat
    BY <1>1, PredsOf DEF Graph
  <2>4. CASE u.lost
    <3>1. f[i] = u
      BY <2>1, <2>4 DEF AddOperand
    <3> HIDE DEF u
    <3> QED
      BY <3>1, <2>2, <2>4
  <2> HIDE DEF u, p
  <2>5. CASE ~u.lost
    <3>1. Nice(g, X, R, u) /\ Onward(X, s, u)
      BY <2>2, <2>5
    <3>2. StartsWell(R, u, p, x)
      BY <3>1, <2>3, <1>3 DEF Onward, StartsWell
    <3>3. Inside(g, X, R, u, a)
      BY <3>1, <3>2, <2>3 DEF AllInside
    <3> HIDE DEF a
    <3>4. CASE a.s.lost
      <4>1. f[i] = a.s
        BY <2>1, <2>5, <3>4 DEF AddOperand, a
      <4> QED
        BY <4>1, <3>3, <3>4 DEF Inside
    <3>5. CASE ~a.s.lost
      <4>1. Nice(g, X, R, a.s) /\ Onward(X, u, a.s) /\ a.v \in Vals(a.s) /\ a.s \in SSAOf(X)
        BY <3>3, <3>5 DEF Inside
      <4>2. f[i] = WithOperand(a.s, phi, a.v, p)
        BY <2>1, <2>5, <3>5 DEF AddOperand, a, WithOperand
      <4>3. phi \in Vals(a.s)
        BY <3>1, <4>1 DEF Onward
      <4>4. Nice(g, X, R, WithOperand(a.s, phi, a.v, p)) /\ Onward(X, a.s, WithOperand(a.s, phi, a.v, p))
        BY <4>1, <4>3, <2>3, OperandNice
      <4>5. Onward(X, s, a.s)
        BY <3>1, <4>1, OnwardTrans
      <4>6. Onward(X, s, WithOperand(a.s, phi, a.v, p))
        BY <4>4, <4>5, OnwardTrans
      <4>7. Nice(g, X, R, f[i]) /\ Onward(X, s, f[i])
        BY <4>2, <4>4, <4>6
      <4>8. f[i] \in SSAOf(X)
        BY <4>7 DEF Nice, Tidy
      <4> QED
        BY <4>7, <4>8
    <3> QED
      BY <3>4, <3>5
  <2> QED
    BY <2>4, <2>5
<1>6. Bad = {}
  <2>1. SUFFICES ASSUME Bad # {} PROVE FALSE
    OBVIOUS
  <2>2. Bad \subseteq Nat
    BY <1>1
  <2>3. PICK k \in Bad : \A j \in Bad : k <= j
    <3> HIDE DEF Bad
    <3> QED
      BY <2>1, <2>2, LeastOf
  <2>4. k \in 0..N /\ ~Good(k)
    OBVIOUS
  <2>5. k # 0
    BY <2>4, <1>4
  <2>6. k \in 1..N /\ k - 1 \in 0..N /\ ~ (k <= k - 1)
    BY <2>4, <2>5, <1>1
  <2>7. k - 1 \notin Bad
    <3> HIDE DEF Bad
    <3> QED
      BY <2>3, <2>6
  <2>8. Good(k - 1)
    BY <2>6, <2>7
  <2> HIDE DEF Good, Bad
  <2> QED
    BY <2>4, <2>6, <2>8, <1>5
<1>7. f[N] \in SSAOf(X) /\ (~f[N].lost => Nice(g, X, R, f[N]) /\ Onward(X, s, f[N]))
  <2>1. N \in 0..N
    BY <1>1
  <2>2. Good(N)
    <3> HIDE DEF Good
    <3> QED
      BY <2>1, <1>6
  <2> QED
    BY <2>2
<1> DEFINE u == f[N]
<1>8. CASE u.lost
  BY <1>2, <1>7, <1>8
<1>9. CASE ~u.lost
  <2>1. Nice(g, X, R, u) /\ Onward(X, s, u) /\ e = TryRemove(u, phi)
    BY <1>2, <1>7, <1>9
  <2> HIDE DEF u, e, Good, Bad
  <2>2. phi \in Vals(u)
    BY <2>1 DEF Onward
  <2>3. Nice(g, X, R, TryRemove(u, phi)) /\ Onward(X, u, TryRemove(u, phi))
    BY <2>1, <2>2, RemoveNice
  <2>4. Nice(g, X, R, e) /\ Onward(X, s, e)
    BY <2>1, <2>3, OnwardTrans
  <2> QED
    BY <2>4 DEF Nice, Tidy, e
<1> QED
  BY <1>8, <1>9

\* Written in its block, what a call found is what it returns.
LEMMA WrittenInside ==
  ASSUME NEW g, Graph(g), NEW X, NEW R, NEW s, NEW e, Nice(g, X, R, e), Onward(X, s, e),
         NEW b \in DOMAIN g, NEW x \in X, NEW v \in Vals(e)
  PROVE  Inside(g, X, R, s, Found(WriteVar(e, b, x, v), v))
<1> DEFINE u == WriteVar(e, b, x, v)
<1>1. Nice(g, X, R, u) /\ Onward(X, e, u) /\ Vals(u) = Vals(e)
  BY WriteNice
<1> HIDE DEF u
<1>2. Onward(X, s, u) /\ u \in SSAOf(X)
  BY <1>1, OnwardTrans DEF Nice, Tidy
<1>3. Found(u, v).s = u /\ Found(u, v).v = v
  BY DEF Found
<1>4. Inside(g, X, R, s, Found(u, v))
  BY <1>1, <1>2, <1>3 DEF Inside
<1> QED
  BY <1>4 DEF u

LEMMA JoinInside ==
  ASSUME NEW g, Graph(g), NEW X, NEW R, NEW s, Nice(g, X, R, s), NEW b \in DOMAIN g, NEW x \in X,
         b \in R[x], NEW d, AllInside(g, X, R, x, d)
  PROVE  LET n == Len(s.vals) + 1
         IN  Inside(g, X, R, s, Found(WriteVar(NewPhi(g, s, b, x, d), b, x, n), n))
<1> DEFINE n == Len(s.vals) + 1
           e0 == Emit(s, b, "phi")
           e1 == WriteVar(e0, b, x, n)
           e2 == AddOperands(g, e1, b, n, d)
           e3 == WriteVar(e2, b, x, n)
<1>1. Nice(g, X, R, e0) /\ Onward(X, s, e0) /\ n \in Vals(e0)
  BY EmitNice
<1> HIDE DEF e0
<1>2. Nice(g, X, R, e1) /\ Onward(X, e0, e1) /\ Vals(e1) = Vals(e0)
  <2> HIDE DEF n
  <2> QED
    BY <1>1, WriteNice
<1> HIDE DEF e1
<1>3. Onward(X, s, e1) /\ n \in Vals(e1)
  BY <1>1, <1>2, OnwardTrans
<1> HIDE DEF n
<1>4. \A p \in Preds(g, b) : StartsWell(R, e1, p, x)
  BY <1>2 DEF Nice, Confined, Fenced, StartsWell
<1>5. e2 \in SSAOf(X) /\ (~e2.lost => Nice(g, X, R, e2) /\ Onward(X, e1, e2))
  BY <1>2, <1>3, <1>4, AddNice
<1>6. NewPhi(g, s, b, x, d) = e2
  BY DEF NewPhi, e2, e1, e0, n
<1> HIDE DEF e2
<1>7. CASE ~e2.lost
  <2>1. Nice(g, X, R, e2) /\ Onward(X, s, e2) /\ n \in Vals(e2)
    BY <1>3, <1>5, <1>7, OnwardTrans DEF Onward
  <2>2. Inside(g, X, R, s, Found(WriteVar(e2, b, x, n), n))
    BY <2>1, WrittenInside
  <2> QED
    BY <2>2, <1>6 DEF n
<1>8. CASE e2.lost
  <2>1. e3.lost = e2.lost /\ e3 \in SSAOf(X)
    <3>0. n \in Nat
      BY <1>1 DEF Vals
    <3>1. CASE b \in 1..Len(e2.defs)
      BY <1>5, <3>0, <3>1, WriteVarFields
    <3>2. CASE b \notin 1..Len(e2.defs)
      <4> DEFINE df == [e2.defs EXCEPT ![b][x] = n]
      <4>1. DOMAIN e2.defs = 1..Len(e2.defs) /\ e2.defs = [c \in DOMAIN e2.defs |-> e2.defs[c]]
        <5>1. e2.defs \in Seq([X -> Nat])
          BY <1>5, SSAFields
        <5> QED
          BY <5>1
      <4>2. df = e2.defs
        BY <3>2, <4>1
      <4>3. e3 = [e2 EXCEPT !.defs = df]
        BY DEF WriteVar
      <4> HIDE DEF df
      <4> QED
        BY <4>2, <4>3, <1>5 DEF SSAOf
    <3> QED
      BY <3>1, <3>2
  <2>2. Found(e3, n).s = e3
    BY DEF Found
  <2> HIDE DEF e3
  <2>3. Inside(g, X, R, s, Found(e3, n))
    BY <1>8, <2>1, <2>2 DEF Inside
  <2> QED
    BY <2>3, <1>6 DEF e3, n
<1> QED
  BY <1>7, <1>8

LEMMA CallInside ==
  ASSUME NEW g, Graph(g), NEW X, NEW R, NEW s, Nice(g, X, R, s), NEW b \in DOMAIN g, NEW x \in X,
         StartsWell(R, s, b, x), NEW d, AllInside(g, X, R, x, d)
  PROVE  Inside(g, X, R, s, ReadVar(g, s, b, x, d))
<1> DEFINE found == s.defs[b][x]
           n == Len(s.vals) + 1
           reply == ReadVar(g, s, b, x, d)
<1>1. s \in SSAOf(X) /\ s.lost = FALSE
  BY DEF Nice, Tidy
<1>2. CASE found # NoVal
  <2>1. found \in Vals(s)
    BY <1>2 DEF Nice, Tidy
  <2>2. CASE Endless(s.vals, found)
    <3>1. reply = Lost(s)
      BY <1>1, <1>2, <2>2 DEF ReadVar
    <3>2. Lost(s).s.lost = TRUE /\ Lost(s).s \in SSAOf(X)
      BY <1>1, LostIs
    <3> QED
      BY <3>1, <3>2 DEF Inside
  <2>3. CASE ~Endless(s.vals, found)
    <3>1. reply = Found(s, Chase(s.vals, found))
      BY <1>1, <1>2, <2>3 DEF ReadVar
    <3>2. Found(s, Chase(s.vals, found)).s = s /\ Found(s, Chase(s.vals, found)).v = Chase(s.vals, found)
      BY DEF Found
    <3>3. Chase(s.vals, found) \in Vals(s)
      <4> HIDE DEF found
      <4> QED
        BY <2>1, NiceChase
    <3> QED
      BY <1>1, <3>1, <3>2, <3>3, OnwardSelf DEF Inside
  <2> QED
    BY <2>2, <2>3
<1>3. CASE found = NoVal
  <2>1. b \in R[x]
    BY <1>3 DEF StartsWell
  <2>2. b # 1 /\ \A p \in Preds(g, b) : StartsWell(R, s, p, x)
    BY <2>1 DEF Nice, Confined, Fenced, StartsWell
  <2>3. CASE ~g[b].sealed
    <3> DEFINE e == Emit(s, b, "phi")
               p == Pended(e, b, x, n)
    <3>1. Nice(g, X, R, e) /\ Onward(X, s, e) /\ n \in Vals(e)
      BY EmitNice
    <3>2. reply = Found(WriteVar(p, b, x, n), n)
      BY <1>1, <1>3, <2>3 DEF ReadVar, Pended
    <3> HIDE DEF e, n, reply
    <3>3. Nice(g, X, R, p) /\ Onward(X, e, p) /\ Vals(p) = Vals(e)
      BY <3>1, <2>1, PendNice
    <3> HIDE DEF p
    <3>4. Onward(X, s, p) /\ n \in Vals(p)
      BY <3>1, <3>3, OnwardTrans
    <3>5. Inside(g, X, R, s, reply)
      BY <3>2, <3>3, <3>4, WrittenInside
    <3> QED
      BY <3>5 DEF reply
  <2>4. CASE g[b].sealed
    <3> DEFINE N == Len(g[b].preds)
    <3>1. N = 0 \/ N = 1 \/ N > 1
      <4>1. N \in Nat
        BY PredsOf
      <4> HIDE DEF N
      <4> QED
        BY <4>1
    <3>2. CASE N = 0
      <4> DEFINE e == Emit(s, b, "zero")
      <4>1. Nice(g, X, R, e) /\ Onward(X, s, e) /\ n \in Vals(e)
        BY <2>2, EmitNice
      <4>2. reply = Found(WriteVar(e, b, x, n), n)
        BY <1>1, <1>3, <2>4, <3>2 DEF ReadVar
      <4> HIDE DEF e, n, reply
      <4>3. Inside(g, X, R, s, reply)
        BY <4>1, <4>2, WrittenInside
      <4> QED
        BY <4>3 DEF reply
    <3>3. CASE N = 1
      <4> DEFINE p == g[b].preds[1]
                 a == d[s][p]
      <4>1. p \in Preds(g, b) /\ p \in DOMAIN g
        <5>1. 1 \in 1..Len(g[b].preds)
          BY <3>3
        <5> QED
          BY <5>1, PredsOf
      <4>2. Inside(g, X, R, s, a)
        <5>1. StartsWell(R, s, p, x)
          BY <2>2, <4>1
        <5> HIDE DEF p
        <5> QED
          BY <4>1, <5>1 DEF AllInside
      <4>3. reply = IF a.s.lost THEN a ELSE Found(WriteVar(a.s, b, x, a.v), a.v)
        BY <1>1, <1>3, <2>4, <3>3 DEF ReadVar
      <4> HIDE DEF a, p, reply
      <4>4. CASE a.s.lost
        BY <4>2, <4>3, <4>4 DEF reply
      <4>5. CASE ~a.s.lost
        <5>1. Nice(g, X, R, a.s) /\ Onward(X, s, a.s) /\ a.v \in Vals(a.s)
          BY <4>2, <4>5 DEF Inside
        <5>2. Inside(g, X, R, s, Found(WriteVar(a.s, b, x, a.v), a.v))
          BY <5>1, WrittenInside
        <5> QED
          BY <5>2, <4>3, <4>5 DEF reply
      <4> QED
        BY <4>4, <4>5
    <3>4. CASE N > 1
      <4>1. reply = Found(WriteVar(NewPhi(g, s, b, x, d), b, x, n), n)
        <5>1. Len(g[b].preds) # 0 /\ Len(g[b].preds) # 1
          BY <3>4, PredsOf
        <5> QED
          BY <1>1, <1>3, <2>4, <3>4, <5>1 DEF ReadVar
      <4>2. Inside(g, X, R, s, Found(WriteVar(NewPhi(g, s, b, x, d), b, x, n), n))
        BY <2>1, JoinInside
      <4> HIDE DEF reply, n
      <4> QED
        BY <4>1, <4>2 DEF reply
    <3> QED
      BY <3>1, <3>2, <3>3, <3>4
  <2> QED
    BY <2>3, <2>4
<1> QED
  BY <1>2, <1>3

LEMMA SearchInside ==
  ASSUME NEW g, Graph(g), NEW X, NEW R, NEW x \in X
  PROVE  AllInside(g, X, R, x, Search(g, x, X))
<1> DEFINE N == MaxCalls(g)
<1>1. N \in Nat
  BY Finite
<1>2. PICK f : /\ f[0] = NoCalls(g, X)
               /\ \A i \in 1..N : f[i] = OneCall(g, x, X, f[i - 1])
               /\ Search(g, x, X) = f[N]
  BY <1>1, SearchSteps
<1> HIDE DEF N
<1>3. AllInside(g, X, R, x, f[0])
  <2> SUFFICES ASSUME NEW s, NEW b, Nice(g, X, R, s), b \in DOMAIN g
               PROVE  Inside(g, X, R, s, f[0][s][b])
    BY DEF AllInside
  <2>1. s \in SSAOf(X)
    BY DEF Nice, Tidy
  <2>2. f[0][s][b] = Lost(s)
    BY <2>1, <1>2 DEF NoCalls
  <2>3. Lost(s).s.lost = TRUE /\ Lost(s).s \in SSAOf(X)
    BY <2>1, LostIs
  <2> QED
    BY <2>2, <2>3 DEF Inside
<1>4. ASSUME NEW i \in 1..N, AllInside(g, X, R, x, f[i - 1]) PROVE AllInside(g, X, R, x, f[i])
  <2> DEFINE d == f[i - 1]
  <2>1. f[i] = OneCall(g, x, X, d) /\ AllInside(g, X, R, x, d)
    BY <1>2, <1>4
  <2> HIDE DEF d
  <2> SUFFICES ASSUME NEW s, NEW b, Nice(g, X, R, s), b \in DOMAIN g, StartsWell(R, s, b, x)
               PROVE  Inside(g, X, R, s, f[i][s][b])
    BY DEF AllInside
  <2>2. s \in SSAOf(X)
    BY DEF Nice, Tidy
  <2>3. f[i][s][b] = ReadVar(g, s, b, x, d)
    BY <2>1, <2>2 DEF OneCall
  <2>4. Inside(g, X, R, s, ReadVar(g, s, b, x, d))
    BY <2>1, CallInside
  <2> QED
    BY <2>3, <2>4
<1> DEFINE Bad == {i \in 0..N : ~AllInside(g, X, R, x, f[i])}
<1>5. Bad = {}
  <2>1. SUFFICES ASSUME Bad # {} PROVE FALSE
    OBVIOUS
  <2>2. Bad \subseteq Nat
    BY <1>1
  <2>3. PICK k \in Bad : \A j \in Bad : k <= j
    <3> HIDE DEF Bad
    <3> QED
      BY <2>1, <2>2, LeastOf
  <2>4. k \in 0..N /\ ~AllInside(g, X, R, x, f[k])
    OBVIOUS
  <2>5. k # 0
    BY <2>4, <1>3
  <2>6. k \in 1..N /\ k - 1 \in 0..N /\ ~ (k <= k - 1)
    BY <2>4, <2>5, <1>1
  <2>7. k - 1 \notin Bad
    <3> HIDE DEF Bad
    <3> QED
      BY <2>3, <2>6
  <2>8. AllInside(g, X, R, x, f[k - 1])
    BY <2>6, <2>7
  <2> QED
    BY <2>4, <2>6, <2>8, <1>4
<1>6. N \in 0..N
  BY <1>1
<1> QED
  BY <1>2, <1>5, <1>6

-----------------------------------------------------------------------------
(* The calls of a caller keep to the regions.                               *)

LEMMA ReadNice ==
  ASSUME NEW g, Graph(g), NEW X, NEW R, NEW s, Nice(g, X, R, s), NEW b \in DOMAIN g, NEW x \in X,
         StartsWell(R, s, b, x)
  PROVE  LET e == Read(g, s, b, x).s IN ~e.lost => Nice(g, X, R, e) /\ Onward(X, s, e)
<1> DEFINE d == Search(g, x, X)
<1>1. s \in SSAOf(X) /\ Len(s.defs) = Len(g)
  BY DEF Nice, Tidy
<1>2. Read(g, s, b, x) = d[s][b]
  BY <1>1, VarsOfSound DEF Read
<1>3. AllInside(g, X, R, x, d)
  BY SearchInside
<1> HIDE DEF d
<1>4. Inside(g, X, R, s, d[s][b])
  BY <1>3 DEF AllInside
<1> QED
  BY <1>2, <1>4 DEF Inside

LEMMA SealNice ==
  ASSUME NEW g, Graph(g), NEW X, NEW R, NEW s, Nice(g, X, R, s), NEW b \in DOMAIN g
  PROVE  LET e == CompletePhis(g, s, b) IN ~e.lost => Nice(g, X, R, e) /\ Onward(X, s, e)
<1> DEFINE N == Len(s.pending[b])
           e == CompletePhis(g, s, b)
<1>1. s \in SSAOf(X) /\ s.lost = FALSE /\ DOMAIN g = 1..Len(s.defs) /\ DOMAIN g = 1..Len(s.pending)
      /\ Len(s.defs) = Len(g)
  BY DEF Nice, Tidy, Graph
<1>2. s.pending[b] \in Seq(X \X Nat)
  <2> HIDE DEF N, e
  <2>1. s.pending \in Seq(Seq(X \X Nat))
    BY <1>1, SSAFields
  <2>2. b \in 1..Len(s.pending)
    BY <1>1
  <2> QED
    BY <2>1, <2>2
<1>3. N \in Nat
  BY <1>2
<1>4. PICK f : /\ f[0] = s
               /\ \A i \in 1..N : f[i] = Complete(g, f[i - 1], b, s.pending[b][i])
               /\ e = f[N]
  BY <1>3, CompletePhisSteps
<1> HIDE DEF N, e
<1> DEFINE Good(i) == ~f[i].lost => Nice(g, X, R, f[i]) /\ Onward(X, s, f[i])
<1>5. Good(0)
  BY <1>4, OnwardSelf
<1>6. ASSUME NEW i \in 1..N, Good(i - 1) PROVE Good(i)
  <2> DEFINE u == f[i - 1]
             x == s.pending[b][i][1]
             phi == s.pending[b][i][2]
  <2>1. f[i] = Complete(g, u, b, s.pending[b][i])
    BY <1>4
  <2>2. x \in X /\ phi \in Vals(s) /\ b \in R[x]
    <3>1. i \in 1..Len(s.pending[b])
      BY DEF N
    <3>2. s.pending[b][i] \in X \X Nat
      BY <3>1, <1>2
    <3> QED
      BY <3>1, <3>2 DEF Nice, Tidy, Confined
  <2>3. CASE u.lost
    <3>1. f[i] = u
      BY <2>1, <2>3 DEF Complete
    <3> QED
      BY <3>1, <2>3
  <2>4. CASE ~u.lost
    <3>1. Nice(g, X, R, u) /\ Onward(X, s, u)
      BY <2>4, <1>6
    <3>2. f[i] = AddOperands(g, u, b, phi, Search(g, x, VarsOf(u)))
      BY <2>1, <2>4 DEF Complete
    <3> HIDE DEF u, x, phi
    <3>3. VarsOf(u) = X
      BY <3>1, VarsOfSound DEF Nice, Tidy
    <3>4. AllInside(g, X, R, x, Search(g, x, X))
      BY <2>2, SearchInside
    <3>5. phi \in Vals(u)
      BY <2>2, <3>1 DEF Onward
    <3>6. \A p \in Preds(g, b) : StartsWell(R, u, p, x)
      BY <2>2, <3>1 DEF Nice, Confined, Fenced, StartsWell
    <3> DEFINE d == Search(g, x, X)
               k == AddOperands(g, u, b, phi, d)
    <3>7. ~k.lost => Nice(g, X, R, k) /\ Onward(X, u, k)
      <4> HIDE DEF d
      <4> QED
        BY <2>2, <3>1, <3>4, <3>5, <3>6, AddNice DEF d
    <3>8. f[i] = k
      BY <3>2, <3>3
    <3> HIDE DEF k
    <3> QED
      BY <3>1, <3>7, <3>8, OnwardTrans
  <2> QED
    BY <2>3, <2>4
<1> DEFINE Bad == {i \in 0..N : ~Good(i)}
<1>7. Bad = {}
  <2>1. SUFFICES ASSUME Bad # {} PROVE FALSE
    OBVIOUS
  <2>2. Bad \subseteq Nat
    BY <1>3
  <2>3. PICK k \in Bad : \A j \in Bad : k <= j
    <3> HIDE DEF Bad
    <3> QED
      BY <2>1, <2>2, LeastOf
  <2>4. k \in 0..N /\ ~Good(k)
    OBVIOUS
  <2>5. k # 0
    BY <2>4, <1>5
  <2>6. k \in 1..N /\ k - 1 \in 0..N /\ ~ (k <= k - 1)
    BY <2>4, <2>5, <1>3
  <2>7. k - 1 \notin Bad
    <3> HIDE DEF Bad
    <3> QED
      BY <2>3, <2>6
  <2>8. Good(k - 1)
    BY <2>6, <2>7
  <2> HIDE DEF Good, Bad
  <2> QED
    BY <2>4, <2>6, <2>8, <1>6
<1>8. N \in 0..N
  BY <1>3
<1>9. Good(N)
  <2> HIDE DEF Good
  <2> QED
    BY <1>7, <1>8
<1> QED
  BY <1>4, <1>9 DEF e

\* A graph with the same predecessors will do.
LEMMA SameNice ==
  ASSUME NEW g, NEW h, Graph(g), Graph(h), Len(h) = Len(g),
         \A c \in DOMAIN g : Preds(h, c) = Preds(g, c), NEW X, NEW R, NEW s, Nice(g, X, R, s)
  PROVE  Nice(h, X, R, s)
<1>1. DOMAIN h = DOMAIN g
  BY DEF Graph
<1> QED
  BY <1>1 DEF Nice, Tidy, Confined, Fenced
=============================================================================
