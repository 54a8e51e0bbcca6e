-------------------------------- MODULE SSA ---------------------------------
(***************************************************************************)
(* Variables and phis of st_ir.c: ST_ir_write_var, ST_ir_read_var and the  *)
(* part of ST_ir_block_seal that completes phis, over the graph g of       *)
(* IRGraph.  The operators take and return a record:                       *)
(*   vals     the instructions that define values, by id                   *)
(*   defs     b->var_defs: per block and variable a value, or NoVal        *)
(*   pending  b->incomplete_phis                                           *)
(*   lost     the C code does not come back from the call                  *)
(***************************************************************************)
EXTENDS IRGraph

NoVal == 0

\* kind: "def", "zero" or "phi".  repl: what a removed phi stands for.
Inst(kind) == [kind |-> kind, block |-> 0, ops |-> <<>>, from |-> <<>>, repl |-> NoVal]

Insts == [kind : {"def", "zero", "phi"}, block : Nat, ops : Seq(Nat),
          from : Seq(Nat), repl : Nat]

SSAOf(vars) == [vals : Seq(Insts), defs : Seq([vars -> Nat]),
                pending : Seq(Seq(vars \X Nat)), lost : BOOLEAN]

EmptySSA(vars) == [vals |-> <<>>, defs |-> <<[x \in vars |-> NoVal]>>,
                   pending |-> <<<<>>>>, lost |-> FALSE]

WithDefs(s, vars, n) ==
  [s EXCEPT !.defs    = @ \o [i \in 1..n |-> [x \in vars |-> NoVal]],
            !.pending = @ \o [i \in 1..n |-> <<>>]]

Emit(s, b, kind) ==
  [s EXCEPT !.vals = Append(@, [Inst(kind) EXCEPT !.block = b])]

WriteVar(s, b, x, v) == [s EXCEPT !.defs[b][x] = v]

\* A call that returns v, and one that does not return.
Found(s, v) == [s |-> s, v |-> v]
Lost(s)     == Found([s EXCEPT !.lost = TRUE], NoVal)

\* The value at the end of a chain of removed phis, after Len(vals) links at
\* most; a longer chain is a cycle, in which the C loop goes round for ever.
Link(vals, v) == IF vals[v].repl = NoVal THEN v ELSE vals[v].repl
Chase(vals, v) ==
  LET link[n \in 0..Len(vals)] == IF n = 0 THEN v ELSE Link(vals, link[n - 1])
  IN  link[Len(vals)]

Endless(vals, v) == vals[Chase(vals, v)].repl # NoVal

\* What the operands of a phi are, itself left out.
Same(s, phi) == {s.vals[phi].ops[i] : i \in DOMAIN s.vals[phi].ops} \ {phi}

\* As a slip in the code: a second operand does not end the search.
RemovesAnyPhi(s, phi) ==
  IF Same(s, phi) = {} THEN s
  ELSE [s EXCEPT !.vals[phi].repl = CHOOSE w \in Same(s, phi) : TRUE]

\* ST_ir_replace_all_uses: removed phis are in no block any more.
Replaced(u, phi, new) ==
  IF u.repl # NoVal THEN u
  ELSE [u EXCEPT !.ops = [i \in DOMAIN u.ops |-> IF u.ops[i] = phi THEN new ELSE u.ops[i]]]

\* ST_ir_try_removal_trivial_phi: a phi all of whose operands but itself are
\* one value is removed.
TryRemove(s, phi) ==
  LET new  == CHOOSE w \in Same(s, phi) : TRUE
      uses == [v \in DOMAIN s.vals |-> Replaced(s.vals[v], phi, new)]
  IN  IF \E w \in Same(s, phi) : Same(s, phi) = {w}
      THEN [s EXCEPT !.vals = [uses EXCEPT ![phi].repl = new]] ELSE s

-----------------------------------------------------------------------------
\* ST_ir_add_phi_operand: one operand per predecessor of the phi's block.
\* deeper[s][p] is what a call of ST_ir_read_var for the variable returns.
AddOperand(deeper, phi, s, p) ==
  LET r == deeper[s][p]
  IN  CASE s.lost -> s
        [] ~s.lost /\ r.s.lost -> r.s
        [] ~s.lost /\ ~r.s.lost -> [r.s EXCEPT !.vals[phi].ops  = Append(@, r.v),
                                               !.vals[phi].from = Append(@, p)]

AddOperands(g, s, b, phi, deeper) ==
  LET preds == g[b].preds
      after[i \in 0..Len(preds)] ==
        IF i = 0 THEN s ELSE AddOperand(deeper, phi, after[i - 1], preds[i])
      full == after[Len(preds)]
  IN  IF full.lost THEN full ELSE TryRemove(full, phi)

\* As a slip in the code: the phi is not recorded before its operands are read.
OperandsFirst(g, s, b, x, deeper) ==
  AddOperands(g, Emit(s, b, "phi"), b, Len(s.vals) + 1, deeper)

\* The new phi is the block's definition first: a read of its operands that
\* comes back to the block around a loop finds it and ends.
NewPhi(g, s, b, x, deeper) ==
  LET phi == Len(s.vals) + 1
  IN  AddOperands(g, WriteVar(Emit(s, b, "phi"), b, x, phi), b, phi, deeper)

\* One call of ST_ir_read_var, with ST_ir_read_var_rec.
ReadVar(g, s, b, x, deeper) ==
  LET found == s.defs[b][x]
      preds == g[b].preds
      next  == Len(s.vals) + 1
      new(st, v) == Found(WriteVar(st, b, x, v), v)
  IN CASE s.lost -> Lost(s)
       [] ~s.lost /\ found # NoVal ->
            IF Endless(s.vals, found) THEN Lost(s) ELSE Found(s, Chase(s.vals, found))
       [] ~s.lost /\ found = NoVal /\ ~g[b].sealed ->
            new([Emit(s, b, "phi") EXCEPT !.pending[b] = Append(@, <<x, next>>)], next)
       [] ~s.lost /\ found = NoVal /\ g[b].sealed ->
            CASE Len(preds) = 0 -> new(Emit(s, b, "zero"), next)
              [] Len(preds) = 1 ->
                   LET r == deeper[s][preds[1]]
                   IN  IF r.s.lost THEN r ELSE new(r.s, r.v)
              [] Len(preds) > 1 -> new(NewPhi(g, s, b, x, deeper), next)

(***************************************************************************)
(* How many calls may be active at once.  A new phi defines the variable   *)
(* in its block, so that there is at most one for each join; and a call    *)
(* that goes on to the one predecessor of a block changes nothing before   *)
(* it returns, so that one which meets such a block again, with no new phi *)
(* in between, never ends.                                                 *)
(***************************************************************************)
Passages(g) == {b \in DOMAIN g : Len(g[b].preds) = 1}
Joins(g)    == {b \in DOMAIN g : Len(g[b].preds) > 1}
MaxCalls(g) == (Cardinality(Joins(g)) + 1) * (Cardinality(Passages(g)) + 1)

NoCalls(g, vars) == [s \in SSAOf(vars) |-> [b \in DOMAIN g |-> Lost(s)]]
OneCall(g, x, vars, deeper) ==
  [s \in SSAOf(vars) |-> [b \in DOMAIN g |-> ReadVar(g, s, b, x, deeper)]]

Search(g, x, vars) ==
  LET call[n \in 0..MaxCalls(g)] ==
        IF n = 0 THEN NoCalls(g, vars) ELSE OneCall(g, x, vars, call[n - 1])
  IN  call[MaxCalls(g)]

VarsOf(s) == DOMAIN s.defs[1]

Read(g, s, b, x) == Search(g, x, VarsOf(s))[s][b]

\* A pending phi, with its variable, gets its operands.
Complete(g, s, b, p) ==
  IF s.lost THEN s ELSE AddOperands(g, s, b, p[2], Search(g, p[1], VarsOf(s)))

CompleteFirstPhi(g, s, b) ==
  IF s.pending[b] = <<>> THEN s ELSE Complete(g, s, b, s.pending[b][1])

\* The loop of ST_ir_block_seal; g already shows b sealed.
CompletePhis(g, s, b) ==
  LET phis == s.pending[b]
      after[i \in 0..Len(phis)] ==
        IF i = 0 THEN s ELSE Complete(g, after[i - 1], b, phis[i])
  IN  after[Len(phis)]

\* Sealed blocks closed under predecessors that do not hold the entry: a loop
\* that no run of the function enters.
DeadLoop(g) ==
  \E S \in SUBSET {b \in DOMAIN g : g[b].sealed /\ b # 1} :
    S # {} /\ \A b \in S : g[b].preds # <<>> /\ Preds(g, b) \subseteq S
=============================================================================
