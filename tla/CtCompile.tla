----------------------------- MODULE CtCompile ------------------------------
(***************************************************************************)
(* The compiler from functions to the bytecode of the compile-time machine *)
(* (st_comptime_compile.c).  A function body is a sequence of statements,  *)
(* a statement or expression a record with its kind in .k.  The bytecode   *)
(* is a sequence of instructions <<operation, operand>>; an address is a   *)
(* position in it and the operand of a jump the address it goes to.        *)
(*                                                                         *)
(* Every operator takes the state c of the compiler and returns the next.  *)
(***************************************************************************)
EXTENDS Integers, Sequences, SequencesExt, FiniteSetsExt

CONSTANT Limit   \* the sizes of the compiler's tables, a record

(***************************************************************************)
(* The state of the compiler.  A local's slot is its place in locals: both *)
(* grow together (ST_ct_declare_local).  held and plan are not in the code:*)
(* held counts the return values on the stack while deferred statements    *)
(* are emitted, plan notes the height of the frame the compiler counts on  *)
(* at the first instruction of every statement.                            *)
(***************************************************************************)
NewProgram == [code |-> <<>>, fns |-> <<>>, entry |-> <<>>, pending |-> <<>>,
               plan |-> {}, failed |-> FALSE]

NewFunction(c, params) ==
  [code |-> c.code, fns |-> c.fns, entry |-> c.entry, pending |-> c.pending,
   plan |-> c.plan, failed |-> c.failed \/ Len(params) > Limit.locals,
   locals |-> [i \in DOMAIN params |-> [name |-> params[i].name, boxed |-> FALSE]],
   scopes |-> <<>>, defers |-> <<>>, loops |-> <<>>, labels |-> <<>>, gotos |-> <<>>,
   rest |-> <<>>, body |-> <<>>, held |-> 0]

Fail(c) == [c EXCEPT !.failed = TRUE]
Require(c, ok) == IF ok THEN c ELSE Fail(c)

Here(c) == Len(c.code) + 1
Emit(c, op, arg) == [c EXCEPT !.code = Append(@, <<op, arg>>)]
EmitTimes(c, n, op) == FoldLeft(LAMBDA d, i : Emit(d, op, 0), c, [i \in 1..n |-> i])
Patch(c, at, to) == [c EXCEPT !.code[at] = <<@[1], to>>]
Land(c, at) == Patch(c, at, Here(c))
PatchAll(c, ats, to) == FoldLeft(LAMBDA d, at : Patch(d, at, to), c, ats)

\* The last declaration of a name wins (0: there is none).
Slot(c, name) == SelectLastInSeq(c.locals, LAMBDA l : l.name = name)

Declare(c, name) ==
  IF Len(c.locals) >= Limit.locals THEN Fail(c)
  ELSE [c EXCEPT !.locals = Append(@, [name |-> name, boxed |-> FALSE])]

\* As a slip would have it: nothing stands in for a variable jumped over.
AdjustLocalsDown(c, have, want) == EmitTimes(c, have - want, "POP")

\* Pops the locals above the height want, or fills up to it.
AdjustLocals(c, have, want) ==
  IF have > want THEN EmitTimes(c, have - want, "POP") ELSE EmitTimes(c, want - have, "NIL")

-----------------------------------------------------------------------------
(***************************************************************************)
(* Whether a statement takes the address of a name.                        *)
(***************************************************************************)
RECURSIVE ExprTakesAddr(_, _), StmtTakesAddr(_, _)

ExprTakesAddr(e, name) ==
  CASE e.k = "addr" -> e.name = name
    [] e.k = "deref" -> ExprTakesAddr(e.e, name)
    [] e.k \in {"bin", "and", "or"} -> ExprTakesAddr(e.l, name) \/ ExprTakesAddr(e.r, name)
    [] e.k \in {"call", "native"} ->
         \E i \in DOMAIN e.args : ExprTakesAddr(e.args[i].value, name)
    [] e.k = "list" -> \E i \in DOMAIN e.items : ExprTakesAddr(e.items[i], name)
    [] OTHER -> FALSE

StmtsTakeAddr(body, name) == \E i \in DOMAIN body : StmtTakesAddr(body[i], name)

StmtTakesAddr(s, name) ==
  CASE s.k \in {"decl", "assign", "compound", "expr", "bind"} -> ExprTakesAddr(s.e, name)
    [] s.k = "store" -> ExprTakesAddr(s.p, name) \/ ExprTakesAddr(s.e, name)
    [] s.k = "if" -> \/ ExprTakesAddr(s.e, name)
                     \/ StmtsTakeAddr(s.body, name) \/ StmtsTakeAddr(s.else, name)
    [] s.k \in {"while", "array"} -> ExprTakesAddr(s.e, name) \/ StmtsTakeAddr(s.body, name)
    [] s.k = "range" -> \/ ExprTakesAddr(s.lo, name) \/ ExprTakesAddr(s.hi, name)
                        \/ StmtsTakeAddr(s.body, name)
    [] s.k = "switch" -> \/ ExprTakesAddr(s.e, name)
                         \/ \E i \in DOMAIN s.cases : StmtsTakeAddr(s.cases[i].body, name)
    [] s.k \in {"return", "error"} -> \E i \in DOMAIN s.es : ExprTakesAddr(s.es[i], name)
    [] s.k = "block" -> StmtsTakeAddr(s.body, name)
    [] s.k = "defer" -> StmtTakesAddr(s.s, name)
    [] OTHER -> FALSE

\* Moves the value in a slot to memory of its own and keeps its address there.
BoxValue(c, slot) ==
  LET moved == FoldLeft(LAMBDA d, i : Emit(d, i[1], i[2]), c,
                 <<<<"ALLOC_ZEROED", 0>>, <<"DUP", 0>>, <<"GET_LOCAL", slot>>,
                   <<"PTR_STORE", 0>>, <<"POP", 0>>, <<"SET_LOCAL", slot>>, <<"POP", 0>>>>)
  IN  [moved EXCEPT !.locals = [@ EXCEPT ![slot].boxed = TRUE]]

-----------------------------------------------------------------------------
(***************************************************************************)
(* Calls.  Arguments are sorted into the order of the parameters: by name  *)
(* or, among those without one, by position; what is missing takes its     *)
(* default.  <<>> stands for a call that cannot be resolved.               *)
(***************************************************************************)
ParamOf(params, args, i) ==
  IF args[i].name = "" THEN Cardinality({j \in 1..i : args[j].name = ""})
  ELSE SelectInSeq(params, LAMBDA p : p.name = args[i].name)

ResolveArgs(params, args) ==
  LET to == [i \in DOMAIN args |-> ParamOf(params, args, i)]
      given(p) == SelectInSeq(to, LAMBDA q : q = p)
      value(p) == IF given(p) # 0 THEN args[given(p)].value ELSE params[p].def
  IN  IF /\ \A i \in DOMAIN to : to[i] \in DOMAIN params
         /\ \A i, j \in DOMAIN to : to[i] = to[j] => i = j
         /\ \A p \in DOMAIN params : value(p).k # "none"
      THEN <<[p \in DOMAIN params |-> value(p)]>>
      ELSE <<>>

\* The callee joins the functions to compile when it is first called; the call
\* is patched when all of them have their place.
WantCall(c, fn) ==
  LET known == fn \in Range(c.fns)
      added == IF known THEN c ELSE [c EXCEPT !.fns = Append(@, fn)]
  IN  IF (~known /\ Len(c.fns) >= Limit.fns) \/ Len(c.pending) >= Limit.pending THEN Fail(c)
      ELSE [added EXCEPT !.pending = Append(@, Len(c.code))]

\* Compiles an expression, a statement or a block (below).  P is the program, a
\* function from the names of its functions.
RECURSIVE Compile(_, _, _)
Inside(body) == [k |-> "scope", body |-> body]

CompileExprs(c, P, es) == FoldLeft(LAMBDA d, e : Compile(d, P, e), c, es)

CompileCall(c, P, e) ==
  LET args == ResolveArgs(P[e.fn].params, e.args)
  IN  IF args = <<>> THEN Fail(c)
      ELSE LET pushed == CompileExprs(c, P, args[1])
               call == Emit(pushed, "CALL", <<e.fn, Len(args[1])>>)
           IN  IF pushed.failed THEN pushed ELSE WantCall(call, e.fn)

CompileName(c, name) ==
  LET slot == Slot(c, name)
      got  == Emit(c, "GET_LOCAL", slot)
  IN  IF slot = 0 THEN Fail(c)
      ELSE IF c.locals[slot].boxed THEN Emit(got, "PTR_LOAD", 0) ELSE got

CompileAddr(c, name) ==
  LET slot == Slot(c, name)
  IN  IF slot = 0 \/ ~c.locals[slot].boxed THEN Fail(c) ELSE Emit(c, "GET_LOCAL", slot)

CompileAnd(c, P, e) ==
  LET end(test, r) == Land(Emit(Land(r, test), "FALSE", 0), Len(r.code))
      right(l) == end(Len(l.code), Emit(Compile(l, P, e.r), "JMP", 0))
  IN  right(Emit(Compile(c, P, e.l), "JMP_IF_FALSE", 0))

CompileOr(c, P, e) ==
  LET end(taken, r) == Land(Emit(Land(r, taken), "TRUE", 0), Len(r.code))
      right(l) == end(Len(l.code), Emit(Compile(Land(l, Len(l.code) - 1), P, e.r), "JMP", 0))
  IN  right(Emit(Emit(Compile(c, P, e.l), "JMP_IF_FALSE", 0), "JMP", 0))

\* The look-up of a native function's symbol pushes and pops its own operands
\* and is part of CALL_NATIVE.
CompileNative(c, P, e) ==
  Emit(FoldLeft(LAMBDA d, a : Emit(Compile(d, P, a.value), "NATIVE_ARG", 0), c, e.args),
       "CALL_NATIVE", <<e.fn, Len(e.args)>>)

\* The value of e on top of the stack.
CompileExpr(c, P, e) ==
  IF c.failed THEN c ELSE
  CASE e.k = "int" -> Emit(c, "CONST", <<"int", e.v>>)
    [] e.k = "var" -> CompileName(c, e.name)
    [] e.k = "addr" -> CompileAddr(c, e.name)
    [] e.k = "deref" -> Emit(Compile(c, P, e.e), "PTR_LOAD", 0)
    [] e.k = "bin" -> Emit(CompileExprs(c, P, <<e.l, e.r>>), e.op, 0)
    [] e.k = "and" -> CompileAnd(c, P, e)
    [] e.k = "or" -> CompileOr(c, P, e)
    [] e.k = "list" -> Emit(CompileExprs(c, P, e.items), "MAKE_STRUCT", Len(e.items))
    [] e.k = "native" -> CompileNative(c, P, e)
    [] e.k = "call" -> Require(CompileCall(c, P, e), P[e.fn].rets = 1)

-----------------------------------------------------------------------------
(***************************************************************************)
(* Labels: the block that holds one, by a search that does not look into   *)
(* deferred statements (<<>>: there is none).                              *)
(***************************************************************************)
InnerBodies(s) ==
  CASE s.k = "if" -> <<s.body, s.else>>
    [] s.k \in {"while", "range", "array", "block"} -> <<s.body>>
    [] s.k = "switch" -> [i \in DOMAIN s.cases |-> s.cases[i].body]
    [] OTHER -> <<>>

HoldsLabel(body, label) == \E i \in DOMAIN body : body[i].k = "label" /\ body[i].label = label

RECURSIVE LabelBlock(_, _)
LabelBlock(body, label) ==
  IF HoldsLabel(body, label) THEN body
  ELSE LET inner == FlattenSeq([i \in DOMAIN body |-> InnerBodies(body[i])])
           found == SelectSeq([i \in DOMAIN inner |-> LabelBlock(inner[i], label)],
                              LAMBDA b : b # <<>>)
       IN  IF found = <<>> THEN <<>> ELSE found[1]

LabelEntry(c, label) == SelectInSeq(c.labels, LAMBDA l : l.name = label)

\* As a slip would have it: the first statement deferred runs first.
EmitDefersFromFirst(c, P, from) ==
  FoldLeft(LAMBDA d, s : Compile(d, P, s), c,
           FlattenSeq([i \in 1..(Len(c.defers) - from) |-> c.defers[Len(c.defers) + 1 - i]]))

\* The deferred statements of the scopes above from, the last one first.
EmitDefersFrom(c, P, from) ==
  FoldLeft(LAMBDA d, s : Compile(d, P, s), c,
           FlattenSeq([i \in 1..(Len(c.defers) - from) |->
                         Reverse(c.defers[Len(c.defers) + 1 - i])]))

CompileGoto(c, P, s) ==
  LET target == LabelBlock(c.body, s.label)
      k      == SelectLastInSeq(c.scopes, LAMBDA sc : sc.body = target)
      top    == Len(c.scopes)
      level  == IF k = top THEN Len(c.locals) ELSE c.scopes[k + 1].saved
      left   == IF k < top THEN EmitDefersFrom(c, P, c.scopes[k + 1].defer) ELSE c
      popped == AdjustLocals(left, Len(left.locals), level)
      known  == LabelEntry(c, s.label)
  IN  IF target = <<>> \/ k = 0 THEN Fail(c)
      ELSE IF left.failed THEN left
      ELSE IF known # 0
           THEN Emit(AdjustLocals(popped, level, c.labels[known].locals), "LOOP", c.labels[known].at)
      ELSE IF Len(c.gotos) >= Limit.gotos THEN Fail(c)
      ELSE LET jump == Emit(popped, "JMP", 0)
           IN  [jump EXCEPT !.gotos = Append(@, [label |-> s.label, at |-> Len(jump.code),
                                                 locals |-> level])]

\* Every jump that waits for the label lands on code of its own that adjusts
\* the locals.
CompileLabel(c, s) ==
  LET waits   == SelectSeq(c.gotos, LAMBDA g : g.label = s.label)
      over    == Emit(c, "JMP", 0)
      land(acc, g) ==
        LET d == Emit(AdjustLocals(Patch(acc.c, g.at, Here(acc.c)), g.locals, Len(c.locals)),
                      "JMP", 0)
        IN  [c |-> d, back |-> Append(acc.back, Len(d.code))]
      landed  == FoldLeft(land, [c |-> over, back |-> <<>>], waits)
      joined  == IF waits = <<>> THEN c
                 ELSE PatchAll(landed.c, <<Len(over.code)>> \o landed.back, Here(landed.c))
  IN  IF LabelEntry(c, s.label) # 0 \/ Len(c.labels) >= Limit.labels THEN Fail(c)
      ELSE [joined EXCEPT
              !.labels = Append(@, [name |-> s.label, at |-> Here(joined),
                                    locals |-> Len(c.locals)]),
              !.gotos  = SelectSeq(@, LAMBDA g : g.label # s.label)]

CompileFrom(c, P, body) ==
  FoldLeft(LAMBDA d, i : IF d.failed THEN d
                         ELSE Compile([d EXCEPT !.rest = SubSeq(body, i + 1, Len(body))], P, body[i]),
           c, [i \in DOMAIN body |-> i])

CompileScoped(c, P, body) ==
  LET saved  == Len(c.locals)
      opened == [c EXCEPT !.defers = Append(@, <<>>),
                          !.scopes = Append(@, [body |-> body, saved |-> saved,
                                                defer |-> Len(c.defers)])]
      ran    == CompileFrom(opened, P, body)
      left   == [ran EXCEPT !.scopes = Front(@), !.rest = c.rest]
      ended  == [EmitDefersFrom(left, P, Len(left.defers) - 1) EXCEPT !.defers = Front(@)]
      popped == EmitTimes(ended, Len(ended.locals) - saved, "POP")
  IN  IF Len(c.defers) >= Limit.scopes THEN Fail(c)
      ELSE IF ran.failed THEN Fail(c)
      ELSE [popped EXCEPT !.locals = SubSeq(@, 1, saved)]

-----------------------------------------------------------------------------
(***************************************************************************)
(* Loops.  The jump that leaves the loop is at exit; continue goes to the  *)
(* condition of a while and to the step of a for.                          *)
(***************************************************************************)
Loop(c, P, body, start, exit, step(_)) ==
  LET inside == Compile([c EXCEPT !.loops = Append(@,
                   [locals |-> Len(c.locals), defers |-> Len(c.defers),
                    breaks |-> <<>>, continues |-> <<>>])], P, Inside(body))
      loop   == Last(inside.loops)
      again  == Emit(step(inside), "LOOP", start)
      cont   == IF step(inside) = inside THEN start ELSE Here(inside)
      closed == PatchAll(PatchAll(again, loop.continues, cont),
                         <<exit>> \o loop.breaks, Here(again))
  IN  IF c.failed \/ Len(c.loops) >= Limit.loops THEN Fail(c)
      ELSE IF inside.failed THEN inside
      ELSE [closed EXCEPT !.loops = Front(@)]

Increment(c, slot) ==
  FoldLeft(LAMBDA d, i : Emit(d, i[1], i[2]), c,
           <<<<"GET_LOCAL", slot>>, <<"CONST", <<"int", 1>>>>, <<"ADD", 0>>,
             <<"SET_LOCAL", slot>>, <<"POP", 0>>>>)

CompileWhile(c, P, s) ==
  LET test == Emit(Compile(c, P, s.e), "JMP_IF_FALSE", 0)
  IN  Loop(test, P, s.body, Here(c), Len(test.code), LAMBDA d : d)

CompileRange(c, P, s) ==
  LET iter  == Declare(Compile(c, P, s.lo), s.name)
      slot  == Len(iter.locals)
      test  == Emit(Emit(Compile(Emit(iter, "GET_LOCAL", slot), P, s.hi),
                         IF s.incl THEN "LE" ELSE "LT", 0), "JMP_IF_FALSE", 0)
      loop  == Loop(test, P, s.body, Here(iter), Len(test.code), LAMBDA d : Increment(d, slot))
  IN  IF iter.failed THEN iter
      ELSE [Emit(loop, "POP", 0) EXCEPT !.locals = c.locals]

CompileArray(c, P, s) ==
  LET arr   == Declare(Compile(c, P, s.e), "$for_arr")
      idx   == Declare(Emit(arr, "CONST", <<"int", 0>>), "$for_idx")
      iter  == Declare(Emit(idx, "NIL", 0), s.name)
      n     == Len(c.locals)
      test  == FoldLeft(LAMBDA d, i : Emit(d, i[1], i[2]), iter,
                 <<<<"GET_LOCAL", n + 2>>, <<"GET_LOCAL", n + 1>>, <<"STR_LEN", 0>>,
                   <<"LT", 0>>, <<"JMP_IF_FALSE", 0>>>>)
      elem  == FoldLeft(LAMBDA d, i : Emit(d, i[1], i[2]), test,
                 <<<<"GET_LOCAL", n + 1>>, <<"GET_LOCAL", n + 2>>, <<"STRUCT_INDEX", 0>>,
                   <<"SET_LOCAL", n + 3>>, <<"POP", 0>>>>)
      loop  == Loop(elem, P, s.body, Here(iter), Len(test.code), LAMBDA d : Increment(d, n + 2))
  IN  IF iter.failed THEN Fail(c)
      ELSE [EmitTimes(loop, 3, "POP") EXCEPT !.locals = c.locals]

\* break and continue: the deferred statements of the scopes left, the locals
\* of the body, and a jump to patch when the loop is closed.
CompileLeave(c, P, which) ==
  LET loop == Last(c.loops)
      ran  == EmitDefersFrom(c, P, loop.defers)
      jump == Emit(EmitTimes(ran, Len(ran.locals) - loop.locals, "POP"), "JMP", 0)
  IN  IF c.loops = <<>> THEN Fail(c)
      ELSE IF Len(loop[which]) >= Limit.patches THEN Fail(c)
      ELSE IF ran.failed THEN ran
      ELSE [jump EXCEPT !.loops[Len(c.loops)][which] = Append(@, Len(jump.code))]

\* Every value of a case is compared, the default runs when none is equal.
SwitchValue(acc, P, slot, v) ==
  LET tested(c) == [c   |-> Land(Emit(c, "JMP", 0), Len(c.code)),
                    ats |-> Append(acc.ats, Len(c.code) + 1)]
  IN  tested(Emit(Emit(Compile(Emit(acc.c, "GET_LOCAL", slot), P, v), "EQ", 0), "JMP_IF_FALSE", 0))

SwitchCase(acc, P, slot, k) ==
  LET left(skip, c) == [c |-> Land(c, skip), ats |-> Append(acc.ats, Len(c.code))]
      enter(c, ats) == left(Len(c.code),
                            Emit(Compile(PatchAll(c, ats, Here(c)), P, Inside(k.body)), "JMP", 0))
      tests(t) == enter(Emit(t.c, "JMP", 0), t.ats)
  IN  IF acc.c.failed THEN acc
      ELSE tests(FoldLeft(LAMBDA t, v : SwitchValue(t, P, slot, v), [c |-> acc.c, ats |-> <<>>], k.values))

CompileSwitch(c, P, s) ==
  LET default == SelectSeq(s.cases, LAMBDA k : k.values = <<>>)
      end(ended, ats) ==
        IF ended.failed THEN Fail(c)
        ELSE [Emit(PatchAll(ended, ats, Here(ended)), "POP", 0) EXCEPT !.locals = c.locals]
      last(t) == end(IF default = <<>> THEN t.c ELSE Compile(t.c, P, Inside(Last(default).body)), t.ats)
      cases(cond) ==
        IF cond.failed THEN Fail(c)
        ELSE last(FoldLeft(LAMBDA t, k : SwitchCase(t, P, Len(cond.locals), k),
                           [c |-> cond, ats |-> <<>>],
                           SelectSeq(s.cases, LAMBDA k : k.values # <<>>)))
  IN  cases(Declare(Compile(c, P, s.e), "$switch_cond"))

\* The values stay on the stack while the deferred statements of the whole
\* function are emitted; without values the frame is given up by HALT.
CompileReturn(c, P, s) ==
  LET values == CompileExprs(c, P, s.es)
      n      == Len(s.es)
      ran    == EmitDefersFrom([values EXCEPT !.held = @ + n], P, 0)
  IN  IF n > 8 \/ values.failed THEN Fail(c)
      ELSE IF n = 0 THEN Emit(ran, "HALT", 0)
      ELSE [Emit(ran, "RETURN", n) EXCEPT !.held = c.held]

CompileDecl(c, P, s) ==
  LET zeroed == Declare(Emit(c, "ALLOC_ZEROED", 0), s.name)
      value  == Declare(Compile(c, P, s.e), s.name)
      slot   == Len(c.locals) + 1
  IN  IF s.e.k = "none"
      THEN IF zeroed.failed THEN zeroed
           ELSE [zeroed EXCEPT !.locals = [@ EXCEPT ![slot].boxed = TRUE]]
      ELSE IF ~value.failed /\ StmtsTakeAddr(c.rest, s.name) THEN BoxValue(value, slot)
      ELSE value

CompileAssign(c, P, s) ==
  LET slot == Slot(c, s.name)
  IN  IF slot = 0 THEN Fail(c)
      ELSE IF c.locals[slot].boxed
           THEN Emit(Emit(Compile(Emit(c, "GET_LOCAL", slot), P, s.e), "PTR_STORE", 0), "POP", 0)
      ELSE Emit(Emit(Compile(c, P, s.e), "SET_LOCAL", slot), "POP", 0)

CompileIf(c, P, s) ==
  LET test == Emit(Compile(c, P, s.e), "JMP_IF_FALSE", 0)
      then == Compile(test, P, Inside(s.body))
      jump == Emit(then, "JMP", 0)
      else == Compile(Patch(jump, Len(test.code), Here(jump)), P, Inside(s.else))
  IN  IF then.failed THEN then
      ELSE IF s.else = <<>> THEN Patch(then, Len(test.code), Here(then))
      ELSE Patch(else, Len(jump.code), Here(else))

\* A call that stands as a statement drops every value it returns, a void one
\* the nil its frame leaves.
CompileExprStmt(c, P, s) ==
  IF s.e.k = "call"
  THEN EmitTimes(CompileCall(c, P, s.e), IF P[s.e.fn].rets = 0 THEN 1 ELSE P[s.e.fn].rets, "POP")
  ELSE Emit(Compile(c, P, s.e), "POP", 0)

CompileBind(c, P, s) ==
  LET called == CompileCall(c, P, s.e)
  IN  IF called.failed \/ P[s.e.fn].rets # Len(s.names) THEN Fail(c)
      ELSE FoldLeft(Declare, called, s.names)

CompileDefer(c, s) ==
  IF Len(Last(c.defers)) >= Limit.defers THEN Fail(c)
  ELSE [c EXCEPT !.defers[Len(c.defers)] = Append(@, s.s)]

CompileStore(c, P, s) == Emit(Emit(CompileExprs(c, P, <<s.p, s.e>>), "PTR_STORE", 0), "POP", 0)

CompileCompound(c, P, s) ==
  CompileAssign(c, P, [s EXCEPT !.e = [k |-> "bin", op |-> s.op, r |-> s.e,
                                       l |-> [k |-> "var", name |-> s.name]]])

CompileError(c, P, s) ==
  Emit(Emit(Emit(CompileExprs(c, P, s.es), "COMP_ERROR", Len(s.es)), "NIL", 0), "POP", 0)

CompileStmt(c, P, s) ==
  LET noted == [c EXCEPT !.plan = @ \union {<<Here(c), Len(c.locals) + c.held>>}]
  IN  IF c.failed THEN c ELSE
      CASE s.k = "decl" -> CompileDecl(noted, P, s)
        [] s.k = "assign" -> CompileAssign(noted, P, s)
        [] s.k = "compound" -> CompileCompound(noted, P, s)
        [] s.k = "store" -> CompileStore(noted, P, s)
        [] s.k = "expr" -> CompileExprStmt(noted, P, s)
        [] s.k = "error" -> CompileError(noted, P, s)
        [] s.k = "if" -> CompileIf(noted, P, s)
        [] s.k = "while" -> CompileWhile(noted, P, s)
        [] s.k = "range" -> CompileRange(noted, P, s)
        [] s.k = "array" -> CompileArray(noted, P, s)
        [] s.k = "switch" -> CompileSwitch(noted, P, s)
        [] s.k = "block" -> Compile(noted, P, Inside(s.body))
        [] s.k = "return" -> CompileReturn(noted, P, s)
        [] s.k = "break" -> CompileLeave(noted, P, "breaks")
        [] s.k = "continue" -> CompileLeave(noted, P, "continues")
        [] s.k = "goto" -> CompileGoto(noted, P, s)
        [] s.k = "label" -> CompileLabel(noted, s)
        [] s.k = "defer" -> CompileDefer(noted, s)
        [] s.k = "bind" -> CompileBind(noted, P, s)
        [] s.k = "scope" -> CompileScoped(c, P, s.body)

Compile(c, P, x) ==
  IF x.k \in {"int", "var", "addr", "deref", "bin", "and", "or", "list", "native", "call"}
  THEN CompileExpr(c, P, x) ELSE CompileStmt(c, P, x)

-----------------------------------------------------------------------------
(***************************************************************************)
(* A whole program: the functions reachable from the entry, each compiled  *)
(* once, in the order of their first calls; then the calls are patched.    *)
(***************************************************************************)
CompileFunction(c, P, fn) ==
  LET params == P[fn].params
      box(d, i) == IF StmtsTakeAddr(P[fn].body, params[i].name) THEN BoxValue(d, i) ELSE d
      start(d) == FoldLeft(box, [NewFunction(d, params) EXCEPT !.body = P[fn].body],
                           [i \in DOMAIN params |-> i])
      end(d) == Emit(Require(d, d.gotos = <<>>), "HALT", 0)
  IN  end(Compile(start([c EXCEPT !.entry = Append(@, Here(c))]), P, Inside(P[fn].body)))

RECURSIVE CompileWork(_, _, _)
CompileWork(c, P, head) ==
  IF head > Len(c.fns) \/ c.failed THEN c
  ELSE CompileWork(CompileFunction(c, P, c.fns[head]), P, head + 1)

CompileProgram(P, main) ==
  LET place(d, fn) == d.entry[SelectInSeq(d.fns, LAMBDA f : f = fn)]
      patch(d, at) == Patch(d, at, <<place(d, d.code[at][2][1]), d.code[at][2][2]>>)
      end(c) == IF c.failed \/ P[main].params # <<>> THEN Fail(c) ELSE FoldLeft(patch, c, c.pending)
  IN  end(CompileWork([NewProgram EXCEPT !.fns = <<main>>], P, 1))
=============================================================================
