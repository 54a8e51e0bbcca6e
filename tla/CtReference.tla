---------------------------- MODULE CtReference -----------------------------
(***************************************************************************)
(* What a program run at compile time means: an evaluator over the syntax, *)
(* with lexical scopes and deferred statements that run when their scope   *)
(* is left, the last one first.  It models no code; the bytecode and the   *)
(* machine that runs it are compared with it.                              *)
(*                                                                         *)
(* The state r: env binds names to places of store; tape is what read()    *)
(* will give, out what emit() was given; sig is "next" or the way control  *)
(* is leaving a statement, with its label or values; defers are the        *)
(* statements deferred in the current scope, each with its environment;    *)
(* exit is the environment where control left.                             *)
(*                                                                         *)
(* odd collects the situations in which the code is known to differ or the *)
(* language leaves the outcome open:                                       *)
(*   "unset"    a variable is read whose declaration was jumped over       *)
(*   "capture"  a deferred statement uses a name that an inner scope, left *)
(*              by the same exit, has declared again                       *)
(*   "held"     values are returned while a deferred statement with local  *)
(*              variables of its own runs                                  *)
(*   "skipped"  a jump within a scope skips or repeats a defer             *)
(***************************************************************************)
EXTENDS CtCompile

Start(tape, fuel) ==
  [env |-> <<>>, store |-> <<>>, tape |-> tape, out |-> <<>>, v |-> <<"nil">>,
   sig |-> "next", label |-> "", ret |-> <<>>, defers |-> <<>>, exit |-> <<>>,
   odd |-> {}, fuel |-> fuel]

Going(r) == r.sig = "next"
Odd(r, why) == [r EXCEPT !.odd = @ \union {why}]
Unset == <<"unset">>

Bind(r, name, v) ==
  [r EXCEPT !.store = Append(@, v), !.env = Append(@, [name |-> name, at |-> Len(r.store) + 1])]

Binding(env, name) ==
  LET i == SelectLastInSeq(env, LAMBDA b : b.name = name) IN IF i = 0 THEN 0 ELSE env[i].at

Truthy(v) == CASE v[1] = "nil" -> FALSE [] v[1] = "bool" -> v[2] [] v[1] = "int" -> v[2] # 0
               [] OTHER -> TRUE

Apply(op, l, r) ==
  CASE op = "ADD" -> <<"int", l[2] + r[2]>>
    [] op = "LT" -> <<"bool", l[2] < r[2]>>
    [] op = "LE" -> <<"bool", l[2] <= r[2]>>
    [] op = "EQ" -> <<"bool", l = r>>

\* The names a statement mentions, and whether it has variables of its own.
RECURSIVE NamesIn(_), Declares(_)
Kids(s) == FlattenSeq(InnerBodies(s))
RECURSIVE ExprNames(_)
ExprNames(e) ==
  CASE e.k \in {"var", "addr"} -> {e.name}
    [] e.k = "deref" -> ExprNames(e.e)
    [] e.k \in {"bin", "and", "or"} -> ExprNames(e.l) \union ExprNames(e.r)
    [] e.k \in {"call", "native"} -> UNION {ExprNames(e.args[i].value) : i \in DOMAIN e.args}
    [] e.k = "list" -> UNION {ExprNames(e.items[i]) : i \in DOMAIN e.items}
    [] OTHER -> {}
NamesIn(s) ==
  UNION {NamesIn(Kids(s)[i]) : i \in DOMAIN Kids(s)} \union
  (CASE s.k \in {"assign", "compound"} -> {s.name} \union ExprNames(s.e)
     [] s.k \in {"decl", "expr", "if", "while", "array", "switch", "bind"} -> ExprNames(s.e)
     [] s.k = "store" -> ExprNames(s.p) \union ExprNames(s.e)
     [] s.k = "range" -> ExprNames(s.lo) \union ExprNames(s.hi)
     [] s.k = "defer" -> NamesIn(s.s)
     [] s.k \in {"return", "error"} -> UNION {ExprNames(s.es[i]) : i \in DOMAIN s.es}
     [] OTHER -> {})
Declares(s) == \/ s.k \in {"decl", "bind", "range", "array", "switch"}
               \/ \E i \in DOMAIN Kids(s) : Declares(Kids(s)[i])

\* The names declared by the first n statements of a body.
DeclaredBy(body, n) ==
  FlattenSeq([i \in 1..n |-> CASE body[i].k = "decl" -> <<body[i].name>>
                               [] body[i].k = "bind" -> body[i].names
                               [] OTHER -> <<>>])
DefersBy(body, n) == Cardinality({i \in 1..n : body[i].k = "defer"})

-----------------------------------------------------------------------------
\* What an expression, a statement or a block does to r.
RECURSIVE Run(_, _, _)

\* The values of es, in r.v as a sequence.
EvalAll(r, P, es) ==
  FoldLeft(LAMBDA acc, e : IF ~Going(acc) THEN acc
                           ELSE LET n == Run(acc, P, e) IN [n EXCEPT !.v = Append(acc.v, n.v)],
           [r EXCEPT !.v = <<>>], es)

\* A call: r.v becomes the sequence of the values returned.
Call(r, P, e) ==
  LET params == P[e.fn].params
      enter(d) == FoldLeft(LAMBDA x, i : Bind(x, params[i].name, d.v[i]),
                           [d EXCEPT !.env = <<>>, !.fuel = @ - 1], [i \in DOMAIN params |-> i])
      back(d) == [d EXCEPT !.env = r.env, !.defers = r.defers, !.exit = r.exit,
                           !.sig = IF @ = "return" THEN "next" ELSE @,
                           !.ret = IF d.sig = "return" THEN r.ret ELSE @,
                           !.v   = CASE d.sig = "return" -> d.ret
                                     [] d.sig = "next" -> <<<<"nil">>>>
                                     [] OTHER -> @]
      run(args) == IF ~Going(args) THEN args
                   ELSE IF r.fuel = 0 THEN [r EXCEPT !.sig = "fuel"]
                   ELSE back(Run(enter(args), P, Inside(P[e.fn].body)))
  IN  run(EvalAll(r, P, ResolveArgs(params, e.args)[1]))

Native(r, fn, args) ==
  CASE fn = "read" -> IF r.tape = <<>> THEN [r EXCEPT !.v = <<"int", 0>>]
                      ELSE [r EXCEPT !.v = <<"int", Head(r.tape)>>, !.tape = Tail(@)]
    [] fn = "emit" -> [r EXCEPT !.out = @ \o args, !.v = <<"int", 0>>]

Load(r, at) ==
  IF r.store[at] = Unset THEN Odd([r EXCEPT !.v = <<"nil">>], "unset")
  ELSE [r EXCEPT !.v = r.store[at]]

Eval(r, P, e) ==
  IF ~Going(r) THEN r ELSE
  CASE e.k = "int" -> [r EXCEPT !.v = <<"int", e.v>>]
    [] e.k = "var" -> Load(r, Binding(r.env, e.name))
    [] e.k = "addr" -> [r EXCEPT !.v = <<"ptr", Binding(r.env, e.name)>>]
    [] e.k = "deref" -> LET p == Run(r, P, e.e) IN IF Going(p) THEN Load(p, p.v[2]) ELSE p
    [] e.k = "bin" ->
         LET two == EvalAll(r, P, <<e.l, e.r>>)
         IN  IF ~Going(two) THEN two
             ELSE IF \E i \in 1..2 : two.v[i][1] = "nil" THEN Odd([two EXCEPT !.sig = "stop"], "unset")
             ELSE [two EXCEPT !.v = Apply(e.op, two.v[1], two.v[2])]
    [] e.k = "and" ->
         LET l == Run(r, P, e.l)
         IN  IF Going(l) /\ Truthy(l.v) THEN Run(l, P, e.r) ELSE [l EXCEPT !.v = <<"bool", FALSE>>]
    [] e.k = "or" ->
         LET l == Run(r, P, e.l)
         IN  IF Going(l) /\ ~Truthy(l.v) THEN Run(l, P, e.r) ELSE [l EXCEPT !.v = <<"bool", TRUE>>]
    [] e.k = "list" -> LET all == EvalAll(r, P, e.items) IN [all EXCEPT !.v = <<"list", all.v>>]
    [] e.k = "native" ->
         LET all == EvalAll(r, P, [i \in DOMAIN e.args |-> e.args[i].value])
         IN  IF Going(all) THEN Native(all, e.fn, all.v) ELSE all
    [] e.k = "call" -> LET c == Call(r, P, e) IN IF Going(c) THEN [c EXCEPT !.v = c.v[1]] ELSE c

Assign(r, at) == [r EXCEPT !.store[at] = r.v]

\* Arriving at a label: the variables declared before it exist, those whose
\* declaration was jumped over without a value.
Arrive(r, body, j, n) ==
  LET names == DeclaredBy(body, j)
      kept  == SubSeq(r.env, 1, IF Len(r.env) < n + Len(names) THEN Len(r.env) ELSE n + Len(names))
      bound == FoldLeft(LAMBDA d, i : Bind(d, names[i], Unset), [r EXCEPT !.env = kept, !.sig = "next"],
                        [i \in 1..(n + Len(names) - Len(kept)) |-> Len(kept) - n + i])
  IN  IF Len(r.defers) = DefersBy(body, j) THEN bound ELSE Odd(bound, "skipped")

RECURSIVE RunFrom(_, _, _, _, _)
RunFrom(r, P, body, i, n) ==
  IF r.sig = "goto" /\ HoldsLabel(body, r.label)
  THEN LET j == SelectInSeq(body, LAMBDA s : s.k = "label" /\ s.label = r.label)
       IN  IF r.fuel = 0 THEN [r EXCEPT !.sig = "fuel"]
           ELSE RunFrom([Arrive(r, body, j, n) EXCEPT !.fuel = @ - 1], P, body, j + 1, n)
  ELSE IF ~Going(r) \/ i > Len(body) THEN r
  ELSE RunFrom(Run(r, P, body[i]), P, body, i + 1, n)

RunDeferred(r, P, d) ==
  LET why == (IF \E x \in NamesIn(d.s) : Binding(r.exit, x) # Binding(d.env, x)
              THEN {"capture"} ELSE {}) \union
             (IF r.sig = "return" /\ r.ret # <<>> /\ Declares(d.s) THEN {"held"} ELSE {})
      back(ran) == IF ~Going(ran) THEN ran
                   ELSE [ran EXCEPT !.sig = r.sig, !.env = r.env, !.exit = r.exit,
                                    !.label = r.label, !.ret = r.ret]
  IN  IF r.sig \in {"stop", "fuel"} THEN r
      ELSE back(Run([r EXCEPT !.sig = "next", !.env = d.env, !.odd = @ \union why], P, d.s))

\* A scope: its statements, then what they deferred.
Block(r, P, body) ==
  LET deferred(d) == FoldLeft(LAMBDA x, s : RunDeferred(x, P, s),
                              [d EXCEPT !.exit = IF Going(d) THEN d.env ELSE @], Reverse(d.defers))
      end(d) == [d EXCEPT !.env = r.env, !.defers = r.defers]
  IN  end(deferred(RunFrom([r EXCEPT !.defers = <<>>], P, body, 1, Len(r.env))))

\* The condition of a loop in r.v, and what happens before it is asked again.
\* The variable of a for is at a place of its own, the index into a list one
\* place before it.
Test(r, P, s, at) ==
  CASE s.k = "while" -> Run(r, P, s.e)
    [] s.k = "range" -> LET h == Run(r, P, s.hi)
                        IN  [h EXCEPT !.v = Apply(IF s.incl THEN "LE" ELSE "LT", h.store[at], h.v)]
    [] s.k = "array" -> LET i == r.store[at - 1][2]
                            list == r.store[at - 2][2]
                        IN  [r EXCEPT !.v = <<"bool", i <= Len(list)>>,
                                      !.store[at] = IF i <= Len(list) THEN list[i] ELSE @]

Step(r, s, at) ==
  LET counter == IF s.k = "array" THEN at - 1 ELSE at
  IN  IF s.k = "while" THEN r ELSE [r EXCEPT !.store[counter] = <<"int", @[2] + 1>>]

RECURSIVE Iterate(_, _, _, _)
Iterate(r, P, s, at) ==
  LET after(b) ==
        IF b.sig = "break" THEN [b EXCEPT !.sig = "next"]
        ELSE IF b.sig \in {"next", "continue"}
             THEN Iterate(Step([b EXCEPT !.sig = "next", !.fuel = @ - 1], s, at), P, s, at)
        ELSE b
      tested(c) == IF ~Going(c) \/ ~Truthy(c.v) THEN c
                   ELSE IF r.fuel = 0 THEN [r EXCEPT !.sig = "fuel"]
                   ELSE after(Run(c, P, Inside(s.body)))
  IN  IF ~Going(r) THEN r ELSE tested(Test(r, P, s, at))

Matching(v, cases) ==
  LET hit == SelectInSeq(cases, LAMBDA k : \E i \in DOMAIN k.values : <<"int", k.values[i].v>> = v)
      any == SelectInSeq(cases, LAMBDA k : k.values = <<>>)
  IN  IF hit # 0 THEN cases[hit].body ELSE IF any # 0 THEN cases[any].body ELSE <<>>

Leave(r, sig) == [r EXCEPT !.sig = sig, !.exit = r.env]

Exec(r, P, s) ==
  IF ~Going(r) THEN r ELSE
  CASE s.k = "decl" ->
         LET e == IF s.e.k = "none" THEN [r EXCEPT !.v = <<"int", 0>>] ELSE Run(r, P, s.e)
         IN  IF Going(e) THEN Bind(e, s.name, e.v) ELSE e
    [] s.k = "assign" ->
         LET e == Run(r, P, s.e) IN IF Going(e) THEN Assign(e, Binding(e.env, s.name)) ELSE e
    [] s.k = "compound" ->
         Run(r, P, [k |-> "assign", name |-> s.name,
                     e |-> [k |-> "bin", op |-> s.op, l |-> [k |-> "var", name |-> s.name], r |-> s.e]])
    [] s.k = "store" ->
         LET two == EvalAll(r, P, <<s.p, s.e>>)
         IN  IF Going(two) THEN Assign([two EXCEPT !.v = two.v[2]], two.v[1][2]) ELSE two
    [] s.k = "expr" -> IF s.e.k = "call" THEN Call(r, P, s.e) ELSE Run(r, P, s.e)
    [] s.k = "error" ->
         LET all == EvalAll(r, P, s.es)
         IN  IF Going(all) THEN [all EXCEPT !.sig = "stop", !.ret = all.v] ELSE all
    [] s.k = "if" ->
         LET c == Run(r, P, s.e)
         IN  IF ~Going(c) THEN c ELSE Run(c, P, Inside(IF Truthy(c.v) THEN s.body ELSE s.else))
    [] s.k = "while" -> Iterate(r, P, s, 0)
    [] s.k = "range" ->
         LET lo == Run(r, P, s.lo)
             it == Bind(lo, s.name, lo.v)
         IN  [Iterate(it, P, s, Len(it.store)) EXCEPT !.env = r.env]
    [] s.k = "array" ->
         LET l  == Run(r, P, s.e)
             it == Bind(Bind(Bind(l, "$list", l.v), "$index", <<"int", 1>>), s.name, <<"nil">>)
         IN  [Iterate(it, P, s, Len(it.store)) EXCEPT !.env = r.env]
    [] s.k = "switch" ->
         LET c == Run(r, P, s.e) IN IF Going(c) THEN Run(c, P, Inside(Matching(c.v, s.cases))) ELSE c
    [] s.k = "block" -> Run(r, P, Inside(s.body))
    [] s.k = "scope" -> Block(r, P, s.body)
    [] s.k = "return" ->
         LET all == EvalAll(r, P, s.es)
         IN  IF Going(all) THEN Leave([all EXCEPT !.ret = all.v], "return") ELSE all
    [] s.k \in {"break", "continue"} -> Leave(r, s.k)
    [] s.k = "goto" -> Leave([r EXCEPT !.label = s.label], "goto")
    [] s.k = "label" -> r
    [] s.k = "defer" -> [r EXCEPT !.defers = Append(@, [s |-> s.s, env |-> r.env])]
    [] s.k = "bind" ->
         LET c == Call(r, P, s.e)
         IN  IF ~Going(c) THEN c
             ELSE FoldLeft(LAMBDA d, i : Bind(d, s.names[i], c.v[i]), c, [i \in DOMAIN s.names |-> i])

Run(r, P, x) ==
  IF x.k \in {"int", "var", "addr", "deref", "bin", "and", "or", "list", "native", "call"}
  THEN Eval(r, P, x) ELSE Exec(r, P, x)

Reference(P, main, tape, fuel) == Run(Start(tape, fuel), P, Inside(P[main].body))
=============================================================================
