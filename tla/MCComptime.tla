----------------------------- MODULE MCComptime -----------------------------
(***************************************************************************)
(* The programs the run of Comptime goes through.  main calls f, which has *)
(* a parameter p without default and q with one, and does with its values  *)
(* what their number calls for.  Conditions are read from the tape, so one *)
(* program takes all its paths.                                            *)
(***************************************************************************)
EXTENDS Comptime

Num(n) == [k |-> "int", v |-> n]
Var(x) == [k |-> "var", name |-> x]
Addr(x) == [k |-> "addr", name |-> x]
Deref(e) == [k |-> "deref", e |-> e]
Bin(op, l, r) == [k |-> "bin", op |-> op, l |-> l, r |-> r]
Logic(k, l, r) == [k |-> k, l |-> l, r |-> r]
List(es) == [k |-> "list", items |-> es]
None == [k |-> "none"]
Plain(e) == [name |-> "", value |-> e]
Named(x, e) == [name |-> x, value |-> e]
Read == [k |-> "native", fn |-> "read", args |-> <<>>]
CallF(args) == [k |-> "call", fn |-> "f", args |-> args]

Do(e) == [k |-> "expr", e |-> e]
Out(e) == Do([k |-> "native", fn |-> "emit", args |-> <<Plain(e)>>])
Decl(x, e) == [k |-> "decl", name |-> x, e |-> e]
Set(x, e) == [k |-> "assign", name |-> x, e |-> e]
Add(x, n) == [k |-> "compound", name |-> x, op |-> "ADD", e |-> Num(n)]
Store(p, e) == [k |-> "store", p |-> p, e |-> e]
IfElse(e, b, d) == [k |-> "if", e |-> e, body |-> b, else |-> d]
When(b) == IfElse(Read, b, <<>>)
While(b) == [k |-> "while", e |-> Read, body |-> b]
For(x, lo, hi, incl, b) ==
  [k |-> "range", name |-> x, lo |-> Num(lo), hi |-> Num(hi), incl |-> incl, body |-> b]
Each(x, es, b) == [k |-> "array", name |-> x, e |-> List(es), body |-> b]
Case(vs, b) == [values |-> [i \in DOMAIN vs |-> Num(vs[i])], body |-> b]
Switch(cs) == [k |-> "switch", e |-> Read, cases |-> cs]
Scope(b) == [k |-> "block", body |-> b]
Ret(es) == [k |-> "return", es |-> es]
Break == [k |-> "break"]
Continue == [k |-> "continue"]
Goto(l) == [k |-> "goto", label |-> l]
Label(l) == [k |-> "label", label |-> l]
Defer(s) == [k |-> "defer", s |-> s]
Error(es) == [k |-> "error", es |-> es]

-----------------------------------------------------------------------------
Fn(rets, body) ==
  [params |-> <<[name |-> "p", def |-> None], [name |-> "q", def |-> Num(2)]>>,
   rets |-> rets, body |-> body]

Args == <<Plain(Num(1))>>
CallsOf(rets) ==
  CASE rets = 0 -> <<Do(CallF(Args)), Out(Num(9))>>
    [] rets = 1 -> <<Out(CallF(Args)), Ret(<<Num(9)>>)>>
    [] rets = 2 -> <<[k |-> "bind", names |-> <<"a", "b">>, e |-> CallF(Args)],
                     Out(Var("a")), Out(Var("b"))>>
Main(rets) == [params |-> <<>>, rets |-> IF rets = 1 THEN 1 ELSE 0, body |-> CallsOf(rets)]

Program(rets, body) == [fn \in {"main", "f"} |-> IF fn = "main" THEN Main(rets) ELSE Fn(rets, body)]

\* Two values for a function that returns two, one for one that returns one.
Back(rets, x) == CASE rets = 0 -> Ret(<<>>) [] rets = 1 -> Ret(<<Var(x)>>)
                   [] rets = 2 -> Ret(<<Var(x), Var("q")>>)

\* Ways out of a loop or a scope, and statements that do not leave it.
Ways == {Break, Continue, Goto("L"), Back(1, "x")}
Steps == {Out(Var("x")), Add("x", 1), Decl("y", Read), Decl("x", Num(5)), Defer(Out(Var("x"))),
          Scope(<<Decl("z", Num(6)), Defer(Out(Var("z")))>>)}

\* Loops of every kind, left in every way from a scope with variables and
\* deferred statements; the label is behind the loop.
LoopsOver(b) == {While(b), For("i", 0, 1, TRUE, b), Each("i", <<Num(3), Num(4)>>, b)}
Inner(w) ==
  {Decl("z", Num(7)), Defer(Out(Num(8))), Add("q", 1),
   For("j", 1, 2, FALSE, <<Decl("z", Var("x")), When(<<Back(1, "z")>>)>>),
   While(<<Defer(Out(Num(7))), When(<<w>>)>>)}
Loops == UNION {UNION {LoopsOver(<<s, When(<<t, w>>), Out(Var("q"))>>) : t \in Inner(w)} :
                  s \in Steps, w \in Ways}
LoopPrograms ==
  {Program(1, <<Decl("x", Var("p")), d, l, Decl("u", Num(0)), Label("L"), Out(Var("q")),
                Back(1, "x")>>) :
     d \in {Defer(Out(Var("q"))), Defer(Scope(<<Out(Var("x")), Add("q", 3)>>))}, l \in Loops}

\* Jumps to and fro within a scope and out of it, over declarations and defers.
Jumps ==
  {Program(1, <<Decl("x", Num(1)), a, Label("L"), b, c, Label("M"), Out(Var("x")), Back(1, "p")>>) :
     a \in {When(<<Goto("M")>>), Decl("y", Num(3)), Defer(Add("x", 4))},
     b \in {Decl("v", Var("x")), Add("x", 1), Defer(Out(Var("x")))},
     c \in {When(<<Goto("L")>>), When(<<Decl("w", Num(2)), Defer(Out(Var("w"))), Goto("L")>>),
            Scope(<<Decl("w", Num(2)), When(<<Goto("M")>>), Label("N"), When(<<Goto("N")>>)>>),
            Switch(<<Case(<<0>>, <<Goto("M")>>), Case(<<1>>, <<Decl("w", Num(2)), Goto("L")>>)>>)}}

\* Variables whose address is taken, a parameter among them.
Pointers ==
  {Program(r, <<Decl("x", e), Decl("y", Addr(x)), Store(Var("y"), Num(4)), s,
                Out(Deref(Var("y"))), Out(Var(x)), Back(r, x)>>) :
     r \in {1, 2}, e \in {Num(3), None}, x \in {"x", "p"},
     s \in {Add("x", 1), Set("p", Deref(Var("y"))), Defer(Out(Var("x"))),
            While(<<Decl("x", None), Out(Var("x")), Add("x", 2), Out(Var("x"))>>),
            Switch(<<Case(<<0, 1>>, <<Decl("z", Num(5)), Store(Var("y"), Var("z"))>>),
                     Case(<<>>, <<Defer(Add("x", 6))>>)>>)}}

\* Calls: arguments by name and by default, values dropped and bound, recursion.
Calls ==
  {Program(r, <<IfElse(c, <<s>>, <<Out(Var("q"))>>), Defer(d), Back(r, "p")>>) :
     r \in 0..2,
     c \in {Logic("and", Read, Read), Logic("or", Read, Read), Bin("LT", Read, Var("p")),
            Bin("EQ", Read, Var("q"))},
     s \in {Do(CallF(<<Named("q", Num(5)), Named("p", Read)>>)),
            Do(CallF(<<Plain(Var("q")), Plain(Var("p"))>>)),
            Do(CallF(<<Named("q", Read), Plain(Num(1))>>)),
            Scope(<<Defer(Out(Var("p"))), Error(<<Var("p"), Var("q")>>)>>)},
     d \in {Out(Var("p")), When(<<Add("p", 1)>>), While(<<Decl("z", Read), Out(Var("z"))>>)}}

MCPrograms == LoopPrograms \union Jumps \union Pointers \union Calls
MCTapes == UNION {[1..n -> {0, 1}] : n \in {3}}
MCLimit == [locals |-> 9, scopes |-> 6, defers |-> 3, loops |-> 2, patches |-> 3, labels |-> 3,
            gotos |-> 3, fns |-> 2, pending |-> 3]
=============================================================================
