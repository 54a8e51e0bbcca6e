------------------------------ MODULE MCParser ------------------------------
(***************************************************************************)
(* Programs for the parser.  Text and tree of a program are built side by  *)
(* side: a phrase is its words w, the node n it stands for and how tightly *)
(* it binds.  A phrase puts parentheses around a part of it only when that *)
(* binds too loosely, so that a parse which comes back with the tree has   *)
(* read every operator at its place.                                       *)
(*                                                                         *)
(* Some of the programs are then damaged: a word is lost, or another word  *)
(* stands in its place.                                                    *)
(***************************************************************************)
EXTENDS Parser

MCNames      == {"a", "b", "f", "g", "h", "T", "P", "x", "any", "m", "Q"}
MCPrimitives == {"i32"}
MCLiterals   == {"1", "2"}
MCStrings    == {"'m'"}

Phrase(w, n, tight) == [w |-> w, n |-> n, tight |-> tight]

Commaed(phrases) ==
  FoldLeft(LAMBDA w, ph : IF w = <<>> THEN ph.w ELSE w \o <<",">> \o ph.w, <<>>, phrases)
Joined(phrases) == FoldLeft(LAMBDA w, ph : w \o ph.w, <<>>, phrases)
Nodes(phrases)  == [i \in DOMAIN phrases |-> phrases[i].n]

(* How tightly an operator binds, from 1 on; casts, postfix #as, prefix    *)
(* operators and what stands behind an operand bind tighter still.         *)
Loosest == <<{"||", "or"}, {"&&", "and"}, {"==", "!="}, {"<", ">", "<=", ">="}, {"|"}, {"^"}, {"&"},
             {"<<", ">>"}, {"+", "-"}, {"*", "/", "%"}>>
TightOf(op) == CHOOSE i \in DOMAIN Loosest : op \in Loosest[i]
CastTight   == 11
AsTight     == 12
PrefixTight == 13
OperandTight == 14

In(ph, tight) == IF ph.tight < tight THEN <<"(">> \o ph.w \o <<")">> ELSE ph.w

----------------------------------------------------------------------------
(* Types and expressions. *)

Id(t)    == Phrase(<<t>>, Node("ident", <<Word(t)>>), OperandTight)
Lit(t)   == Phrase(<<t>>, Node("lit", <<Word(t)>>), OperandTight)
TName(t) == Phrase(<<t>>, Node("named", <<Word(t)>>), OperandTight)
TPtr(ty) == Phrase(<<"*">> \o ty.w, Node("ptr", <<ty.n>>), OperandTight)
TGen(t)  == Phrase(<<"$", t>>, Node("generic", <<Word(t)>>), OperandTight)
TInst(t, args) == Phrase(<<t, "(">> \o Commaed(args) \o <<")">>,
                         Node("named", <<Word(t), Node("types", Nodes(args))>>), OperandTight)
TArray(e, ty) == Phrase(<<"[">> \o e.w \o <<"]">> \o ty.w, Node("array", <<e.n, ty.n>>), OperandTight)
TFn(ty)  == Phrase(<<"fn", "(", "a", ":">> \o ty.w \o <<")", "->">> \o ty.w,
                   Node("fntype", <<Word("a"), ty.n, Node("rets", <<ty.n, Word("->")>>)>>), OperandTight)

Types == LET i32 == TName("i32") IN
         {i32, TName("T"), TPtr(i32), TGen("T"), TInst("P", <<i32, TName("T")>>), TArray(Lit("2"), i32), TFn(i32),
          TInst("P", <<TPtr(TGen("T"))>>),
          Phrase(<<"m", ".", "P">>, Node("named", <<Word("m"), Word("P")>>), OperandTight),
          Phrase(<<"[", "]", "i32">>, Node("array", <<i32.n>>), OperandTight),
          Phrase(<<"$", "T", "(", "!", "i32", ",", "P", ")">>,
                 Node("generic", <<Word("T"), Word("!"), i32.n, TName("P").n>>), OperandTight)}

Bin(op, l, r) == Phrase(In(l, TightOf(op)) \o <<op>> \o In(r, TightOf(op) + 1),
                        Node("binary", <<l.n, Word(OpName(op)), r.n>>), TightOf(op))
Un(op, e)   == Phrase(<<op>> \o In(e, PrefixTight), Node("unary", <<Word(OpName(op)), e.n>>), PrefixTight)
CastTo(ty, e) == Phrase(<<"cast", "(">> \o ty.w \o <<")">> \o In(e, CastTight),
                        Node("cast", <<ty.n, e.n>>), CastTight)
AsOf(e, ty) == Phrase(In(e, AsTight) \o <<"#as">> \o ty.w, Node("as", <<e.n, ty.n>>), AsTight)

Arg(ph) == [ph EXCEPT !.n = Node("arg", <<@>>)]
Labeled(t, sign, kind, ph) == Phrase(<<t, sign>> \o ph.w, Node(kind, <<Word(t), ph.n>>), 0)
Args(phrases) == [i \in DOMAIN phrases |-> Arg(phrases[i])]
Init_(ph)     == [ph EXCEPT !.n = Node("init", <<@>>)]

Call(e, args) == Phrase(In(e, OperandTight) \o <<"(">> \o Commaed(args) \o <<")">>,
                        Node("call", <<e.n>> \o Nodes(args)), OperandTight)
Index(e, i)   == Phrase(In(e, OperandTight) \o <<"[">> \o i.w \o <<"]">>, Node("index", <<e.n, i.n>>), OperandTight)
Dot(e, t)     == Phrase(In(e, OperandTight) \o <<".", t>>, Node("field", <<e.n, Word(t)>>), OperandTight)
Struct(t, inits) == Phrase(<<t, "{">> \o Commaed(inits) \o <<"}">>,
                           Node("struct", <<Word(t)>> \o Nodes(inits)), OperandTight)
StructOf(t, types, inits) ==
  Phrase(<<t, "(">> \o Commaed(types) \o <<")", "{">> \o Commaed(inits) \o <<"}">>,
         Node("struct", <<Word(t), Node("types", Nodes(types))>> \o Nodes(inits)), OperandTight)
Anonymous(inits) == Phrase(<<".", "{">> \o Commaed(inits) \o <<"}">>, Node("struct", <<Word("")>> \o Nodes(inits)),
                           OperandTight)
List(es)      == Phrase(<<"[">> \o Commaed(es) \o <<"]">>, Node("list", Nodes(es)), OperandTight)
Of(t, ph)     == Phrase(<<t, "(">> \o ph.w \o <<")">>, Node(t, <<ph.n>>), OperandTight)

(* One phrase of each kind. *)
Kinds(l, r, ty) ==
  {l, Lit("1"), Un("-", l), Un("*", l), Un("not", l), Bin("+", l, r), Bin("<", l, r), Bin("or", l, r), Bin("*", l, r),
   CastTo(ty, l), AsOf(l, ty), Call(l, Args(<<r>>)), Call(l, <<Labeled("a", "=", "arg", r), Arg(l)>>),
   Index(l, r), Dot(l, "x"), Struct("P", <<Labeled("a", "=", "init", l), Init_(r)>>), Struct("P", <<>>),
   StructOf("P", <<ty>>, <<Labeled("a", ":", "init", l)>>), Anonymous(<<Init_(l)>>), List(<<l, r>>),
   Phrase(TArray(l, ty).w, Node("array new", <<TArray(l, ty).n>>), PrefixTight)}

Operators == {Of("sizeof", TPtr(TName("i32"))), Of("sizeof", Id("a")), Of("sizeof", TName("i32")),
              Of("sizeof", TGen("T")), Of("sizeof", Bin("+", Id("a"), Lit("1"))), Of("type_info", Dot(Id("a"), "x")),
             Of("align_of", TArray(Lit("2"), TName("T"))), Of("kind", Id("a")), Of("fields", Id("a")),
             Phrase(<<"type_of", "(", "a", ")">>, Node("typeof", <<Id("a").n>>), OperandTight),
             Phrase(<<"str_from_raw", "(", "a", ",", "1", ")">>, Node("str_from_raw", <<Id("a").n, Lit("1").n>>),
                    OperandTight),
             Phrase(<<"(", "a", "+", "...", ")">>, Node("fold", <<Word("a"), Word("+")>>), OperandTight),
             Phrase(<<".", "x">>, Node("field", <<Word("."), Word("x")>>), OperandTight),
             Phrase(<<"#comp_error", "(", "a", ")">>, Node("#comp_error", <<Id("a").n>>), OperandTight),
             Call(Id("f"), <<Phrase(<<"a", "...">>, Node("arg", <<Id("a").n, Word("...")>>), 0)>>)}

Binary == UNION {Loosest[i] : i \in DOMAIN Loosest}
OfEach == {CHOOSE op \in Loosest[i] : TRUE : i \in DOMAIN Loosest}
a == Id("a")
b == Id("b")
i32 == TName("i32")

Flat == Kinds(a, b, i32) \cup Operators

Expressions ==
  Flat \cup UNION {Kinds(e, b, TName("T")) \cup Kinds(b, e, i32) : e \in Flat}
       \cup {Bin(op, Bin(op2, a, b), Lit("1")) : op \in Binary, op2 \in OfEach}
       \cup {Bin(op, a, Bin(op2, b, Lit("1"))) : op \in Binary, op2 \in OfEach}
       \cup {CastTo(ty, a) : ty \in Types} \cup {AsOf(a, ty) : ty \in Types}

----------------------------------------------------------------------------
(* Statements. *)

Stmt(w, k, c)  == [w |-> w, n |-> Node(k, c)]
BodyOf(stmts)  == [w |-> <<"{">> \o Joined(stmts) \o <<"}">>, n |-> Node("body", Nodes(stmts))]
One(stmt)      == [w |-> <<"then">> \o stmt.w, n |-> Node("body", <<stmt.n>>)]

(* In a condition a literal stands in parentheses.                         *)
InCond(e) == IF \E i \in DOMAIN e.w : e.w[i] = "{" THEN <<"(">> \o e.w \o <<")">> ELSE e.w

Do_(e)          == Stmt(e.w \o <<";">>, "do", <<e.n>>)
Return(es)      == Stmt(<<"return">> \o Commaed(es) \o <<";">>, "return", Nodes(es))
Assign(l, op, r) == Stmt(l.w \o <<op>> \o r.w \o <<";">>, "do", <<l.n, Word(op), r.n>>)
Declared(t, e)  == Stmt(<<t, ":=">> \o e.w \o <<";">>, "decl", <<Word(t), Word(":="), e.n>>)
TypedAs(t, ty, e) == Stmt(<<t, ":">> \o ty.w \o <<"=">> \o e.w \o <<";">>, "decl",
                          <<Word(t), ty.n, Node("default", <<e.n>>)>>)
If(k, c, then)  == Stmt(<<k>> \o InCond(c) \o then.w, k, <<c.n, then.n>>)
IfElse(k, c, then, else, other) ==
  Stmt(<<k>> \o InCond(c) \o then.w \o <<else>> \o other.w, k, <<c.n, then.n, other.n>>)
CaseOf(e, body) == Stmt(<<"case">> \o InCond(e) \o body.w, "case", <<e.n, body.n>>)
Otherwise(body) == Stmt(<<"default", ":">> \o body.w, "case", <<Node("body", <<body.n>>)>>)
Switch(e, cases) == Stmt(<<"if">> \o InCond(e) \o <<"{", ";">> \o Joined(cases) \o <<"}">>, "if",
                         <<e.n, Word("switch")>> \o Nodes(cases))
For(k, t, c, body) == Stmt(<<k, t, ":">> \o InCond(c) \o body.w, k, <<Word(t), c.n, body.n>>)
ForRange(t, c, sign, d, body) ==
  Stmt(<<"for", t, ":">> \o InCond(c) \o <<sign>> \o InCond(d) \o body.w, "for",
       <<Word(t), c.n, Word(sign), d.n, body.n>>)
While(c, body)  == Stmt(<<"while">> \o InCond(c) \o body.w, "while", <<c.n, body.n>>)
WhileRange(t, c, d, body) ==
  Stmt(<<"while", t, ":=">> \o InCond(c) \o <<"..">> \o InCond(d) \o body.w, "while",
       <<Word(t), c.n, Word(".."), d.n, body.n>>)

Leaf == Do_(Call(Id("f"), <<>>))

Statements(e, s0) ==
  LET body == BodyOf(<<s0, Do_(Call(Id("g"), <<>>))>>) IN
  {Do_(Call(Id("f"), Args(<<e>>))), Return(<<e>>), Return(<<a, e>>), Return(<<>>), Assign(a, "=", e), Assign(Dot(a, "x"), "+=", e),
   Assign(Un("*", a), "<<=", e), Declared("x", e), TypedAs("x", TArray(Lit("2"), i32), e),
   Stmt(<<"x", ":", "i32", ";">>, "decl", <<Word("x"), i32.n>>),
   Stmt(<<"x", "::", "#comptime">> \o e.w \o <<";">>, "decl", <<Word("x"), Word("::"), Word("#comptime"), e.n>>),
   Stmt(<<"x", ":", "i32", ":">> \o e.w \o <<";">>, "decl", <<Word("x"), i32.n, Word(":"), e.n>>),
   Stmt(<<"a", "++", ";">>, "do", <<a.n, Word("+="), Word("one")>>),
   Stmt(<<"a", ",", "b", "=">> \o e.w \o <<",", "b", ";">>, "multi", <<Word("a"), Word("b"), Word("="), e.n, b.n>>),
   Stmt(<<"a", "...", ";">>, "do", <<a.n, Word("...")>>),
   If("if", e, body), If("if", e, One(s0)), IfElse("if", e, body, "else", body),
   IfElse("if", e, One(Leaf), "else", One(Leaf)), IfElse("if", e, body, "else", If("if", a, body)),
   IfElse("#if", e, body, "#else", [If("if", a, body) EXCEPT !.n.k = "#if"]),
   Switch(e, <<CaseOf(e, body), Otherwise(s0)>>), For("for", "x", e, body), ForRange("x", a, "..=", e, body),
   For("#for", "x", e, body), While(e, body), WhileRange("x", e, a, body),
   Stmt(<<"defer">> \o s0.w, "defer", <<IF s0.n.k = "block" THEN s0.n.c[1] ELSE s0.n>>), Stmt(<<"defer">> \o body.w, "defer", <<body.n>>),
   Stmt(body.w, "block", <<body.n>>), Stmt(<<"#comptime">> \o body.w, "#comptime", <<body.n>>),
   Stmt(<<"label", "a", ":", ";">>, "label", <<Word("a")>>), Stmt(<<"goto", "a", ";">>, "goto", <<Word("a")>>),
   Stmt(<<"break", ";">>, "break", <<>>),
   Stmt(<<"#asm", "{", "a", "{", ";", "}", "1", "}">>, "asm", <<Word("a"), Word("{"), Word(";"), Word("}"), Word("1")>>)}

----------------------------------------------------------------------------
(* Declarations: the tree that stays at its place, and the functions that  *)
(* go to the end of the file.                                              *)

Decl(w, n)     == [w |-> w, tops |-> <<n>>, nested |-> <<>>, methods |-> <<>>]
GenericsOf(ts) == Node("generics", [i \in DOMAIN ts |-> Word(ts[i])])
Rets(tys)      == Node("rets", Nodes(tys) \o <<Word("->")>>)
NoRets         == Node("rets", <<>>)
Param(t, ty)   == [w |-> <<t, ":">> \o ty.w, n |-> Node("param", <<Word(t), ty.n>>)]
ParamOr(t, e)  == [w |-> <<t, ":=">> \o e.w, n |-> Node("param", <<Word(t), Node("default", <<e.n>>)>>)]
Pack(t)        == [w |-> <<t, ":", "any", "...">>, n |-> Node("param", <<Word(t), TName("any").n, Word("pack")>>)]
Params(ps)     == Node("params", Nodes(ps))

FnWords(t, ps, body) == <<"fn", t, "(">> \o Commaed(ps) \o <<")">> \o body.w
FnNode(t, gs, ps, body) == Node("fn", <<Word(t), GenericsOf(gs), Params(ps), NoRets, body.n>>)
Fn(t, ps, body) == Decl(FnWords(t, ps, body), FnNode(t, <<>>, ps, body))
Method_(t, type, ps, body) ==       \* of a type without parameters
  FnNode(type \o "__" \o t, <<>>, ps, body)

Const(t, e)  == Decl(<<t, "::">> \o e.w \o <<";">>, Node("const", <<Word(t), e.n>>))
Pub(d)       == [d EXCEPT !.w = <<"pub">> \o @, !.tops = <<Node("pub", <<@[1]>>)>>]

Empty  == BodyOf(<<>>)
Plain_ == BodyOf(<<Return(<<a>>)>>)
Mark(t) == [w |-> <<>>, n |-> Node("nested", <<Word(t)>>)]

(* f around g around h, and an implementation of T with a function in it.  *)
Nesting ==
  LET h == FnWords("h", <<>>, Empty)
      g == <<"fn", "g", "(", ")", "{">> \o h \o <<"}">>
  IN  [w |-> <<"fn", "f", "(", ")", "{">> \o g \o Return(<<a>>).w \o <<"}">>,
       tops |-> <<FnNode("f", <<>>, <<>>, [n |-> Node("body", <<Mark("f$g").n, Return(<<a>>).n>>)])>>,
       nested |-> <<FnNode("f$g$h", <<>>, <<>>, Empty),
                    FnNode("f$g", <<>>, <<>>, [n |-> Node("body", <<Mark("f$g$h").n>>)])>>,
       methods |-> <<>>]

Implementation_(id) ==
  [w |-> <<"x", "::", "T", "(", "i32", ")", "{">> \o FnWords("g", <<>>, Plain_) \o Declared("a", b).w \o <<"}", ";">>,
   tops |-> <<Node("const", <<Word("x"), Node("traitimpl",
     <<Word("T"), Node("types", <<i32.n>>),
       Node("body", <<Mark("T$i32$" \o ToString(id) \o "$g").n, Declared("a", b).n>>)>>)>>)>>,
   nested |-> <<FnNode("T$i32$" \o ToString(id) \o "$g", <<>>, <<>>, Plain_)>>,
   methods |-> <<>>]

Impl ==
  [w |-> <<"impl", "P", "{">> \o FnWords("g", <<Param("self", TPtr(TName("Self")))>>, Plain_) \o <<"}">>,
   tops |-> <<>>, nested |-> <<>>,
   methods |-> <<Method_("g", "P", <<Param("self", TPtr(TName("P")))>>, Plain_)>>]

StructP == Decl(<<"struct", "P", "{", "a", ":", "i32", ";", "}">>,
                Node("struct decl", <<Word("P"), GenericsOf(<<>>), Node("member", <<Word("a"), i32.n>>)>>))

GenericStruct ==
  Decl(<<"struct", "Q", "(", "$", "T", ")", "#pad", "{", "a", ":", "*", "$", "T", ";",
         "b", ":", "struct", "{", "x", ":", "$", "m", ";", "}", "}">>,
       Node("struct decl",
         <<Word("Q"), GenericsOf(<<"T", "m">>), Word("#pad"), Node("member", <<Word("a"), TPtr(TGen("T")).n>>),
           Node("member", <<Word("b"), Node("struct decl",
              <<GenericsOf(<<"m">>), Node("member", <<Word("x"), TGen("m").n>>)>>)>>)>>))

(* The impl of a generic type: its parameter goes with the name of the type. *)
GenericImpl ==
  LET self == TPtr(TInst("Q", <<TGen("T"), TGen("m")>>)) IN
  [w |-> GenericStruct.w \o <<"impl", "Q", "{">> \o FnWords("g", <<Param("self", TPtr(TName("Q"))), Param("x", TGen("h"))>>, Plain_)
           \o <<"}">>,
   tops |-> GenericStruct.tops, nested |-> <<>>,
   methods |-> <<FnNode("Q__g", <<"h", "T", "m">>, <<Param("self", self), Param("x", TGen("h"))>>, Plain_)>>]

Trait ==
  Decl(<<"trait", "T", "(", "$", "P", ")", "{", "self", "=", "i32", ";", "x", ":=", "$", "P", ";",
         "fn", "g", "(", "a", ":", "i32", ")", "->", "i32", ";", "}">>,
       Node("trait", <<Word("T"), GenericsOf(<<"P">>), Word("self"), i32.n, Word("alias"), Word("x"), Word("P"),
         Node("method", <<Word("g"), Params(<<Param("a", i32)>>), Rets(<<i32>>)>>)>>))

Declarations ==
  {Const("x", Bin("+", a, b)), Pub(Const("x", a)), Fn("f", <<>>, Plain_), Pub(Fn("f", <<Param("a", i32)>>, Empty)),
   Fn("f", <<Param("a", TPtr(i32)), ParamOr("b", Lit("1"))>>, Plain_), Fn("f", <<Param("a", i32), Pack("b")>>, Empty),
   Decl(<<"fn", "f", "(", "$", "T", ")", "(", "a", ":", "$", "P", ")", "->", "(", "i32", ",", "T", ")", "#comptime", "{", "}">>,
        Node("fn", <<Word("f"), GenericsOf(<<"T", "P">>), Params(<<Param("a", TGen("P"))>>), Rets(<<i32, TName("T")>>),
                     Word("#comptime"), Empty.n>>)),
   Decl(<<"fn", "f", "(", "a", ":", "i32", "=", "1", ")", ";">>,
        Node("fn", <<Word("f"), GenericsOf(<<>>),
                     Node("params", <<Node("param", <<Word("a"), i32.n, Node("default", <<Lit("1").n>>)>>)>>),
                     NoRets, Word("prototype")>>)),
   Decl(<<"where", "x", ":", "T", "(", "i32", ")">> \o FnWords("f", <<Param("a", i32)>>, Empty),
        FnNode("f", <<>>, <<Param("a", i32), Param("x", TInst("T", <<i32>>))>>, Empty)),
   StructP, GenericStruct, Trait,
   Decl(<<"enum", "T", ":", "i32", "{", "a", ";", "b", ":=", "1", ";", "}">>,
        Node("enum", <<Word("T"), i32.n, Node("variant", <<Word("a")>>), Node("variant", <<Word("b"), Lit("1").n>>)>>)),
   Decl(<<"enum_flag", "T", "{", "a", ",", "b", "}">>,
        Node("enum_flag", <<Word("T"), Node("variant", <<Word("a")>>), Node("variant", <<Word("b")>>)>>)),
   Decl(<<"union", "T", "{", "a", "(", "$", "P", ")", ";", "b", ";", "}">>,
        Node("union", <<Word("T"), GenericsOf(<<"P">>), Node("variant", <<Word("a"), TGen("P").n>>),
                        Node("variant", <<Word("b")>>)>>)),
   Decl(<<"using", "T", "*", "i32", ";">>, Node("alias", <<Word("T"), TPtr(i32).n>>)),
   Decl(<<"const", "x", "::", "#comptime", "a", ";">>, Node("const", <<Word("x"), Word("#comptime"), a.n>>)),
   Decl(<<"x", ":=", "a", ";">>, Node("global", <<Word("x"), a.n>>)),
   Decl(<<"x", ":", "i32", "=", "a", ";">>, Node("typed", <<Word("x"), i32.n, Node("default", <<a.n>>)>>)),
   Decl(<<"x", ":", "i32", ":", "a", ";">>, Node("typed", <<Word("x"), i32.n, Word(":"), a.n>>)),
   Decl(<<"extern", "fn", "f", "(", "a", ":", "i32", ",", "...", ")", "->", "noreturn", ";">>,
        Node("extern fn", <<Word("f"), Node("params", <<Param("a", i32).n, Word("...")>>), Rets(<<TName("noreturn")>>)>>)),
   Decl(<<"extern", "x", ":", "i32", ";">>, Node("extern", <<Word("x"), i32.n>>)),
   Decl(<<"#import", "'m'", "as", "m", ";">>, Node("import", <<Word("'m'"), Word("m")>>)),
   Nesting, Implementation_(1), GenericImpl}

----------------------------------------------------------------------------
(* Programs.  ends are the positions of the last words of the declarations; *)
(* hit is the position that was damaged, 0 when none was.                  *)

AllOf(ds, Part(_)) == FoldLeft(LAMBDA c, d : c \o Part(d), <<>>, ds)

Program(ds) ==
  [toks  |-> AllOf(ds, LAMBDA d : d.w),
   want  |-> AllOf(ds, LAMBDA d : d.tops) \o AllOf(ds, LAMBDA d : d.nested) \o AllOf(ds, LAMBDA d : d.methods),
   ends  |-> [i \in DOMAIN ds |-> Len(AllOf(SubSeq(ds, 1, i), LAMBDA d : d.w))],
   tops  |-> [i \in DOMAIN ds |-> ds[i].tops],
   hit   |-> 0]

FnWith(stmt) == Fn("f", <<>>, BodyOf(<<stmt, Return(<<b>>)>>))

Written ==
  {Program(<<Const("x", e)>>) : e \in Expressions}
  \cup {Program(<<FnWith(If("if", e, Plain_))>>) : e \in Flat \cup UNION {Kinds(b, e, i32) : e \in Flat}}
  \cup {Program(<<FnWith(st)>>) : st \in UNION {Statements(e, Leaf) : e \in Flat}}
  \cup {Program(<<FnWith(st)>>) : st \in UNION {Statements(a, s0) : s0 \in Statements(b, Leaf)}}
  \cup {Program(<<d, d2>>) : d \in Declarations, d2 \in Declarations \ {Implementation_(1)}}
  \cup {Program(<<Implementation_(1), Implementation_(2)>>)}
  \cup {Program(<<StructP, Impl, d>>) : d \in Declarations}

Lost(p, i)        == [p EXCEPT !.toks = RemoveAt(@, i), !.hit = i]
Replaced(p, i, t) == [p EXCEPT !.toks[i] = t, !.hit = i]

Damaged(p) ==
  {Lost(p, i) : i \in DOMAIN p.toks} \cup {Replaced(p, i, t) : i \in DOMAIN p.toks, t \in {";", "("}}

(* An implementation inside a literal: its errors are counted and not seen. *)
Hidden ==
  Decl(<<"x", "::", "P", "(", "i32", ")", "{", "T", "(", "i32", ")", "{">> \o Declared("a", b).w \o <<"}", "}", ";">>,
       Node("const", <<Word("x"), Node("struct", <<Word("P"), Node("types", <<i32.n>>), Node("init", <<Node("traitimpl",
         <<Word("T"), Node("types", <<i32.n>>), Node("body", <<Declared("a", b).n>>)>>)>>)>>)>>))

Hurt ==
  UNION {Damaged(Program(<<Const("x", a), d, Fn("h", <<>>, BodyOf(<<Return(<<Struct("P", <<>>)>>)>>))>>)) :
           d \in Declarations \cup {Hidden} \cup {FnWith(st) : st \in Statements(a, Leaf)}}

MCPrograms == Written \cup Hurt

----------------------------------------------------------------------------
(* What holds. *)

(* A program that is put together by the rules comes back as the tree it   *)
(* was made from, without an error: operators bind as tightly as they      *)
(* should, types are told from values and literals from bodies, and nested *)
(* functions and methods come last, each once and under its full name.     *)
TreesAsWritten ==
  stage = "done" /\ prog.hit = 0 => s.errors = 0 /\ s.skipped = 0 /\ decls = prog.want

(* An error in a file is reported, unless it is in a literal that was read *)
(* speculatively and kept; and where the parser passes over a part of a    *)
(* declaration or of a body, there is an error.                            *)
FailureIsTold ==
  stage = "done" => /\ s.errors > s.buried => s.told > 0
                    /\ s.skipped > 0 => s.errors > 0

Shift   == prog.ends[Len(prog.ends)] - Len(prog.toks)      \* a word may be lost
From(i) == IF i = 1 THEN 1 ELSE prog.ends[i - 1] + 1
Keeps(i) == \A j \in DOMAIN prog.tops[i] : \E l \in DOMAIN decls : decls[l] = prog.tops[i][j]
Balanced(w) == Cardinality({i \in DOMAIN w : w[i] = "{"}) = Cardinality({i \in DOMAIN w : w[i] = "}"})

(* Damage to one word of a declaration leaves the declarations before it   *)
(* as they were.  It leaves those after it, too, when they begin with a    *)
(* word that recovery looks for, as long as braces pair up and it is not   *)
(* the last word: there the next declaration is read as a part of this one *)
(* before the parser sees the damage.                                      *)
DamageIsLocal ==
  stage = "done" /\ prog.hit > 0 /\ s.errors < MaxErrors =>
    \A i \in DOMAIN prog.ends :
      /\ prog.ends[i] < prog.hit => Keeps(i)
      /\ /\ From(i) > prog.hit /\ prog.hit \notin ToSet(prog.ends)
         /\ Balanced(prog.toks)
         /\ prog.toks[From(i) - Shift] \in DeclWords
         => Keeps(i)
=============================================================================
