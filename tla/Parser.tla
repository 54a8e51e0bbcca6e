------------------------------- MODULE Parser -------------------------------
(***************************************************************************)
(* The parser, frontend/st_parser.c: recursive descent over the tokens of  *)
(* a file, with the speculative parses that tell a type from an expression *)
(* and a struct literal from the body of a trait implementation, and with  *)
(* recovery from errors.                                                   *)
(*                                                                         *)
(* The C functions that read tokens one after the other are given here as  *)
(* forms: the kind of node they make and the pieces they read, in order,   *)
(* chosen by the tokens ahead.  Do reads a piece, and gives up where the C *)
(* function returns NULL.                                                  *)
(*                                                                         *)
(* A token is its text; doc comments, which ST_parse drops first, are left *)
(* out.  A node is its kind and its children; a word is a node of its own  *)
(* text.  The state s of a parse is what ST_parser_t holds: the position,  *)
(* the errors counted and those printed (told), suppress_errors (hush),    *)
(* no_struct_lit (nolit), fn_name_stack (parents), nested_fns (nested),    *)
(* impl_methods (methods), next_trait_impl_id (impls), in_comptime_scope   *)
(* (ct).  ok is FALSE once the current function returns NULL, and kids are *)
(* the children its node has so far.  The code has no count of the tokens  *)
(* that a recovery passed over (skipped) and of the errors in literals     *)
(* that were read speculatively and kept (buried).                         *)
(*                                                                         *)
(* Left out: the 512 levels that expressions may nest, the warning about   *)
(* #as, lines and columns, and the numbers of blocks.                      *)
(***************************************************************************)
EXTENDS Integers, Sequences, SequencesExt, FiniteSets, FiniteSetsExt, TLC

CONSTANTS
  Programs,      \* the programs of the run, records with a field toks at least
  Names,         \* identifiers
  Primitives,    \* names of built-in types
  Literals,      \* numbers and characters
  Strings,       \* string literals
  MaxErrors      \* ST_PARSE_MAX_ERRORS

VARIABLES
  prog,          \* the program at work, an element of Programs
  s,             \* the state of the parser
  decls,         \* out->decls
  stage          \* "parse", "finish" or "done"

vars == <<prog, s, decls, stage>>

toks == prog.toks

(* Words that are identifiers to the lexer and mean more to the parser.    *)
ContextWords == {"then", "impl", "trait", "where", "self", "Self", "as", "align_of",
                 "str_from_raw", "kind", "cstr", "fields", "noreturn"}

IsName(t) == t \in Names \cup ContextWords

(* Directives are symbols that begin with '#'. *)
Directives == {"#asm", "#if", "#else", "#for", "#case", "#default", "#comptime", "#code",
               "#comp_error", "#as", "#fields", "#import", "#pad", "#pack", "#unknown"}

AssignOps == {"=", "+=", "-=", "*=", "/=", "%=", "&=", "|=", "^=", "<<=", ">>="}

(* The levels of binary operators, the loosest first.                      *)
Ops == [or |-> {"||", "or"}, and |-> {"&&", "and"}, equal |-> {"==", "!="},
        order |-> {"<=", ">=", "<", ">"}, bitor |-> {"|"}, bitxor |-> {"^"}, bitand |-> {"&"},
        shift |-> {"<<", ">>"}, sum |-> {"+", "-"}, product |-> {"*", "/", "%"}]

Tighter == [or |-> "and", and |-> "equal", equal |-> "order", order |-> "bitor",
            bitor |-> "bitxor", bitxor |-> "bitand", bitand |-> "shift", shift |-> "sum",
            sum |-> "product", product |-> "cast"]

FoldOps == UNION {Ops[l] : l \in DOMAIN Ops} \ {"or", "and"}

UnaryOps == {"-", "!", "not", "~", "*", "&"}

OpName(op) == CASE op = "or" -> "||" [] op = "and" -> "&&" [] op = "not" -> "!" [] OTHER -> op

----------------------------------------------------------------------------
(* Tokens and nodes. *)

Node(k, c) == [k |-> k, c |-> c]
Word(t)    == Node(t, <<>>)

Ahead(r, i) == IF r.pos + i <= Len(toks) THEN toks[r.pos + i] ELSE "end"
Tok(r)      == Ahead(r, 0)
At(r, t)    == Tok(r) = t
AtEnd(r)    == r.pos > Len(toks)
Skipped(r, n)  == [r EXCEPT !.pos = @ + n]
Kept(r, node)  == [r EXCEPT !.kids = Append(@, node)]

(* ST_perr_full: an error in a speculative parse is counted, not printed;  *)
(* the last one printed says that there will be no more.                   *)
Error(r) == [r EXCEPT !.errors = @ + 1,
                      !.told = IF r.hush = 0 /\ r.errors < MaxErrors THEN @ + 1 ELSE @]

Null(r) == [r EXCEPT !.ok = FALSE]
Fail(r) == Null(Error(r))

(* As a slip would have it: the errors of what was tried stay counted.     *)
BackWithErrors(r, tried) ==
  [r EXCEPT !.nested = tried.nested, !.impls = tried.impls, !.errors = tried.errors]

(* What a speculative parse leaves behind when it is taken back to r: the  *)
(* functions it met stay, and so do the numbers it gave out.               *)
Back(r, tried) == [r EXCEPT !.nested = tried.nested, !.impls = tried.impls]

(* How deep in braces the tokens from one position to another lead.        *)
Depth(from, to) ==
  FoldLeft(LAMBDA d, t : CASE t = "{" -> d + 1 [] t = "}" /\ d > 0 -> d - 1 [] OTHER -> d,
           0, SubSeq(toks, from, to))

(* The first position, from that of r on, whose token stops a search.      *)
FirstAt(r, Stop(_)) ==
  LET at == {p \in r.pos .. Len(toks) : Stop(p)}
  IN  IF at = {} THEN Len(toks) + 1 ELSE Min(at)

Resumed(r, p) == [r EXCEPT !.ok = TRUE, !.pos = p, !.skipped = @ + (p - r.pos)]

(* ST_sync_stmt: past the next ';', or to the '}' that ends the body.      *)
SyncStmt(r) ==
  LET p == FirstAt(r, LAMBDA q : toks[q] \in {";", "}"} /\ Depth(r.pos, q - 1) = 0)
  IN  Resumed(r, IF p <= Len(toks) /\ toks[p] = ";" THEN p + 1 ELSE p)

(* ST_sync_decl: to the next word that begins a declaration outside braces. *)
DeclWords == {"fn", "struct", "enum", "enum_flag", "union", "extern", "const", "pub"}
SyncDecl(r) ==
  Resumed(r, FirstAt(r, LAMBDA q : toks[q] \in DeclWords /\ Depth(r.pos, q - 1) = 0))

----------------------------------------------------------------------------
(* Pieces of a form. *)

Piece(do, x, a, b) == [do |-> do, x |-> x, a |-> a, b |-> b]

Sym(t)          == Piece("sym", t, <<>>, <<>>)         \* ST_expect_sym, ST_expect_semi
Name            == Piece("name", "", <<>>, <<>>)       \* ST_expect_ident, kept
NameOrNone      == Piece("name?", "", <<>>, <<>>)      \* the same, but NULL is looked at later
Skip            == Piece("skip", "", <<>>, <<>>)       \* the next token, whatever it is
Take            == Piece("take", "", <<>>, <<>>)       \* the next token, kept
Note(t)         == Piece("note", t, <<>>, <<>>)        \* a word that stands for no token
Rule(f)         == Piece("rule", f, <<>>, <<>>)        \* a node of the form f
Grow(f)         == Piece("grow", f, <<>>, <<>>)        \* the last node, as far as it goes on
IfAt(ts, a, b)  == Piece("if", ts, a, b)
Opt(ts, a)      == IfAt(ts, a, <<>>)
Until(t, a)     == Piece("until", t, a, <<>>)          \* up to t or the end of the file
Commas(a)       == Piece("commas", "", a, <<>>)        \* one or more, commas between
Items(t, seps, a) == Until(t, <<IfAt(seps, <<Skip>>, a)>>)   \* separators anywhere
NoLiteral(a)    == Piece("nolit", "", a, <<>>)         \* no_struct_lit goes up
InComptime(a)   == Piece("comptime", "", a, <<>>)
Within(a)       == Piece("within", "", a, <<>>)        \* the name read first is the parent's
Check(x)        == Piece("check", x, <<>>, <<>>)       \* an error unless it holds
Quietly(x)      == Piece("quietly", x, <<>>, <<>>)     \* NULL unless it holds
Failing         == Check("never")
Special(x)      == Piece("special", x, <<>>, <<>>)     \* an operator of its own
All(a)          == Piece("all", "", a, <<>>)

(* As a slip would have it: parentheses in a condition change nothing.     *)
InsideAlike(a)  == All(a)

Inside(a)       == Piece("inside", "", a, <<>>)        \* no_struct_lit is 0

Expr   == Rule("or")                                   \* ST_parse_expr
Type   == Rule("type")
Cond   == NoLiteral(<<Expr>>)                          \* ST_parse_cond
Semi   == Sym(";")
Braces(a)   == <<Sym("{")>> \o a \o <<Sym("}")>>
Body        == Braces(<<Rule("body")>>)
TypeList(t) == <<Items(t, {","}, <<Type>>), Sym(t)>>
Dots        == <<Skip, Opt({"."}, <<Skip>>)>>
ThenOr(a)   == IfAt({"then"}, <<Skip, Rule("one")>>, a)

(* A form without a kind adds to the node that is being read.              *)
Form(k, a) == [k |-> k, a |-> a]
Splice(a)  == Form("", a)
NoForm     == Splice(<<Failing>>)

IsNamed(node, t)  == node = Node("named", <<Word(t)>>)
Has(c, k)         == \E i \in DOMAIN c : c[i].k = k
KidOf(c, k)       == c[Min({i \in DOMAIN c : c[i].k = k})]
WordsOf(node)     == {node.c[i].k : i \in DOMAIN node.c}

(* ST_is_lvalue *)
IsLvalue(e) == \/ e.k \in {"ident", "traitimpl", "code", "field", "index"}
               \/ e.k = "unary" /\ e.c[1] = Word("*")

(* What a C function looks at between two reads.                           *)
Holds(x, r) ==
  LET c == r.kids IN
  CASE x = "never"    -> FALSE
    [] x = "noreturn alone" -> (\E i \in DOMAIN c : IsNamed(c[i], "noreturn")) => Len(c) = 1
    [] x = "some"     -> c # <<>>
    [] x = "lvalue"   -> IsLvalue(Last(c))
    [] x = "plain iterator" -> Len(c) = 2
    [] x = "packable" -> Last(c).k = "generic" \/ IsNamed(Last(c), "any")
    [] x = "defaults last" ->
         Has(Last(c).c, "default") \/ Has(Last(c).c, "pack")
           \/ \A i \in DOMAIN c : ~Has(c[i].c, "default")
    [] x = "a name"   -> c[1] # Word("")
    [] x = "returns"  -> Has(Last(c).c, "->")
    [] x = "one self" -> ~(At(r, "self") /\ Ahead(r, 1) = "=" /\ Has(c, "self"))
    [] x = "one alias" -> ~(IsName(Tok(r)) /\ Ahead(r, 1) = ":=" /\ Has(c, "alias"))
    [] x = "known generic" -> Last(c).k \in WordsOf(KidOf(c, "generics"))
    [] x = "string"   -> Tok(r) \in Strings
    [] x = "more"     -> ~AtEnd(r)
    [] x = "fn"       -> At(r, "fn")

----------------------------------------------------------------------------
(* Types. *)

TypeForm(r) ==
  LET t == Tok(r) IN
  CASE t = "type_of" -> Form("typeof", <<Skip, Sym("("), Expr, Sym(")")>>)
    [] t = "*" -> Form("ptr", <<Skip, Type>>)
    [] t = "[" -> Form("array", <<Skip, IfAt({".."}, <<Take>>, <<IfAt({"]"}, <<>>, <<Expr>>)>>),
                                  Sym("]"), Type>>)
    [] t = "fn" -> Form("fntype",
         <<Skip, Sym("("),
           Items(")", {","}, <<IfAt({"..", "..."}, Dots \o <<Note("...")>>,
                                    <<Name, Sym(":"), Type>>)>>),
           Sym(")"), Rule("rets")>>)
    [] t = "$" -> Form("generic",
         <<Skip, Name, Opt({"("}, <<Skip, Commas(<<Opt({"!"}, <<Take>>), Type>>), Sym(")")>>)>>)
    [] t \in Primitives \/ IsName(t) -> Form("named",
         (IF IsName(t) /\ Ahead(r, 1) = "." /\ IsName(Ahead(r, 2))
          THEN <<Take, Skip, Take>> ELSE <<Take>>)
         \o <<Opt({"("}, <<Rule("type arguments")>>)>>)
    [] OTHER -> NoForm

TypeArgsForm == Form("types", <<Skip>> \o TypeList(")") \o <<Check("some")>>)

ReturnsForm ==
  Form("rets", <<Opt({"->"}, <<Skip, IfAt({"("}, <<Skip>> \o TypeList(")"), <<Type>>),
                               Check("noreturn alone"), Note("->")>>)>>)

TypeStart(t) == t \in Primitives \cup {"*", "[", "$", "fn"} \/ IsName(t)

(* A name and nothing else, as far as sizeof can tell a type from a value. *)
IsTypeName(te) == te.k = "generic" \/ (te.k = "named" /\ ~Has(te.c, "types"))

----------------------------------------------------------------------------
(* Expressions. *)

(* A name before one of the marks; "=" is none when another "=" follows.   *)
Labelled(r, marks) == /\ IsName(Tok(r)) /\ Ahead(r, 1) \in marks
                      /\ ~(Ahead(r, 1) = "=" /\ Ahead(r, 2) = "=")

LabelOr(r, marks) == IF Labelled(r, marks) THEN <<Take, Skip>> ELSE <<>>

InitForm(r) == Form("init", LabelOr(r, {":", "="}) \o <<Expr>>)
ArgForm(r)  == Form("arg", LabelOr(r, {"="}) \o <<Expr, Opt({"..."}, <<Take>>)>>)

(* ST_parse_struct_lit *)
Inits == <<Items("}", {","}, <<Rule("init")>>), Sym("}")>>

(* Words that are operators before a parenthesis only.                     *)
Operator(r) == IF Ahead(r, 1) = "(" THEN Tok(r) ELSE "none"

BuiltinWords == {"sizeof", "type_info", "type_of", "#asm", "#code", "#comp_error"}

(* What is called like a function and is none.                             *)
BuiltinForm(r) ==
  LET t == Tok(r)
      arguments == IfAt({")"}, <<>>, <<Commas(<<Expr>>)>>)
  IN
  CASE t \in {"sizeof", "type_info", "align_of"} ->
         Form(t, <<Skip, Sym("("), Special("type or expr"), Sym(")")>>)
    [] t = "type_of"      -> Form("typeof", <<Skip, Sym("("), Expr, Sym(")")>>)
    [] t = "#asm"         -> Form("asm", <<Skip, Special("asm tokens")>>)
    [] t = "#code"        -> Form("code", <<Skip>>)
    [] t = "#comp_error"  -> Form(t, <<Skip, Sym("("), arguments, Sym(")")>>)
    [] t = "str_from_raw" -> Form(t, <<Skip, Skip, Expr, Sym(","), Expr, Sym(")")>>)
    [] t \in {"kind", "cstr"} -> Form(t, <<Skip, Skip, Expr, Sym(")")>>)
    [] OTHER              -> Form("fields", <<Skip, Skip, Expr, Sym(")")>>)

GroupForm(r) ==
  LET t == Tok(r) IN
  CASE t = "." /\ Ahead(r, 1) = "{" -> Form("struct", <<Note(""), Skip, Skip>> \o Inits)
    [] t = "." /\ IsName(Ahead(r, 1)) -> Form("field", <<Note("."), Skip, Take>>)
    [] t = "{" -> Form("struct", <<Note(""), Skip>> \o Inits)
    [] t = "(" /\ IsName(Ahead(r, 1)) /\ Ahead(r, 2) \in FoldOps /\ Ahead(r, 3) = "..."
              /\ Ahead(r, 4) = ")" -> Form("fold", <<Skip, Take, Take, Skip, Skip>>)
    [] t = "(" -> Splice(<<Skip, Inside(<<Expr>>), Sym(")")>>)
    [] OTHER -> NoForm

PrimaryForm(r) ==
  LET t == Tok(r) IN
  CASE t \in Literals \cup Strings \cup {"true", "false", "null"} -> Form("lit", <<Take>>)
    [] t \in BuiltinWords -> BuiltinForm(r)
    [] Operator(r) \in {"align_of", "str_from_raw", "kind", "cstr", "fields", "#fields"} -> BuiltinForm(r)
    [] t = "[" -> Splice(<<Special("bracket")>>)
    [] IsName(t) \/ t \in Primitives -> Splice(<<Special("name")>>)
    [] OTHER -> GroupForm(r)

BracketForm ==
  Form("list", <<Skip, IfAt({"]"}, <<>>, <<Commas(<<Expr>>)>>), Sym("]")>>)

UnaryForm(r) ==
  IF Tok(r) \in UnaryOps THEN Form("unary", <<Note(OpName(Tok(r))), Skip, Rule("unary")>>)
  ELSE Splice(<<Rule("primary"), Grow("postfix")>>)

CastForm(r) ==
  IF At(r, "cast") THEN Splice(<<Rule("cast to"), Grow("as")>>)
  ELSE Splice(<<Rule("unary"), Grow("as")>>)

CastToForm == Form("cast", <<Skip, Sym("("), Type, Sym(")"), Rule("cast")>>)

(* What the last node becomes the first child of; no form when it is whole. *)
GrowForm(f, r) ==
  LET t == Tok(r) IN
  CASE f = "postfix" /\ t = "." -> Form("field", <<Skip, Name>>)
    [] f = "postfix" /\ t = "(" ->
         Form("call", <<Skip, Inside(<<Items(")", {","}, <<Rule("arg")>>), Sym(")")>>)>>)
    [] f = "postfix" /\ t = "[" -> Form("index", <<Skip, Inside(<<Expr>>), Sym("]")>>)
    [] f = "as" /\ t = "#as" -> Form("as", <<Skip, Type>>)
    [] f \in DOMAIN Ops /\ t \in Ops[f] -> Form("binary", <<Note(OpName(t)), Skip, Rule(Tighter[f])>>)
    [] OTHER -> NoForm

Grows(f, r) == GrowForm(f, r).k # ""

----------------------------------------------------------------------------
(* Statements. *)

CaseWords    == {"case", "#case"}
DefaultWords == {"default", "#default"}

(* ST_parse_if_else; what an #if has behind it must look like it.          *)
ElsePieces(ct) ==
  <<Opt({"else", "#else"},
        <<IfAt({IF ct THEN "#else" ELSE "else"}, <<Skip>>, <<Failing>>),
          IfAt({"if"}, <<Rule(IF ct THEN "if in #if" ELSE "if")>>, <<ThenOr(Body)>>)>>)>>

CaseForm(r) ==
  Form("case", (IF Tok(r) \in CaseWords THEN <<Skip, Cond>> ELSE <<Skip>>)
               \o <<IfAt({":", "then"}, <<Skip, Rule("one")>>, Body)>>)

SwitchPieces ==
  <<Note("switch"),
    Until("}", <<IfAt({";"}, <<Skip>>,
                      <<IfAt(CaseWords \cup DefaultWords, <<Rule("case")>>, <<Special("resync")>>)>>)>>),
    Sym("}")>>

(* The block behind a condition is a switch when it starts with a case.    *)
AfterCond(r, ct) ==
  LET p == FirstAt(r, LAMBDA q : toks[q] # ";")
      first == IF p <= Len(toks) THEN toks[p] ELSE "end"
  IN  Splice(IF first \in CaseWords \cup DefaultWords THEN SwitchPieces
             ELSE <<Rule("body"), Sym("}")>> \o ElsePieces(ct))

IfForm(r, force) ==
  LET ct == force \/ At(r, "#if") IN
  Form(IF ct THEN "#if" ELSE "if",
       <<Skip, Cond,
         IfAt({"then"}, <<Skip, Rule("one")>> \o ElsePieces(ct),
                        <<Sym("{"), Rule(IF ct THEN "after #if" ELSE "after if")>>)>>)

Bounds == <<Take, Cond>>

ForForm(r) ==
  Form(Tok(r), <<Skip, Opt({"*"}, <<Take>>), Name, Opt({","}, <<Skip, Name>>), Sym(":"), Cond,
                 Opt({"..", "..="}, <<Check("plain iterator")>> \o Bounds)>> \o Body)

WhileForm(r) ==
  Form("while",
       <<Skip>> \o
       (IF IsName(Ahead(r, 1)) /\ Ahead(r, 2) \in {":=", ":"}
        THEN <<Take, IfAt({":="}, <<Skip>>, <<Skip, Type, Sym("=")>>),
               Cond, IfAt({"..", "..="}, Bounds, <<Failing>>)>>
        ELSE <<Cond, Opt({"..", "..="}, Bounds)>>)
       \o Body)

Value   == <<Opt({"#comptime"}, <<Take>>), Expr>>
Default == Rule("default")

(* A typed name, once its type is read: a constant, or a variable.         *)
DeclStmtForm(r) ==
  Form("decl",
       <<Take, IfAt({":="}, <<Take, Expr, Opt({"static"}, <<Take>>)>>,
               <<IfAt({"::"}, <<Take>> \o Value \o <<Opt({"static"}, <<Take>>)>>,
                 <<Skip, Type,
                   IfAt({":"}, <<Take>> \o Value,
                     <<Opt({":="}, <<Failing>>), Opt({"="}, <<Skip, Default>>)>>)>>)>>),
         Semi>>)

MultiForm ==
  Form("multi", <<Commas(<<Name>>), IfAt({":=", "::", "="}, <<Take>>, <<Failing>>),
                  Commas(<<Expr>>), Semi>>)

(* A list of names and then a sign that binds.                             *)
IsMulti(r) ==
  LET stop == FirstAt(r, LAMBDA q : IF (q - r.pos) % 2 = 0 THEN ~IsName(toks[q]) ELSE toks[q] # ",")
  IN  /\ (stop - r.pos) % 2 = 1 /\ stop <= Len(toks) /\ toks[stop] \in {":=", "::", "="}
      /\ ~(toks[stop] = "=" /\ stop < Len(toks) /\ toks[stop + 1] = "=")

ExprStmtForm ==
  Form("do", <<Expr,
               IfAt(AssignOps, <<Check("lvalue"), Take, Expr>>,
                 <<IfAt({"++"}, <<Check("lvalue"), Skip, Note("+="), Note("one")>>,
                     <<IfAt({"--"}, <<Check("lvalue"), Skip, Note("-="), Note("one")>>,
                         <<Opt({"..."}, <<Take>>)>>)>>)>>),
               Semi>>)

ReturnForm == Form("return", <<Skip, IfAt({";"}, <<>>, <<Commas(<<Expr>>)>>), Semi>>)
DeferForm  == Form("defer", <<Skip, IfAt({"{"}, Body, <<Rule("stmt")>>)>>)
LabelForm(t) == Form(t, <<Skip, Name, Opt({x \in {":"} : t = "label"}, <<Skip>>), Semi>>)

StmtForm(r) ==
  LET t == Tok(r) IN
  CASE t = "end" -> Splice(<<Quietly("never")>>)
    [] t = ";" -> Splice(<<Skip, Rule("stmt")>>)
    [] t = "#asm" -> Form("asm", <<Skip, Special("asm tokens")>>)
    [] t = "#comptime" -> Form(t, <<Skip>> \o Braces(<<InComptime(<<Rule("body")>>)>>))
    [] t \in Directives \ {"#as", "#if", "#comp_error", "#for", "#asm", "#comptime"} -> NoForm
    [] t = "return" -> ReturnForm
    [] t \in {"if", "#if"} -> IfForm(r, FALSE)
    [] t \in {"for", "#for"} -> ForForm(r)
    [] t = "while" -> WhileForm(r)
    [] t = "defer" -> DeferForm
    [] t \in {"break", "continue"} -> Form(t, <<Skip, Semi>>)
    [] t \in {"label", "goto"} -> LabelForm(t)
    [] t = "{" -> Form("block", Body)
    [] IsName(t) /\ (Ahead(r, 1) \in {":=", "::"} \/ (Ahead(r, 1) = ":" /\ Ahead(r, 2) # "=")) ->
         DeclStmtForm(r)
    [] IsName(t) /\ Ahead(r, 1) = "," /\ IsMulti(r) -> MultiForm
    [] OTHER -> ExprStmtForm

OneForm     == Form("body", <<Rule("stmt")>>)
DefaultForm == Form("default", <<Expr>>)

----------------------------------------------------------------------------
(* Functions and declarations. *)

After == IfAt({",", ")", "end"}, <<>>, <<Failing>>)

(* A parameter; a pack ends the list.                                      *)
ParamForm(r, extern) ==
  Form("param",
       <<Name>> \o
       (IF Ahead(r, 1) \in {"::", ":"}
        THEN <<IfAt({"::"}, <<Take>>, <<Skip>>), Type, Opt({":="}, <<Failing>>),
               IfAt({"..", "..."},
                    Dots \o (IF extern THEN <<Failing>> ELSE <<Check("packable"), Note("pack")>>)
                         \o <<IfAt({")"}, <<>>, <<Failing>>)>>,
                    <<Opt({"="}, <<Skip, Default>>)>>)>>
        ELSE <<IfAt({":="}, <<Skip, Default>>, <<Failing>>)>>))

SigForm(extern) ==
  Splice(<<Sym("("), Rule(IF extern THEN "extern params" ELSE "params"), Sym(")"), Rule("rets"),
           Opt({"#comptime"}, IF extern THEN <<Failing>> ELSE <<Take>>)>>)

ParamsForm(extern) ==
  Form("params",
       <<Items(")", {","},
          <<IfAt({"..", "..."}, Dots \o (IF extern THEN <<Note("...")>> ELSE <<Failing>>),
             <<Opt({"using"}, <<Failing>>),
               Rule(IF extern THEN "extern param" ELSE "param"), Check("defaults last"), After>>)>>)>>)

(* ST_parse_generic_list *)
GenericsForm(r) ==
  Form("generics",
       IF At(r, "(") /\ Ahead(r, 1) = "$"
       THEN <<Skip, Items(")", {","}, <<Sym("$"), Name>>), Sym(")")>> ELSE <<>>)

(* ST_parse_fn_decl *)
FnForm ==
  Form("fn", <<Skip, NameOrNone, Rule("generics"), Quietly("a name"), Special("mangle"),
               Rule("sig"), Special("collect"),
               IfAt({";"}, <<Skip, Note("prototype")>>, Braces(<<Within(<<Rule("body")>>)>>))>>)

(* ST_parse_struct_fields and the rest of a struct.                        *)
StructPieces ==
  <<Rule("generics"), Opt({"#pad", "#pack"}, <<Take>>),
    Sym("{"), Items("}", {";"}, <<Rule("field")>>), Sym("}"), Special("collect")>>

FieldForm ==
  Form("member", <<Name, Sym(":"), IfAt({"struct"}, <<Skip, Rule("anonymous struct")>>, <<Type, Semi>>)>>)

EnumForm(r) ==
  Form(Tok(r), <<Skip, Name>>
               \o (IF Ahead(r, 2) = ":" /\ Ahead(r, 3) # "{" THEN <<Sym(":"), Type>> ELSE <<>>)
               \o Braces(<<Items("}", {",", ";"}, <<Rule("enum variant")>>)>>))

EnumVariantForm ==
  Form("variant", <<Name, Opt({"="}, <<Failing>>), Opt({":="}, <<Skip, Expr>>)>>)

UnionForm ==
  Form("union", <<Skip, Name, Rule("generics")>>
                \o Braces(<<Items("}", {",", ";"}, <<Rule("union variant")>>)>>)
                \o <<Special("collect")>>)

UnionVariantForm ==
  Form("variant", <<Name, Opt({":"}, <<Failing>>), Opt({"("}, <<Skip, Type, Sym(")")>>)>>)

(* ST_parse_trait_decl: the type it is for, a name for it, and methods.    *)
TraitForm ==
  Form("trait", <<Skip, Name, Rule("generics")>>
                \o Braces(<<Items("}", {";"}, <<Check("one self"), Check("one alias"),
                                                Rule("trait member")>>)>>))

MemberForm(r) ==
  CASE At(r, "self") /\ Ahead(r, 1) = "=" -> Splice(<<Take, Skip, Special("type or error"), Semi>>)
    [] IsName(Tok(r)) /\ Ahead(r, 1) = ":=" ->
         Splice(<<Note("alias"), Take, Skip, Sym("$"), Name, Check("known generic"), Semi>>)
    [] At(r, "fn") -> Splice(<<Rule("trait method")>>)
    [] OTHER -> NoForm

TraitMethodForm == Form("method", <<Skip, Name, Rule("sig"), Check("returns"), Semi>>)

(* ST_parse_impl_block: its methods wait for the end of the file.          *)
ImplForm ==
  Form("impl", <<Skip, Name, Rule("generics")>>
               \o Braces(<<Until("}", <<IfAt({"pub"}, <<Skip>>, <<>>),
                                        IfAt({"fn"}, <<Rule("fn"), Special("method")>>, <<Failing>>)>>)>>))

WhereForm == Form("where", <<Skip, Name, Sym(":"), Name, Rule("trait arguments")>>)

ConstForm(skipped) == Form("const", skipped \o Value \o <<Semi>>)

TypedForm == Form("typed", <<Take, Skip, Type,
                             IfAt({":"}, <<Take>> \o Value, <<Opt({"="}, <<Skip, Default>>)>>), Semi>>)

ExternForm(r) ==
  IF Ahead(r, 1) = "fn"
  THEN Form("extern fn", <<Skip, Skip, Name, Rule("extern sig"), Check("returns"), Semi>>)
  ELSE Form("extern", <<Skip, Name, Sym(":"), Type, Semi>>)

ImportForm ==
  Form("import", <<Skip, Check("string"), Take, Opt({"as", "using"}, <<Skip, Name>>), Semi>>)

(* ST_parse_top_decl behind "pub".                                         *)
DeclForm(r) ==
  LET t == Tok(r)
      t2 == Ahead(r, 1)
  IN
  CASE t = "where" -> Splice(<<Rule("where"), Check("more"), Rule("where or fn"), Special("witness")>>)
    [] t = "struct" -> Form("struct decl", <<Skip, Name>> \o StructPieces)
    [] t \in {"enum", "enum_flag"} -> EnumForm(r)
    [] t = "union" -> UnionForm
    [] t = "impl" /\ IsName(t2) -> ImplForm
    [] t = "using" /\ IsName(t2) -> Form("alias", <<Skip, Name, Type, Semi>>)
    [] t = "trait" /\ IsName(t2) -> TraitForm
    [] t = "const" -> ConstForm(<<Skip, Name, Sym("::")>>)
    [] IsName(t) /\ t2 = "::" -> ConstForm(<<Take, Skip>>)
    [] IsName(t) /\ t2 = ":=" -> Form("global", <<Take, Skip, Expr, Semi>>)
    [] IsName(t) /\ t2 = ":" -> TypedForm
    [] t = "extern" -> ExternForm(r)
    [] t = "fn" -> FnForm
    [] t = "#import" -> ImportForm
    [] OTHER -> NoForm

WhereOrFnForm(r) ==
  IF At(r, "where") THEN DeclForm(r) ELSE Splice(<<Check("fn"), Rule("fn")>>)

TopForm(r) ==
  IF At(r, "pub") THEN Form("pub", <<Skip, Check("more"), Rule("declaration")>>)
  ELSE Splice(<<Rule("declaration")>>)

FormOf(rule, r) ==
  CASE rule = "type"             -> TypeForm(r)
    [] rule = "type arguments"   -> TypeArgsForm
    [] rule = "trait arguments"  -> Form("types", <<Sym("(")>> \o TypeList(")"))
    [] rule = "rets"             -> ReturnsForm
    [] rule \in DOMAIN Ops       -> Splice(<<Rule(Tighter[rule]), Grow(rule)>>)
    [] rule = "cast"             -> CastForm(r)
    [] rule = "cast to"          -> CastToForm
    [] rule = "unary"            -> UnaryForm(r)
    [] rule = "primary"          -> PrimaryForm(r)
    [] rule = "init"             -> InitForm(r)
    [] rule = "arg"              -> ArgForm(r)
    [] rule = "bracket"          -> BracketForm
    [] rule = "stmt"             -> StmtForm(r)
    [] rule = "body"             -> Form("body", <<Special("body")>>)
    [] rule = "one"              -> OneForm
    [] rule = "default"          -> DefaultForm
    [] rule = "case"             -> CaseForm(r)
    [] rule = "if"               -> IfForm(r, FALSE)
    [] rule = "if in #if"        -> IfForm(r, TRUE)
    [] rule = "after if"         -> AfterCond(r, FALSE)
    [] rule = "after #if"        -> AfterCond(r, TRUE)
    [] rule = "fn"               -> FnForm
    [] rule = "generics"         -> GenericsForm(r)
    [] rule = "sig"              -> SigForm(FALSE)
    [] rule = "extern sig"       -> SigForm(TRUE)
    [] rule = "params"           -> ParamsForm(FALSE)
    [] rule = "extern params"    -> ParamsForm(TRUE)
    [] rule = "param"            -> ParamForm(r, FALSE)
    [] rule = "extern param"     -> ParamForm(r, TRUE)
    [] rule = "field"            -> FieldForm
    [] rule = "anonymous struct" -> Form("struct decl", StructPieces)
    [] rule = "enum variant"     -> EnumVariantForm
    [] rule = "union variant"    -> UnionVariantForm
    [] rule = "trait member"     -> MemberForm(r)
    [] rule = "trait method"     -> TraitMethodForm
    [] rule = "where"            -> WhereForm
    [] rule = "where or fn"      -> WhereOrFnForm(r)
    [] rule = "declaration"      -> DeclForm(r)
    [] rule = "top"              -> TopForm(r)

----------------------------------------------------------------------------
(* Generic parameters. *)

Generics(names) == Node("generics", [i \in DOMAIN names |-> Word(names[i])])

(* The generic parameters that the types below a node name: those of       *)
(* constraints, of counts and of operands do not count.                    *)
RECURSIVE Named(_)
Named(node) ==
  IF node.k = "generic" THEN <<node.c[1].k>>
  ELSE IF node.k \in {"params", "param", "rets", "types", "named", "ptr", "array", "fntype",
                      "member", "struct decl", "variant"}
  THEN FoldLeft(LAMBDA names, kid : names \o Named(kid), <<>>, node.c)
  ELSE <<>>

(* ST_collect_generic_te for the children of a node: each name once.       *)
Collected(c) ==
  LET listed == KidOf(c, "generics")
      found  == FoldLeft(LAMBDA names, kid : names \o Named(kid), <<>>, c)
      all    == FoldLeft(LAMBDA names, n : IF n \in ToSet(names) THEN names ELSE Append(names, n),
                         [i \in DOMAIN listed.c |-> listed.c[i].k], found)
  IN  [i \in DOMAIN c |-> IF c[i].k = "generics" THEN Generics(all) ELSE c[i]]

----------------------------------------------------------------------------
(* Pieces that are more than a read.                                       *)

(* The node that the children of q make, added to those of r.              *)
Wrap(r, k, q) == [q EXCEPT !.kids = IF q.ok THEN Append(r.kids, Node(k, q.kids)) ELSE r.kids]

(* As a slip would have it: a failure returns before the count goes back.  *)
OutOfCondIfRead(r, q) == IF q.ok THEN [q EXCEPT !.nolit = r.nolit] ELSE q

(* What ends with the part it was set for, whether that was read or failed. *)
OutOfCond(r, q)     == [q EXCEPT !.nolit = r.nolit]
OutOfComptime(r, q) == [q EXCEPT !.ct = r.ct]
OutOfFn(r, q)       == [q EXCEPT !.parents = r.parents]

(* ST_try_type: q comes from reading a type at r without a word.           *)
Tried(r, q) ==
  IF q.ok /\ q.errors = r.errors THEN [q EXCEPT !.hush = r.hush, !.kids = r.kids \o q.kids]
  ELSE Null(Back(r, q))

(* The operand of sizeof is a type when nothing else is possible.          *)
IsTypeOperand(r, q) ==
  /\ q.ok /\ At(q, ")")
  /\ IsTypeName(Last(q.kids)) => Tok(r) \in Primitives \/ Last(q.kids).k = "generic"

(* ST_parse_asm_tokens *)
AsmTokens(r) ==
  LET from == r.pos + 1
      p    == FirstAt(Skipped(r, 1), LAMBDA q : toks[q] = "}" /\ Depth(from, q - 1) = 0)
  IN  IF ~At(r, "{") THEN Fail(r)
      ELSE IF p > Len(toks) THEN Fail([r EXCEPT !.pos = p])
      ELSE [r EXCEPT !.pos = p + 1,
                     !.kids = @ \o [i \in 1 .. p - from |-> Word(toks[from + i - 1])]]

(* The name of a nested function begins with that of the function around it. *)
Mangled(r) ==
  IF r.parents = <<>> THEN r
  ELSE [r EXCEPT !.kids[1] = Word(Last(r.parents) \o "$" \o @.k)]

(* ST_mangle_trait_impl_name *)
ImplName(trait, args, id) ==
  LET suffix == IF args[1].k = "generic" \/ IsTypeName(args[1]) THEN Last(args[1].c).k ELSE "anon"
  IN  trait \o "$" \o suffix \o "$" \o ToString(id)

(* A function in a body leaves a mark there and waits for the end of the   *)
(* file; one in a compile-time scope can be called from there only.        *)
Nest(r, q) ==
  LET fn == Last(q.kids) IN
  IF ~q.ok THEN [SyncStmt(q) EXCEPT !.kids = r.kids]
  ELSE [q EXCEPT !.nested = Append(@, IF r.ct THEN Node("#comptime", <<fn>>) ELSE fn),
                 !.kids = Append(r.kids, Node("nested", <<fn.c[1]>>))]

Recovered(r, q) == IF q.ok THEN q ELSE [SyncStmt(q) EXCEPT !.kids = r.kids]

(* A literal stays although there are errors in it, which nobody has seen. *)
Buried(q, lit) ==
  [lit EXCEPT !.buried = IF lit.hush = 0 THEN @ + (lit.errors - q.errors) ELSE @]

Methods(r) ==
  [r EXCEPT !.methods = Append(@, [fn |-> Last(r.kids), type |-> r.kids[1].k,
                                   generics |-> KidOf(r.kids, "generics")]),
            !.kids = Front(r.kids)]

(* A where clause is a parameter at the end.                               *)
Witnessed(c) ==
  LET fn     == Last(c)
      clause == SelectSeq(c, LAMBDA n : n.k = "where")
      extra  == [i \in DOMAIN clause |->
                   Node("param", <<clause[i].c[1], Node("named", <<clause[i].c[2], clause[i].c[3]>>)>>)]
  IN  SelectSeq(Front(c), LAMBDA n : n.k # "where")
      \o <<Node(fn.k, [i \in DOMAIN fn.c |->
             IF fn.c[i].k = "params" THEN Node("params", fn.c[i].c \o extra) ELSE fn.c[i]])>>

RECURSIVE Do(_, _)
Do(r, p) ==
  LET Then(q, next)   == IF q.ok THEN Do(q, next) ELSE q
      Made(q, form)   == IF form.k = "" THEN Do(q, All(form.a))
                         ELSE Wrap(q, form.k, Do([q EXCEPT !.kids = <<>>], All(form.a)))
      Grown(form)     == Wrap([r EXCEPT !.kids = Front(@)], form.k,
                              Do([r EXCEPT !.kids = <<Last(@)>>], All(form.a)))
      More(q)         == IF q.ok /\ At(q, ",") THEN Do(Skipped(q, 1), p) ELSE q
      TryType         == IF TypeStart(Tok(r))
                         THEN Tried(r, Do([r EXCEPT !.hush = @ + 1, !.kids = <<>>], Type)) ELSE Null(r)
      TypeOrElse(q)   == IF IsTypeOperand(r, q) THEN q ELSE Do(Back(r, q), Expr)
      TypeOrError(q)  == IF q.ok THEN q ELSE Fail(q)
      NewOrList(q)    == IF q.ok THEN [q EXCEPT !.kids = Append(r.kids, Node("array new", <<Last(@)>>))]
                         ELSE Made(Back(r, q), BracketForm)
      Ident(q)        == Kept(Skipped(Back(r, q), 1), Node("ident", <<Word(Tok(r))>>))
      \* name(types) { ... }: a literal if it reads as one, else an implementation of a trait
      Literal(q)      == Do([q EXCEPT !.pos = @ + 2, !.hush = r.hush + 1,
                                      !.kids = <<Word(Tok(r)), Node("types", @)>>], All(Inits))
      Implementation(q, lit) ==
        Wrap(r, "traitimpl", OutOfFn(r, Do(
          [q EXCEPT !.pos = @ + 2, !.hush = r.hush, !.impls = lit.impls + 1,
                    !.parents = Append(@, ImplName(Tok(r), q.kids, lit.impls + 1)),
                    !.kids = <<Word(Tok(r)), Node("types", @)>>],
          All(<<Rule("body"), Sym("}")>>))))
      LiteralOr(q, lit) == IF lit.ok THEN Buried(q, [Wrap(r, "struct", lit) EXCEPT !.hush = r.hush])
                           ELSE Implementation(q, lit)
      Generic(q)      == IF q.ok /\ q.kids # <<>> /\ At(q, ")") /\ Ahead(q, 1) = "{"
                         THEN LiteralOr(q, Literal(q)) ELSE Ident(q)
  IN
  CASE p.do = "all"     -> IF p.a = <<>> THEN r ELSE Then(Do(r, Head(p.a)), All(Tail(p.a)))
    [] p.do = "sym"     -> IF At(r, p.x) THEN Skipped(r, 1) ELSE Fail(r)
    [] p.do = "name"    -> IF IsName(Tok(r)) THEN Kept(Skipped(r, 1), Word(Tok(r))) ELSE Fail(r)
    [] p.do = "name?"   -> IF IsName(Tok(r)) THEN Kept(Skipped(r, 1), Word(Tok(r)))
                           ELSE Kept(Error(r), Word(""))
    [] p.do = "skip"    -> Skipped(r, 1)
    [] p.do = "take"    -> Kept(Skipped(r, 1), Word(Tok(r)))
    [] p.do = "note"    -> Kept(r, Word(p.x))
    [] p.do = "rule"    -> Made(r, FormOf(p.x, r))
    [] p.do = "grow"    -> IF Grows(p.x, r) THEN Then(Grown(GrowForm(p.x, r)), p) ELSE r
    [] p.do = "if"      -> Do(r, All(IF Tok(r) \in p.x THEN p.a ELSE p.b))
    [] p.do = "until"   -> IF At(r, p.x) \/ AtEnd(r) THEN r ELSE Then(Do(r, All(p.a)), p)
    [] p.do = "commas"  -> More(Do(r, All(p.a)))
    [] p.do = "nolit"   -> OutOfCond(r, Do([r EXCEPT !.nolit = @ + 1], All(p.a)))
    [] p.do = "inside"  -> OutOfCond(r, Do([r EXCEPT !.nolit = 0], All(p.a)))
    [] p.do = "comptime" -> OutOfComptime(r, Do([r EXCEPT !.ct = TRUE], All(p.a)))
    [] p.do = "within"  -> OutOfFn(r, Do([r EXCEPT !.parents = Append(@, r.kids[1].k)], All(p.a)))
    [] p.do = "check"   -> IF Holds(p.x, r) THEN r ELSE Fail(r)
    [] p.do = "quietly" -> IF Holds(p.x, r) THEN r ELSE Null(r)
    [] p.do = "special" ->
         CASE p.x = "type or expr"  -> TypeOrElse(TryType)
           [] p.x = "type or error" -> TypeOrError(TryType)
           [] p.x = "try type"      -> TryType
           [] p.x = "bracket"       -> NewOrList(TryType)
           [] p.x = "name" ->
                IF r.nolit > 0 \/ Ahead(r, 1) \notin {"{", "("} THEN Ident(r)
                ELSE IF Ahead(r, 1) = "{" THEN Made(r, Form("struct", <<Take, Skip>> \o Inits))
                ELSE Generic(Do([Skipped(r, 2) EXCEPT !.hush = @ + 1, !.kids = <<>>],
                                Items(")", {","}, <<Special("try type")>>)))
           [] p.x = "asm tokens"    -> AsmTokens(r)
           [] p.x = "resync"        -> SyncStmt(Error(r))
           [] p.x = "body" ->
                IF AtEnd(r) \/ At(r, "}") THEN r
                ELSE IF r.errors >= MaxErrors THEN Null(r)
                ELSE Do(IF At(r, "fn") THEN Nest(r, Do(r, Rule("fn"))) ELSE Recovered(r, Do(r, Rule("stmt"))), p)
           [] p.x = "mangle"        -> Mangled(r)
           [] p.x = "collect"       -> [r EXCEPT !.kids = Collected(@)]
           [] p.x = "method"        -> Methods(r)
           [] p.x = "witness"       -> [r EXCEPT !.kids = Witnessed(@)]

----------------------------------------------------------------------------
(* ST_impl_finish *)

Plain(d) == IF d.k \in {"pub", "#comptime"} THEN d.c[1] ELSE d

(* ST_impl_rewrite_te: the type of an impl stands for itself with the      *)
(* parameters of the impl.                                                 *)
RECURSIVE Rewritten(_, _, _)
Rewritten(node, type, names) ==
  IF IsNamed(node, type) \/ IsNamed(node, "Self")
  THEN Node("named", <<Word(type)>> \o
         (IF names = <<>> THEN <<>>
          ELSE <<Node("types", [i \in DOMAIN names |-> Node("generic", <<Word(names[i])>>)])>>))
  ELSE IF node.k \in {"params", "param", "rets", "types", "named", "ptr", "array", "fntype"}
  THEN Node(node.k, [i \in DOMAIN node.c |-> Rewritten(node.c[i], type, names)])
  ELSE node

Listed(generics) == [i \in DOMAIN generics.c |-> generics.c[i].k]

Method(m, names) ==
  LET own == Listed(KidOf(m.fn.c, "generics"))
      all == own \o SelectSeq(names, LAMBDA n : n \notin ToSet(own))
  IN  Node("fn", [i \in DOMAIN m.fn.c |->
        CASE i = 1 -> Word(m.type \o "__" \o m.fn.c[1].k)
          [] m.fn.c[i].k = "generics" -> Generics(all)
          [] OTHER -> Rewritten(m.fn.c[i], m.type, names)])

(* x is what was declared and the state.                                   *)
AddMethod(x, m) ==
  LET targets == SelectSeq(x.decls, LAMBDA d : /\ Plain(d).k \in {"struct decl", "union"}
                                               /\ Plain(d).c[1] = Word(m.type))
      declared == Listed(KidOf(Plain(Head(targets)).c, "generics"))
      named   == Listed(m.generics)
      params  == KidOf(m.fn.c, "params").c
  IN  IF \/ targets = <<>>
         \/ named # <<>> /\ Len(named) # Len(declared)
         \/ params = <<>>
         \/ params[1].c[1] # Word("self")
      THEN [x EXCEPT !.s = Error(@)]
      ELSE [x EXCEPT !.decls = Append(@, Method(m, IF named = <<>> THEN declared ELSE named))]

----------------------------------------------------------------------------
(* ST_parse *)

Start == [pos |-> 1, errors |-> 0, told |-> 0, hush |-> 0, nolit |-> 0, parents |-> <<>>,
          nested |-> <<>>, methods |-> <<>>, impls |-> 0, ct |-> FALSE, ok |-> TRUE,
          kids |-> <<>>, skipped |-> 0, buried |-> 0]

Init == /\ prog \in Programs
        /\ s = Start
        /\ decls = <<>>
        /\ stage = "parse"

AtDecl == stage = "parse" /\ ~AtEnd(s) /\ s.errors < MaxErrors

(* An import is never public.                                              *)
Stored(d) == IF Plain(d).k = "import" THEN Plain(d) ELSE d

Declare(q) == /\ q.ok /\ Plain(q.kids[1]).k # "impl"
              /\ decls' = Append(decls, Stored(q.kids[1]))
              /\ s' = [q EXCEPT !.kids = <<>>]

Implement(q) == /\ q.ok /\ Plain(q.kids[1]).k = "impl"
                /\ s' = [q EXCEPT !.kids = <<>>]
                /\ UNCHANGED decls

(* The token at which the declaration failed is left out in any case.      *)
Recover(q) == /\ ~q.ok
              /\ s' = SyncDecl([q EXCEPT !.pos = @ + 1, !.skipped = @ + 1, !.kids = <<>>])
              /\ UNCHANGED decls

ParseDecl ==
  /\ AtDecl
  /\ \E q \in {Do(s, Rule("top"))} : Declare(q) \/ Implement(q) \/ Recover(q)
  /\ UNCHANGED <<prog, stage>>

Stop == /\ stage = "parse" /\ ~AtDecl
        /\ stage' = "finish"
        /\ UNCHANGED <<prog, s, decls>>

Finish ==
  /\ stage = "finish"
  /\ \E x \in {FoldLeft(AddMethod, [decls |-> decls \o s.nested, s |-> s], s.methods)} :
        decls' = x.decls /\ s' = x.s
  /\ stage' = "done"
  /\ UNCHANGED prog

Next == ParseDecl \/ Stop \/ Finish

Spec == Init /\ [][Next]_vars
=============================================================================
