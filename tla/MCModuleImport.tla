--------------------------- MODULE MCModuleImport ---------------------------
(***************************************************************************)
(* The source trees the run of ModuleImport goes through, in four          *)
(* families: who imports whom, which names are offered and used, how files *)
(* are put together by #load, and names that are spelt the same.           *)
(***************************************************************************)
EXTENDS ModuleImport, SequencesExt, TLC

MCDirectories == <<"flag", "root", "env">>
MCModule == {"a", "b", "c"}

ImportOf(m, as) == <<[kind |-> "import", of |-> m, as |-> as]>>
DeclOf(x, pub, extern, uses) ==
  <<[kind |-> "decl", name |-> x, pub |-> pub, extern |-> extern, uses |-> uses]>>
UseOf(kind, via, x) == <<[via |-> via, name |-> x, kind |-> kind]>>

\* The same for names of one part.
Import(m, as) == ImportOf(<<m>>, <<as>>)
Include(path) == <<[kind |-> "load", path |-> path]>>
Decl(x, pub, extern, uses) == DeclOf(<<x>>, pub, extern, uses)
Part(x) == IF x = "" THEN <<>> ELSE <<x>>
Use(via, x) == UseOf("value", Part(via), <<x>>)
TypeUse(via, x) == UseOf("type", Part(via), <<x>>)
GenericUse(via, x) == UseOf("generic", Part(via), <<x>>)

In(m) == <<"root", <<m>>>>
Tree(file, garbled, unparsable) == [file |-> file, garbled |-> garbled, unparsable |-> unparsable]
Good(file) == Tree(file, {}, {})

\* Any graph over three modules, with one of them sound, not there, not to be
\* read or parsed, or to be found in another directory before or after.
ImportAll == [S \in SUBSET MCModule |-> FlattenSeq(SetToSeq({Import(m, m) : m \in S}))]
Graph(g) ==
  [f \in {Root} \union {In(m) : m \in MCModule} |->
     IF f = Root THEN ImportAll[g["root"]] \o Decl("main", FALSE, FALSE, Use("", "x"))
     ELSE ImportAll[g[f[2][1]]] \o Decl("x", TRUE, FALSE, Use("", "x"))]
Faults == {"none", "garbled", "unparsable", "absent", "before", "after"}
WithFault(fault, file) ==
  LET c == In("c")
      also(dir) == Put(file, <<dir, <<"c">>>>, ImportAll[{"b"}] \o Decl("y", TRUE, FALSE, <<>>))
  IN  CASE fault = "none" -> Good(file)
        [] fault = "garbled" -> Tree(file, {c}, {})
        [] fault = "unparsable" -> Tree(file, {}, {c})
        [] fault = "absent" -> Good([f \in DOMAIN file \ {c} |-> file[f]])
        [] fault = "before" -> Good(also("flag"))
        [] fault = "after" -> Tree(also("env"), {}, {c})
Graphs == {WithFault(x, Graph(g)) : g \in [MCModule \union {"root"} -> SUBSET MCModule], x \in Faults}

\* Two modules that declare x, publicly or not or as an extern, or do not; the
\* root uses it, or a module the other's, on its own or through an alias.
X(uses) == {<<>>, Decl("x", FALSE, FALSE, uses), Decl("x", TRUE, FALSE, uses), Decl("x", TRUE, TRUE, <<>>)}
RootImports ==
  {<<>>, Import("a", "a") \o Import("a", "k")} \union
  {Import(m, k) : m \in {"a", "b"}, k \in {"k", "x"}} \union
  {Import(m, "a") \o Import(n, k) : m, n \in {"a", "b"}, k \in {"a", "b"}}
Names ==
  {Good((Root :> imports \o own \o Decl("main", FALSE, FALSE, used)) @@
        (In("a") :> a) @@ (In("b") :> b)) :
     imports \in RootImports, own \in {<<>>, Decl("x", FALSE, FALSE, <<>>)},
     used \in {Use("", "x"), Use("a", "x"), TypeUse("k", "x"), Use("k", "x"), GenericUse("", "x"), GenericUse("k", "x")},
     a \in {x \o Import("b", "b") \o Decl("f", TRUE, FALSE, used) :
              x \in X(<<>>), used \in {Use("", "x"), TypeUse("b", "x"), TypeUse("a", "x"), GenericUse("", "x")}}
           \union X(Use("", "x")),
     b \in X(Use("", "x")) \union {Decl("x", TRUE, FALSE, Use("a", "x"))}}

\* Files that load each other, twice or in a circle, with one that may not be
\* there or not be sound; a module that shares them with the root.
Pieces ==
  LET part(x) == In(x)
      step == {Include(part("p")), Include(part("q")), Import("a", "a"), Decl("x", TRUE, FALSE, <<>>)}
      pairs == {s \o t : s, t \in step}
      file(r, s, a) == (Root :> r \o Decl("main", FALSE, FALSE, Use("", "x"))) @@
                       (part("p") :> s) @@ (In("a") :> a \o Decl("y", TRUE, FALSE, Use("", "x")))
      q(t, f) == Put(f, part("q"), t)
      tree(f, x) == CASE x = "absent" -> Good(f)
                      [] x = "circle" -> Good(q(Include(part("p")), f))
                      [] x = "good" -> Good(q(Decl("z", TRUE, FALSE, Use("", "x")), f))
                      [] x = "garbled" -> Tree(q(<<>>, f), {part("q")}, {})
                      [] x = "unparsable" -> Tree(q(<<>>, f), {}, {part("q")})
  IN  {tree(file(r, s, a), x) :
         r \in pairs, s \in step \union pairs,
         a \in step \union {Include(part("p")) \o Include(part("q"))},
         x \in {"absent", "circle", "good", "garbled", "unparsable"}}

\* Modules a and a__b and the root's own, with declarations that are all spelt
\* a__b__x, in part or in full, and uses of each of them.
Joined3 == {<<"x">>, <<"b", "x">>, <<"a", "b", "x">>}
Spellings ==
  LET own(x, uses) == {<<>>, DeclOf(x, TRUE, FALSE, uses), DeclOf(x, FALSE, FALSE, uses), DeclOf(x, TRUE, TRUE, <<>>)}
      imports == {Import("a", "a"), ImportOf(<<"a", "b">>, <<"k">>),
                  Import("a", "a") \o ImportOf(<<"a", "b">>, <<"k">>),
                  ImportOf(<<"a", "b">>, <<"a">>) \o Import("a", "k")}
      used == {UseOf(kind, <<>>, x) : kind \in {"value", "generic"}, x \in Joined3} \union
              {UseOf("value", via, x) : via \in {<<"a">>, <<"k">>}, x \in {<<"x">>, <<"b", "x">>}}
  IN  {Good((Root :> i \o r \o Decl("main", FALSE, FALSE, u)) @@
            (In("a") :> s) @@ (<<"root", <<"a", "b">>>> :> t)) :
         i \in imports, u \in used,
         r \in own(<<"a", "b", "x">>, <<>>) \union own(<<"x">>, <<>>),
         s \in own(<<"b", "x">>, UseOf("value", <<>>, <<"b", "x">>)) \union own(<<"x">>, <<>>),
         t \in own(<<"x">>, UseOf("type", <<>>, <<"x">>)) \union own(<<"b", "x">>, <<>>)}

MCFamilies == {Graphs, Names, Pieces, Spellings}
=============================================================================
