------------------------------ MODULE MCCalls ------------------------------
(* Programs for Calls: every list of up to two parameter types and every   *)
(* list of up to two result types against a few of the others, longer ones *)
(* of four of the types, with named, missing and literal arguments,        *)
(* literal results, an argument changed while the next are evaluated, and  *)
(* with a C function.                                                      *)
EXTENDS Calls

MCArgRegs == <<"rdi", "rsi", "rdx", "rcx">>
MCXmmRegs == <<"xmm0", "xmm1">>

Field(off, T) == [off |-> off, size |-> T.size, float |-> T.float]
Struct(size, fields) == [kind |-> "struct", size |-> size, float |-> FALSE, fields |-> fields]
String == Struct(16, <<>>)      \* a pointer and a length, as a slice is
Flo1 == Struct(8, <<Field(0, F64)>>)
Mixed == Struct(16, <<Field(0, I64), Field(8, F64)>>)
Vector == Struct(12, <<Field(0, F32), Field(4, F32), Field(8, F32)>>)
Big == Struct(24, <<Field(0, I64), Field(8, F64), Field(16, I64)>>)
Floats == [kind |-> "array", size |-> 16, float |-> TRUE, fields |-> <<>>]

ParamTypes == {I64, F64, F32, String, Flo1, Mixed, Vector, Big, Floats}
ResultTypes == {I64, F64, F32, String, Flo1, Mixed, Vector, Big}
UpTo(n, S) == UNION {[1 .. m -> S] : m \in 0 .. n}
Triples == [1 .. 3 -> {I64, F32, Mixed, Big}]

Arg(name, literal, T) == [name |-> name, literal |-> literal, type |-> T]
Positional(params) == [k \in DOMAIN params |-> Arg(0, FALSE, params[k])]

Program(params, rets, args) ==
    [params |-> params, rets |-> rets, args |-> args, defs |-> {}, literals |-> {},
     direct |-> TRUE, extern |-> FALSE, aside |-> FALSE]
Plain(params, rets) == Program(params, rets, Positional(params))

SomeResults == {<<F64>>, <<Big>>}
SomeParams == {<<I64, F32>>, <<Big, F64, I64>>}

Passing == UNION {{Plain(ps, rs) : rs \in SomeResults} : ps \in UpTo(2, ParamTypes) \union Triples}
Longer == {Plain(ps, rs) : ps \in [1 .. 4 -> {I64, F32, Mixed}], rs \in {<<F32, I64>>, <<String, F32>>}}
Returning ==
    UNION {{Plain(ps, rs) : ps \in SomeParams} : rs \in UpTo(2, ResultTypes) \union Triples}
Literal ==
    UNION {{[Plain(<<I64>>, rs) EXCEPT !.literals = {k \in DOMAIN rs : rs[k].kind = "scalar"}]} :
              rs \in UpTo(3, {I64, F64, F32, Flo1})}
External ==
    {[Plain(ps, rs) EXCEPT !.extern = TRUE] :
        ps \in UpTo(2, {I64, F64, F32, Flo1, Mixed, Vector, Big}) \union Triples,
        rs \in {<<F32>>, <<Mixed>>, <<Big>>}}
Asides ==
    {[Plain(ps, <<I64>>) EXCEPT !.aside = TRUE] : ps \in [1 .. 2 -> {I64, F32, Mixed, Big}]}

(* Arguments by name and by position, also too few, too many or twice.     *)
Lists == UNION {[1 .. m -> {<<n, lit>> : n \in 0 .. 3, lit \in BOOLEAN}] : m \in 1 .. 3}
Naming ==
    {[Program(ps, <<I64>>,
              [j \in DOMAIN ls |->
                  LET T == ps[IF ls[j][1] # 0 THEN ls[j][1] ELSE j]
                  IN  Arg(ls[j][1], ls[j][2], T)]) EXCEPT !.direct = d, !.defs = defs] :
        ps \in {<<F64, I64, F32>>}, ls \in Lists, d \in BOOLEAN,
        defs \in {{}, {2, 3}}}

MCPrograms ==
    Passing \union Longer \union Returning \union Literal \union External \union Asides
    \union Naming
=============================================================================
