----------------------------- MODULE MCIntCode -----------------------------
(* Functions of two parameters for IntCode: every operator on every pair   *)
(* of types that is accepted, on the numbers at the ends of their ranges;  *)
(* constants; two operators in a row; compound assignments; ranges.        *)
EXTENDS IntCode

I8 == IntType(Narrow, TRUE)
U8 == IntType(Narrow, FALSE)
U32 == IntType(Word, FALSE)
U64 == IntType(Slot, FALSE)
IntTypes == {I8, U8, I32, U32, I64, U64}
AllTypes == IntTypes \union {EnumType}

Least(T) == IF T.signed THEN -(2 ^ (T.width - 1)) ELSE 0
Greatest(T) == IF T.signed THEN 2 ^ (T.width - 1) - 1 ELSE 2 ^ T.width - 1
MCNumbers(T) ==
    IF T = NoType THEN {0}
    ELSE IF T = EnumType THEN {-1, 1, 2}
    ELSE {n \in {Least(T), -1, 0, 1, 3, Greatest(T) - 1, Greatest(T)} : InRange(n, T)}

Lit(n) == [k |-> "lit", n |-> n]
X == [k |-> "var", x |-> "x"]
Y == [k |-> "var", x |-> "y"]
Un(op, a) == [k |-> "un", op |-> op, a |-> a]
Bin(op, l, r) == [k |-> "bin", op |-> op, l |-> l, r |-> r]
As(T, a) == [k |-> "cast", to |-> T, a |-> a]
Variant == [k |-> "variant", n |-> 2]

Decl(T, e) == [k |-> "decl", type |-> T, e |-> e]
Assign(v, op, e) == [k |-> "assign", x |-> v, op |-> op, e |-> e]
For(lo, hi, incl, T) ==
    [k |-> "range", lo |-> lo, hi |-> hi, inclusive |-> incl, type |-> T]

Fn(S, T, s) == [types |-> [x |-> S, y |-> T], body |-> s]
Over(S, T, bodies) == {Fn(S, T, s) : s \in bodies}
OverX(S, bodies) == Over(S, NoType, bodies)

Operators == Arithmetic \union Bitwises \union Shifts \union Orders \union Equalities
Computing == Arithmetic \union Bitwises \union Shifts
Literals == {Lit(0), Lit(1), Lit(5), Lit(100)}

(* One operator on two variables, and on a variable and a constant. *)
Pairs == UNION {Over(T, T, {Decl(NoType, Bin(op, X, Y)) : op \in Operators}) : T \in AllTypes}
Mixed ==
    UNION {Over(T[1], T[2], {Decl(NoType, Bin(op, X, Y)) : op \in Operators}) :
              T \in {<<EnumType, I8>>, <<I32, EnumType>>, <<U64, EnumType>>, <<I32, U32>>,
                     <<I64, U8>>}}
WithConstant ==
    UNION {OverX(T, UNION {{Decl(NoType, Bin(op, X, c)), Decl(T, Bin(op, c, X))} :
                              op \in Operators, c \in Literals \union {Variant}}) : T \in AllTypes}

(* An operator on the result of another, and casts. *)
Inner == {Un("-", X), Un("~", X)} \union
         {Bin(op, X, c) : op \in {"+", "<<", "&"}, c \in {Lit(1), Lit(5)}}
Nested ==
    UNION {OverX(T, {Decl(NoType, Bin(op, e, c)) :
                        op \in {"+", "/", ">>", "<", "=="}, e \in Inner, c \in {X, Lit(1)}})
              : T \in AllTypes}
Casts ==
    UNION {OverX(S, UNION {{Decl(NoType, As(T, X)), Decl(T, As(T, Un("~", X))),
                            Decl(T, X), Decl(T, Bin("+", As(T, X), Lit(1)))} : T \in AllTypes})
              : S \in AllTypes}

(* Constants in declarations. *)
Small == {Lit(1), Lit(3), Lit(7), Lit(100), Variant}
Constants ==
    {Decl(T, e) : T \in AllTypes \union {NoType},
                  e \in Small \union {Un(op, c) : op \in {"-", "~"}, c \in Small}
                        \union {Bin(op, a, b) : op \in Computing, a \in Small, b \in Small}
                        \union {As(T, c) : T \in {I8, U8, I64}, c \in Small}
                        \union {Bin(op, Bin(p, a, b), Lit(3)) :
                                   op \in {"/", "-", ">>"}, p \in {"+", "*", "<<"},
                                   a \in {Lit(1), Lit(7)}, b \in {Lit(3), Lit(7)}}}
Literal == Over(NoType, NoType, Constants)

Assignments ==
    UNION {Over(T[1], T[2], {Assign("x", op, e) :
                   op \in Computing \union {"="}, e \in {Y, Lit(3), Bin("*", Y, Lit(3))}})
              : T \in {<<T, T>> : T \in AllTypes} \union {<<U8, I64>>, <<I32, U64>>, <<I8, EnumType>>}}

Ranges ==
    UNION {Over(T[1], T[2], {For(X, Y, incl, NoType) : incl \in BOOLEAN})
              : T \in {<<T, T>> : T \in IntTypes} \union {<<I8, I32>>, <<U32, I32>>, <<I32, U64>>}}
    \union UNION {OverX(T, {For(lo, hi, incl, A) :
               lo \in {X, Lit(2)}, hi \in {X, Lit(0)}, incl \in BOOLEAN, A \in {NoType, T, U8}})
              : T \in IntTypes}

MCFunctions ==
    Pairs \union Mixed \union WithConstant \union Nested \union Casts \union Literal
    \union Assignments \union Ranges
=============================================================================
