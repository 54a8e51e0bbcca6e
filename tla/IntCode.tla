------------------------------ MODULE IntCode ------------------------------
(***************************************************************************)
(* What becomes of an integer on its way from the source to the processor. *)
(* The checker gives every expression a type, the default pass turns an    *)
(* untyped one into an i32, the lowering picks an instruction for every    *)
(* operator, and the code generator keeps every value in a slot of full    *)
(* width, narrowing it after some instructions and not after others.  The  *)
(* #comptime machine computes the same expressions without any width.      *)
(*                                                                         *)
(* A case is a function of two parameters whose body is one statement: a   *)
(* declaration, an assignment or a loop over a range.  It is checked,      *)
(* lowered to a list of instructions, and these are executed one at a time.*)
(* A slot holds the signed reading of its bits.                            *)
(***************************************************************************)
EXTENDS Integers, Sequences, Bitwise

CONSTANTS Narrow,       \* bits of the smallest integers, 8 in the code
          Word,         \* bits of an i32, the type an untyped integer gets
          Slot,         \* bits of a slot, 64 in the code
          Mantissa,     \* bits a double keeps of an integer, 53 in the code
          Functions,    \* the functions: the types of x and y, and the statement
          Numbers(_),   \* the arguments of a type they are called with
          RoundsMax     \* rounds of a loop after which a run is given up

ASSUME WidthsAssumption ==
    /\ 0 < Narrow /\ Narrow < Word /\ Word < Mantissa /\ Mantissa < Slot
    /\ RoundsMax \in Nat

VARIABLES case,         \* the function at hand and its arguments
          code,         \* its instructions, none before it is lowered
          at,           \* the instruction to execute, 0 before the first
          slots,        \* what the executed instructions left in their slots
          mem,          \* the variables on the stack
          rounds,       \* rounds the loop has begun
          state         \* "source", "rejected", "lowered", "trapped" or "done"

vars == <<case, code, at, slots, mem, rounds, state>>

-----------------------------------------------------------------------------
(* Types *)

Type(kind, width, signed) == [kind |-> kind, width |-> width, signed |-> signed]
IntType(width, signed) == Type("int", width, signed)
I32 == IntType(Word, TRUE)
I64 == IntType(Slot, TRUE)
Untyped == Type("untyped", Slot, TRUE)
(* An enumeration has the size of a slot.  Its field width is 0 in the code,  *)
(* where nothing asks for it; here it is the size, which the cases compare.   *)
EnumType == Type("enum", Slot, FALSE)
Bool == Type("bool", Narrow, FALSE)
NoType == Type("none", 0, FALSE)

IsInt(T) == T.kind \in {"int", "untyped"}
IsIntLike(T) == IsInt(T) \/ T.kind = "enum"
Defaulted(T) == IF T = Untyped THEN I32 ELSE T
Coerces(from, to) == from = to \/ (from = Untyped /\ to.kind \in {"int", "enum"})

(* The type two operands are brought to, NoType when there is none. *)
Unify(a, b) ==
    IF a.kind = "enum" /\ IsInt(b) THEN b
    ELSE IF b.kind = "enum" /\ IsInt(a) THEN a
    ELSE IF a = b /\ IsIntLike(a) THEN a
    ELSE IF a = Untyped /\ IsInt(b) THEN b
    ELSE IF b = Untyped /\ IsInt(a) THEN a
    ELSE NoType

Signed(bits, width) == IF bits >= 2 ^ (width - 1) THEN bits - 2 ^ width ELSE bits

(* The number of type T that has the low bits of n. *)
Wrap(n, T) ==
    LET bits == n % 2 ^ T.width IN IF T.signed THEN Signed(bits, T.width) ELSE bits

InSlot(n) == Wrap(n, I64)
Bits(n) == n % 2 ^ Slot
InRange(n, T) == Wrap(n, T) = n

-----------------------------------------------------------------------------
(* The checker *)

Shifts == {"<<", ">>"}
Bitwises == {"&", "|", "^"}
Orders == {"<", "<=", ">", ">="}
Equalities == {"==", "!="}
Arithmetic == {"+", "-", "*", "/", "%"}

TypeOfUnary(op, T) ==
    IF (op = "-" /\ IsInt(T)) \/ (op = "~" /\ IsIntLike(T)) THEN T ELSE NoType

TypeOfBinary(op, l, r) ==
    CASE NoType \in {l, r} -> NoType
      [] op \in Equalities ->
            IF Coerces(l, r) \/ Coerces(r, l) \/ Unify(l, r) # NoType THEN Bool ELSE NoType
      [] op \in Orders -> IF Unify(l, r) # NoType THEN Bool ELSE NoType
      [] op \in Shifts /\ IsIntLike(l) /\ IsIntLike(r) -> IF l = Untyped THEN r ELSE l
      [] op \in Bitwises /\ ~(IsIntLike(l) /\ IsIntLike(r)) -> NoType
      [] op \in Shifts -> NoType
      [] OTHER -> Unify(l, r)

IsNumber(T) == IsIntLike(T) \/ T.kind = "bool"
TypeOfCast(from, to) ==
    IF Coerces(from, to) \/ (IsNumber(from) /\ IsIntLike(to)) THEN to ELSE NoType

RECURSIVE TypeOf(_, _)
TypeOf(e, env) ==
    CASE e.k = "lit" -> Untyped
      [] e.k = "variant" -> EnumType
      [] e.k = "var" -> env[e.x]
      [] e.k = "un" -> TypeOfUnary(e.op, TypeOf(e.a, env))
      [] e.k = "bin" -> TypeOfBinary(e.op, TypeOf(e.l, env), TypeOf(e.r, env))
      [] e.k = "cast" -> TypeOfCast(TypeOf(e.a, env), e.to)

(* The type an expression has when it is lowered. *)
NodeType(e, env) == Defaulted(TypeOf(e, env))

(* Division as the processor and C do it: towards zero. *)
Quotient(a, b) ==
    LET size(n) == IF n < 0 THEN -n ELSE n
        q == size(a) \div size(b)
    IN  IF (a < 0) = (b < 0) THEN q ELSE -q
Remainder(a, b) == a - b * Quotient(a, b)

BitsOf(op, a, b) ==
    CASE op = "&" -> Bits(a) & Bits(b)
      [] op = "|" -> Bits(a) | Bits(b)
      [] op = "^" -> Bits(a) ^^ Bits(b)

Truth(b) == IF b THEN 1 ELSE 0
Compared(op, a, b) ==
    Truth(CASE op = "==" -> a = b   [] op = "!=" -> a # b
            [] op = "<" -> a < b    [] op = "<=" -> a <= b
            [] op = ">" -> a > b    [] op = ">=" -> a >= b)

(* An operator on the host's 64-bit integers, as the evaluator of constants *)
(* and the #comptime machine use it: a host shifts by the low bits of the   *)
(* count.  The divisor is not 0.                                            *)
OnHost(op, a, b) ==
    CASE op = "+" -> InSlot(a + b)
      [] op = "-" -> InSlot(a - b)
      [] op = "*" -> InSlot(a * b)
      [] op = "/" -> InSlot(Quotient(a, b))
      [] op = "%" -> Remainder(a, b)
      [] op = "<<" -> InSlot(a * 2 ^ (b % Slot))
      [] op = ">>" -> a \div 2 ^ (b % Slot)
      [] op \in Bitwises -> InSlot(BitsOf(op, a, b))

(* What the evaluator of constants finds an expression to be: at most one   *)
(* number, none when it is not constant.  Types and casts do not matter.    *)
RECURSIVE ConstEval(_)
ConstEval(e) ==
    CASE e.k \in {"lit", "variant"} -> {e.n}
      [] e.k = "var" -> {}
      [] e.k = "un" -> {InSlot(IF e.op = "-" THEN -v ELSE -v - 1) : v \in ConstEval(e.a)}
      [] e.k = "bin" ->
            LET Both == ConstEval(e.l) \X {v \in ConstEval(e.r) :
                                             e.op \in {"/", "%"} => v # 0}
            IN  IF e.op \in Equalities \union Orders THEN {}
                ELSE {OnHost(e.op, v[1], v[2]) : v \in Both}
      [] e.k = "cast" -> ConstEval(e.a)

(* A mutant of FitsDeclared: the number after the greatest is let through. *)
FitsOneMore(e, T) ==
    T.kind = "int" /\ T.width < Slot =>
        \A v \in ConstEval(e) : InRange(v, T) \/ InRange(v - 1, T)

(* The range check of a declaration's constant; full width is not checked. *)
FitsDeclared(e, T) ==
    T.kind = "int" /\ T.width < Slot => \A v \in ConstEval(e) : InRange(v, T)

(* A declaration without a type has the one of its initial value. *)
DeclaredType(s, env) == IF s.type = NoType THEN NodeType(s.e, env) ELSE s.type

AcceptsDecl(s, env) ==
    LET found == TypeOf(s.e, env)
    IN  /\ found # NoType
        /\ s.type # NoType => Coerces(found, s.type) /\ FitsDeclared(s.e, s.type)

AcceptsAssign(s, env) ==
    LET found == TypeOf(s.e, env)
    IN  /\ found # NoType
        /\ \/ s.op = "=" /\ Coerces(found, env[s.x])
           \/ s.op \in {"+", "-", "*", "/"} /\ Unify(env[s.x], found) # NoType
           \/ s.op \in {"%"} \union Bitwises \union Shifts
                /\ IsIntLike(env[s.x]) /\ IsIntLike(found)

AcceptsRange(s, env) ==
    LET bounds == {TypeOf(s.lo, env), TypeOf(s.hi, env)}
    IN  /\ \A T \in bounds : IsInt(T)
        /\ s.type # NoType => IsInt(s.type) /\ \A T \in bounds : Coerces(T, s.type)

Accepts(s, env) ==
    CASE s.k = "decl" -> AcceptsDecl(s, env)
      [] s.k = "assign" -> AcceptsAssign(s, env)
      [] s.k = "range" -> AcceptsRange(s, env)

-----------------------------------------------------------------------------
(* The lowering.  A value is named by the place of the instruction that    *)
(* computes it.                                                            *)

Ins(op, T, a, b) == [op |-> op, type |-> T, a |-> a, b |-> b]
Emit(c, op, T, a, b) == Append(c, Ins(op, T, a, b))

(* A mutant of LowerBinop: the sign of the type is not looked at. *)
LowerAlwaysSigned(op, left) == op

(* Signed or unsigned is decided by the type of the left operand alone. *)
LowerBinop(op, left) ==
    IF left.signed \/ op \notin {"/", "%", ">>"} \union Orders
    THEN op
    ELSE CASE op = "/" -> "u/" [] op = "%" -> "u%" [] op = ">>" -> "u>>"
           [] op = "<" -> "u<" [] op = "<=" -> "u<=" [] op = ">" -> "u>" [] op = ">=" -> "u>="

RECURSIVE LowerExpr(_, _, _)
LowerExpr(c, e, env) ==
    LET T == NodeType(e, env)
    IN  CASE e.k \in {"lit", "variant"} -> Emit(c, "const", T, e.n, 0)
          [] e.k = "var" -> Emit(c, "load", T, e.x, 0)
          [] e.k = "un" ->
                LET v == LowerExpr(c, e.a, env)
                IN  Emit(v, IF e.op = "-" THEN "neg" ELSE "not", T, Len(v), 0)
          [] e.k = "cast" ->
                LET v == LowerExpr(c, e.a, env) IN Emit(v, "cast", T, Len(v), 0)
          [] e.k = "bin" ->
                LET l == LowerExpr(c, e.l, env)
                    r == LowerExpr(l, e.r, env)
                IN  Emit(r, LowerBinop(e.op, NodeType(e.l, env)), T, Len(l), Len(r))

CastTo(c, T) == IF c[Len(c)].type = T THEN c ELSE Emit(c, "cast", T, Len(c), 0)

(* A value of the same size is given the type of the variable in place. *)
Retyped(c, T) ==
    LET init == c[Len(c)].type
    IN  IF init.width = T.width /\ IsInt(init) /\ IsInt(T)
        THEN [c EXCEPT ![Len(c)].type = T]
        ELSE CastTo(c, T)

LowerDecl(s, env) ==
    LET T == DeclaredType(s, env)
        init == Retyped(LowerExpr(<<>>, s.e, env), T)
    IN  Emit(init, "store", T, "z", Len(init))

(* The value is computed before the variable is read; the operation of a   *)
(* compound assignment is the signed one, and for a shift there is none.   *)
LowerCompoundOp(op) == op
LowerAssign(s, env) ==
    LET T == env[s.x]
        v == LowerExpr(<<>>, s.e, env)
        old == Emit(v, "load", T, s.x, 0)
        new == IF s.op = "=" THEN v
               ELSE Emit(old, LowerCompoundOp(s.op), T, Len(old), Len(v))
    IN  Emit(new, "store", T, s.x, Len(new))

(* The type the iterator has in memory: of the bounds' the wider one, and  *)
(* the one it was given before both.                                       *)
IterType(s, env) ==
    LET lo == NodeType(s.lo, env)
        hi == NodeType(s.hi, env)
    IN  IF s.type # NoType THEN s.type ELSE IF hi.width > lo.width THEN hi ELSE lo

(* The type the checker gave the iterator's name. *)
IterSeen(s, env) ==
    LET lo == TypeOf(s.lo, env)
        both == Unify(lo, TypeOf(s.hi, env))
    IN  Defaulted(IF s.type # NoType THEN s.type ELSE IF both # NoType THEN both ELSE lo)

(* A mutant of Unsigned. *)
ComparesSigned(op, T) == op

(* The comparison of a loop over a range, by the type of its iterator. *)
Unsigned(op, T) == IF T.signed THEN op ELSE LowerBinop(op, T)

(* The loop over a range: up to the end or, when the bounds are reversed,  *)
(* down to it, by a step of 1 - 2 * reversed.  "round" stands for the body.*)
RangeLoop(entry, n, rev, high, up, T, seen) ==
    entry \o
    << Ins("load", T, "i", 0),                      \* n + 1, for_begin
       Ins(Unsigned(up, T), Bool, n + 1, high),     \* n + 2
       Ins(Unsigned(">=", T), Bool, n + 1, high),   \* n + 3
       Ins("const", Bool, 0, 0),                    \* n + 4
       Ins("==", Bool, rev, n + 4),                 \* n + 5, not reversed
       Ins("&", Bool, rev, n + 3),                  \* n + 6
       Ins("&", Bool, n + 5, n + 2),                \* n + 7
       Ins("|", Bool, n + 6, n + 7),                \* n + 8
       Ins("leave", Bool, n + 8, n + 20),           \* n + 9
       Ins("round", seen, "i", 0),                  \* n + 10, for_body
       Ins("load", T, "i", 0),                      \* n + 11, for_step
       Ins("cast", T, rev, 0),                      \* n + 12
       Ins("const", T, -2, 0),                      \* n + 13
       Ins("*", T, n + 12, n + 13),                 \* n + 14
       Ins("const", T, 1, 0),                       \* n + 15
       Ins("+", T, n + 14, n + 15),                 \* n + 16
       Ins("+", T, n + 11, n + 16),                 \* n + 17
       Ins("store", T, "i", n + 17),                \* n + 18
       Ins("back", T, n + 1, 0) >>                  \* n + 19

RangeEntry(c, low, high, inclusive, T, seen) ==
    LET n == Len(c)
        reversed == Ins(Unsigned("<", T), Bool, high, low)
    IN  IF inclusive
        THEN RangeLoop(c \o <<reversed, Ins("store", T, "i", low)>>, n + 2, n + 1, high, "<=",
                       T, seen)
        ELSE RangeLoop(c \o <<reversed, Ins("cast", T, n + 1, 0), Ins("-", T, low, n + 2),
                              Ins("store", T, "i", n + 3)>>, n + 4, n + 1, high, "<", T, seen)

(* The bounds, computed into low and high, are brought to the iterator's type. *)
RangeHigh(c, low, high, inclusive, T, seen) ==
    IF c[high].type = T THEN RangeEntry(c, low, high, inclusive, T, seen)
    ELSE RangeEntry(Emit(c, "cast", T, high, 0), low, Len(c) + 1, inclusive, T, seen)
RangeLow(c, low, high, inclusive, T, seen) ==
    IF c[low].type = T THEN RangeHigh(c, low, high, inclusive, T, seen)
    ELSE RangeHigh(Emit(c, "cast", T, low, 0), Len(c) + 1, high, inclusive, T, seen)

LowerRange(s, env) ==
    LET Both(lo, hi) == RangeLow(hi, Len(lo), Len(hi), s.inclusive,
                                 IterType(s, env), IterSeen(s, env))
        After(lo) == Both(lo, LowerExpr(lo, s.hi, env))
    IN  After(LowerExpr(<<>>, s.lo, env))

Lowered(s, env) ==
    CASE s.k = "decl" -> LowerDecl(s, env)
      [] s.k = "assign" -> LowerAssign(s, env)
      [] s.k = "range" -> LowerRange(s, env)

Body == case.body
Target == IF Body.k = "decl" THEN "z" ELSE Body.x
Env == case.types

Lowerable(s) == ~(s.k = "assign" /\ s.op \in Shifts)

Init ==
    /\ \E f \in Functions :
          \E m \in Numbers(f.types.x), n \in Numbers(f.types.y) :
              case = [types |-> f.types, body |-> f.body, args |-> [x |-> m, y |-> n]]
    /\ code = <<>> /\ at = 0 /\ slots = <<>>
    /\ mem = [v \in {"x", "y", "z", "i"} |->
                 IF v \in {"x", "y"} THEN InSlot(case.args[v]) ELSE 0]
    /\ rounds = 0
    /\ state = "source"

Reject ==
    /\ state = "source"
    /\ ~Accepts(Body, Env) \/ ~Lowerable(Body)
    /\ state' = "rejected"
    /\ UNCHANGED <<case, code, at, slots, mem, rounds>>

Lower ==
    /\ state = "source"
    /\ Accepts(Body, Env) /\ Lowerable(Body)
    /\ code' = Lowered(Body, Env)
    /\ slots' = [n \in DOMAIN code' |-> 0]
    /\ at' = 1
    /\ state' = "lowered"
    /\ UNCHANGED <<case, mem, rounds>>

-----------------------------------------------------------------------------
(* The instructions *)

(* What is left of a slot after an arithmetic instruction of a type, and   *)
(* after a cast, a load or a store: a type that is not an integer one is   *)
(* left as it is by the first and narrowed without sign by the others.     *)
Truncated(n, T) == IF T.kind = "int" THEN InSlot(Wrap(n, T)) ELSE InSlot(n)
Narrowed(n, T) == IF T.width = Slot THEN InSlot(n) ELSE Wrap(n, T)

I == code[at]
Left == slots[I.a]
Right == slots[I.b]

At(ops) == state = "lowered" /\ at <= Len(code) /\ I.op \in ops
Leaves(n) ==
    /\ slots' = [slots EXCEPT ![at] = n]
    /\ at' = at + 1
    /\ UNCHANGED <<case, code, mem, rounds, state>>

Constant == At({"const"}) /\ Leaves(InSlot(I.a))

Arith ==
    /\ At({"+", "-", "*"})
    /\ Leaves(Truncated(CASE I.op = "+" -> Left + Right
                          [] I.op = "-" -> Left - Right
                          [] I.op = "*" -> Left * Right, I.type))

(* idiv and div trap on a divisor of 0 and on a quotient too large. *)
Divides(l, r) == r # 0 /\ InRange(Quotient(l, r), I64)
DivideSigned ==
    /\ At({"/", "%"})
    /\ Divides(Left, Right)
    /\ Leaves(Truncated(IF I.op = "/" THEN Quotient(Left, Right)
                        ELSE Remainder(Left, Right), I.type))

DivideUnsigned ==
    /\ At({"u/", "u%"})
    /\ Right # 0
    /\ Leaves(Truncated(IF I.op = "u/" THEN Bits(Left) \div Bits(Right)
                        ELSE Bits(Left) % Bits(Right), I.type))

Trap ==
    /\ \/ At({"/", "%"}) /\ ~Divides(Left, Right)
       \/ At({"u/", "u%"}) /\ Right = 0
    /\ state' = "trapped"
    /\ UNCHANGED <<case, code, at, slots, mem, rounds>>

Negate == At({"neg"}) /\ Leaves(Truncated(-Left, I.type))

(* Not truncated: the operands' high bits are worked on too. *)
Bitwise1 ==
    /\ At(Bitwises \union {"not"})
    /\ Leaves(InSlot(IF I.op = "not" THEN -Left - 1 ELSE BitsOf(I.op, Left, Right)))

(* The processor takes the count modulo the width of a slot. *)
Shift ==
    /\ At({"<<", ">>", "u>>"})
    /\ LET by == 2 ^ (Right % Slot)
       IN  Leaves(InSlot(CASE I.op = "<<" -> Left * by
                           [] I.op = ">>" -> Left \div by
                           [] I.op = "u>>" -> Bits(Left) \div by))

SignedOrder(op) ==
    CASE op = "u<" -> "<" [] op = "u<=" -> "<=" [] op = "u>" -> ">" [] op = "u>=" -> ">="
UnsignedOrders == {"u<", "u<=", "u>", "u>="}
Compare ==
    \/ /\ At(Orders \union Equalities)
       /\ Leaves(Compared(I.op, Left, Right))
    \/ /\ At(UnsignedOrders)
       /\ Leaves(Compared(SignedOrder(I.op), Bits(Left), Bits(Right)))

Cast == At({"cast"}) /\ Leaves(Narrowed(Left, I.type))

Load == At({"load"}) /\ Leaves(Narrowed(mem[I.a], I.type))

Store ==
    /\ At({"store"})
    /\ mem' = [mem EXCEPT ![I.a] = Narrowed(Right, I.type)]
    /\ at' = at + 1
    /\ UNCHANGED <<case, code, slots, rounds, state>>

(* The conditional jump out of a loop and the jump back to its head. *)
Jump ==
    /\ \/ At({"leave"}) /\ at' = IF Left # 0 THEN at + 1 ELSE I.b
       \/ At({"back"}) /\ at' = I.a
    /\ UNCHANGED <<case, code, slots, mem, rounds, state>>

(* The body of the loop reads the iterator. *)
Round ==
    /\ At({"round"}) /\ rounds < RoundsMax
    /\ rounds' = rounds + 1
    /\ slots' = [slots EXCEPT ![at] = Narrowed(mem["i"], I.type)]
    /\ at' = at + 1
    /\ UNCHANGED <<case, code, mem, state>>

Finish ==
    /\ state = "lowered" /\ at = Len(code) + 1
    /\ state' = "done"
    /\ UNCHANGED <<case, code, at, slots, mem, rounds>>

Next ==
    \/ Reject \/ Lower
    \/ Constant \/ Arith \/ DivideSigned \/ DivideUnsigned \/ Trap \/ Negate
    \/ Bitwise1 \/ Shift \/ Compare \/ Cast \/ Load \/ Store
    \/ Jump \/ Round \/ Finish

Spec == Init /\ [][Next]_vars

-----------------------------------------------------------------------------
(* What an expression means: the exact result of every operator, brought   *)
(* to the type of the expression.  A meaning says whether there is one     *)
(* (ok), the number (v), whether the compiled value may keep bits beyond   *)
(* its type (loose), and whether the instructions chosen are known to give *)
(* something else (odd).                                                   *)

Meaning(ok, v, loose, odd) == [ok |-> ok, v |-> v, loose |-> loose, odd |-> odd]

Exact(op, a, b) ==
    CASE op = "+" -> a + b [] op = "-" -> a - b [] op = "*" -> a * b
      [] op = "/" -> Quotient(a, b) [] op = "%" -> Remainder(a, b)
      [] op = "<<" -> a * 2 ^ b [] op = ">>" -> a \div 2 ^ b
      [] op \in Bitwises -> InSlot(BitsOf(op, a, b))
      [] op \in Orders \union Equalities -> Compared(op, a, b)

(* An enumeration is as wide as a slot, and its numbers have a sign. *)
Meant(n, T) == IF T.kind = "enum" THEN InSlot(n) ELSE Wrap(n, T)

(* Whether the sign the instruction works with is not that of the operands. *)
WrongSign(op, left, a, b) ==
    LET high == \E n \in {a, b} : ~InRange(n, I64)
        negative == \E n \in {a, b} : n < 0
    IN  \/ op \in {"/", "%", ">>"} \union Orders /\ IF left.signed THEN high ELSE negative
        \/ op \in Equalities /\ high /\ negative

Keeps(op) == op \in Bitwises \union Shifts      \* results that are not truncated
Widens(op) == op \notin {"+", "-", "*"} \union Bitwises \union {"<<"}

MeaningOfBinary(op, l, r, left, right, T) ==
    LET bad == l.odd \/ r.odd
        n == Exact(op, l.v, r.v)
        odd == \/ op \in Shifts /\ r.v \notin 0 .. T.width - 1
               \/ WrongSign(op, left, l.v, r.v)
               \/ l.loose /\ (Widens(op) \/ left.width < T.width)
               \/ r.loose /\ (Widens(op) \/ op \in Shifts \/ right.width < T.width)
    IN  IF ~l.ok \/ ~r.ok \/ (op \in {"/", "%"} /\ r.v = 0) THEN Meaning(FALSE, 0, FALSE, bad)
        ELSE IF op \in {"/", "%"} /\ left.signed /\ ~InRange(Quotient(l.v, r.v), I64)
        THEN Meaning(FALSE, 0, FALSE, bad \/ odd)
        ELSE IF op \in Shifts /\ r.v \notin 0 .. T.width - 1 THEN Meaning(TRUE, 0, FALSE, TRUE)
        ELSE Meaning(TRUE, Meant(n, T),
                     Keeps(op) /\ (l.loose \/ r.loose \/ n # Meant(n, T)), bad \/ odd)

RECURSIVE MeaningOf(_, _, _)
MeaningOf(e, env, args) ==
    LET T == NodeType(e, env)
    IN  CASE e.k \in {"lit", "variant"} -> Meaning(TRUE, e.n, FALSE, FALSE)
          [] e.k = "var" -> Meaning(TRUE, args[e.x], FALSE, FALSE)
          [] e.k = "bin" ->
                MeaningOfBinary(e.op, MeaningOf(e.l, env, args), MeaningOf(e.r, env, args),
                                NodeType(e.l, env), NodeType(e.r, env), T)
          [] OTHER ->
                LET a == MeaningOf(e.a, env, args)
                    n == IF e.k = "cast" THEN a.v ELSE IF e.op = "-" THEN -a.v ELSE -a.v - 1
                    keeps == e.k = "un" /\ e.op = "~"
                    widens == e.k = "cast" /\ NodeType(e.a, env).width < T.width
                IN  [a EXCEPT !.v = Meant(n, T),
                              !.loose = keeps /\ (a.loose \/ n # Meant(n, T)),
                              !.odd = a.odd \/ (a.loose /\ widens)]

(* The meaning of the statement: of what its variable becomes. *)
Operand == [k |-> "var", x |-> Body.x]
Whole ==
    IF Body.k = "assign" /\ Body.op # "="
    THEN [k |-> "bin", op |-> Body.op, l |-> Operand, r |-> Body.e]
    ELSE Body.e

TargetType == IF Body.k = "decl" THEN DeclaredType(Body, Env) ELSE Env[Body.x]

(* A compound assignment has the type of its variable, whatever its operand. *)
Outcome ==
    LET T == TargetType
        m == IF Whole = Body.e THEN MeaningOf(Body.e, Env, case.args)
             ELSE MeaningOfBinary(Body.op, MeaningOf(Operand, Env, case.args),
                                  MeaningOf(Body.e, Env, case.args),
                                  [T EXCEPT !.signed = TRUE], NodeType(Body.e, Env), T)
    IN  [m EXCEPT !.v = Meant(m.v, T),
                  !.odd = m.odd \/ (m.loose /\ NodeType(Body.e, Env).width < T.width)]

IsValue == Body.k # "range"

(* Compiled code computes what the types say: when a declaration or an     *)
(* assignment has run, the variable holds the exact result of every        *)
(* operator brought to that operator's type, and it traps exactly when a   *)
(* divisor is 0 or a signed quotient does not fit.  This relates the types *)
(* of the checker, the choice of signed and unsigned instructions by the   *)
(* left operand (ST_lower_binop) and the truncation of some results only   *)
(* (ST_truncate_int).  Left out are the expressions for which they are     *)
(* known not to fit together, see MeaningOfBinary.                         *)
NativeAgrees ==
    IsValue /\ state \in {"trapped", "done"} =>
        LET m == Outcome
        IN  m.odd \/ IF m.ok THEN state = "done" /\ mem[Target] = InSlot(m.v)
                     ELSE state = "trapped"

(* Whether the evaluator of constants stays within the types on its way. *)
RECURSIVE ConstInTypes(_)
ConstInTypes(e) ==
    /\ e.k \in {"un", "cast"} => ConstInTypes(e.a)
    /\ e.k = "bin" => ConstInTypes(e.l) /\ ConstInTypes(e.r)
    /\ e.k \notin {"lit", "variant"} =>
            \A n \in ConstEval(e) : Meant(n, NodeType(e, Env)) = n

(* A constant is one number: what the evaluator of constants computes for  *)
(* the declaration's range check is what the compiled program stores, if   *)
(* the evaluator's intermediate results stay within the types it ignores.  *)
(* A variable without a declared type is not checked and has to fit.       *)
ConstantsAgree ==
    Body.k = "decl" /\ state = "done" =>
        \A n \in ConstEval(Body.e) :
            ConstInTypes(Body.e) /\ (Body.type = NoType => Meant(n, TargetType) = n)
                => mem["z"] = InSlot(n)

-----------------------------------------------------------------------------
(* The same statement in the #comptime machine, whose numbers have no type *)
(* and whose orders compare doubles.                                       *)

(* The double nearest to n, halves to the even one. *)
Double(n) ==
    LET size == IF n < 0 THEN -n ELSE n
        Fits(ulp) == size < ulp * 2 ^ Mantissa
        ulp == CHOOSE u \in {2 ^ k : k \in 0 .. Slot} :
                  Fits(u) /\ \A k \in 0 .. Slot : Fits(2 ^ k) => u <= 2 ^ k
        down == size \div ulp
        rest == 2 * (size % ulp)
        near == ulp * IF rest > ulp \/ (rest = ulp /\ down % 2 = 1) THEN down + 1 ELSE down
    IN  IF n < 0 THEN -near ELSE near

(* A mutant of CtBinary: the operands are taken off the stack in the order *)
(* they were put on it.                                                    *)
CtBinarySwapped(op, a, b) ==
    IF op \in {"/", "%"} /\ a = 0 THEN {}
    ELSE IF op \in Orders \union Equalities THEN {Compared(op, b, a)}
    ELSE {OnHost(op, b, a)}

(* At most one number: a division by 0, a complement and a cast to an      *)
(* enumeration stop the evaluation with an error.                          *)
CtBinary(op, a, b) ==
    IF op \in {"/", "%"} /\ b = 0 THEN {}
    ELSE IF op \in Equalities THEN {Compared(op, a, b)}
    ELSE IF op \in Orders THEN {Compared(op, Double(a), Double(b))}
    ELSE {OnHost(op, a, b)}

CtCast(n, T) == IF IsInt(T) THEN {IF T.width < Slot THEN Wrap(n, T) ELSE n} ELSE {}

RECURSIVE CtEval(_)
CtEval(e) ==
    CASE e.k \in {"lit", "variant"} -> {e.n}
      [] e.k = "var" -> {InSlot(case.args[e.x])}
      [] e.k = "un" -> {InSlot(-n) : n \in {m \in CtEval(e.a) : e.op = "-"}}
      [] e.k = "bin" -> UNION {CtBinary(e.op, n[1], n[2]) : n \in CtEval(e.l) \X CtEval(e.r)}
      [] e.k = "cast" -> UNION {CtCast(n, e.to) : n \in CtEval(e.a)}

(* Whether every result on the way is one of its type. *)
RECURSIVE CtInTypes(_)
CtInTypes(e) ==
    /\ e.k \in {"un", "cast"} => CtInTypes(e.a)
    /\ e.k = "bin" =>
          /\ CtInTypes(e.l) /\ CtInTypes(e.r)
          /\ e.op \in Shifts => \A n \in CtEval(e.r) : n \in 0 .. NodeType(e, Env).width - 1
          /\ e.op \in Orders => \A n \in CtEval(e.l) \union CtEval(e.r) : Double(n) = n
    /\ e.k # "lit" => \A n \in CtEval(e) : Meant(n, NodeType(e, Env)) = n

(* Where no result leaves its type and the instructions are not the ones   *)
(* known to be odd, a statement run at compile time and    *)
(* compiled to the processor gives the same number, although the one       *)
(* computes without widths and signs and the other picks its instructions  *)
(* by them.                                                                *)
ComptimeAgrees ==
    IsValue /\ state = "done" =>
        \A n \in CtEval(Whole) :
            CtInTypes(Whole) /\ Meant(n, TargetType) = n /\ ~Outcome.odd
                => mem[Target] = InSlot(n)

-----------------------------------------------------------------------------
(* Ranges *)

Bound(e) == Wrap(MeaningOf(e, Env, case.args).v, IterType(Body, Env))
Reversed == Bound(Body.hi) < Bound(Body.lo)
Distance ==
    LET d == Bound(Body.hi) - Bound(Body.lo)
    IN  (IF d < 0 THEN -d ELSE d) + IF Body.inclusive THEN 1 ELSE 0

(* A loop that ends at the last number of its type never does: up to the   *)
(* greatest if it is inclusive, down to the least in any case.             *)
Endless ==
    LET T == IterType(Body, Env)
    IN  IF Reversed THEN ~InRange(Bound(Body.hi) - 1, T)
        ELSE Body.inclusive /\ ~InRange(Bound(Body.hi) + 1, T)

(* The number the body of the latest round is to see. *)
Due ==
    IF ~Reversed THEN Bound(Body.lo) + rounds - 1
    ELSE IF Body.inclusive THEN Bound(Body.lo) - rounds + 1 ELSE Bound(Body.lo) - rounds

(* A loop over a range runs once for every number between its bounds, in   *)
(* order, upwards or downwards, an exclusive reversed one from the number  *)
(* below its first bound on; it ends after them, and exactly the loops of  *)
(* Endless do not.  The iterator as the body reads it is that number if it *)
(* fits the type the checker gave it, which for bounds of different types  *)
(* is not the one in memory.                                               *)
RangeCounts ==
    Body.k = "range" /\ state \in {"lowered", "done"} =>
        /\ state = "done" => rounds = Distance /\ ~Endless
        /\ rounds > Distance => Endless
        /\ at \in DOMAIN code /\ I.op = "load" /\ I.a = "i" /\ code[at - 1].op = "round"
              => (Endless /\ rounds > Distance)
                 \/ slots[at - 1] = InSlot(Wrap(Due, IterSeen(Body, Env)))
=============================================================================
