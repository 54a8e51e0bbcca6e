------------------------------- MODULE Calls -------------------------------
(***************************************************************************)
(* How arguments and results cross a call.  The lowering binds the         *)
(* arguments to the parameters and cuts every value into eightbytes, the   *)
(* classification says which of them are floats and which values go by     *)
(* pointer, and the code generator of caller and callee each work out for  *)
(* themselves which register or stack word holds an eightbyte.  The model  *)
(* has a caller, main, a function f that hands its parameters on to g and  *)
(* returns what g returns, and g, which makes up its results or is a C     *)
(* function.  They are lowered and then executed one instruction at a time *)
(* on a stack of words; addresses and sizes of frames count words.         *)
(*                                                                         *)
(* A word of data is <<form, value, n>>: the n-th eightbyte of a value, as *)
(* it is in memory ("d"), or of a 32-bit float: "s" in single precision,   *)
(* "d" in the double precision a slot holds it in.                         *)
(***************************************************************************)
EXTENDS Integers, Sequences, FiniteSets, SequencesExt

CONSTANTS ArgRegs,      \* the registers for integers, rdi first; rcx is one
          XmmRegs,      \* those for floats, xmm0 and xmm1 first
          Programs,     \* the programs
          Words         \* words of stack

ASSUME CallsAssumption ==
    /\ ArgRegs[1] = "rdi" /\ XmmRegs[1] = "xmm0" /\ XmmRegs[2] = "xmm1"
    /\ Words \in Nat /\ Words % 2 = 0

VARIABLES program,      \* what is compiled and run
          codes,        \* the functions' instructions and frames
          fn, at,       \* the running function and its next instruction
          phase,        \* "source", "rejected", "run", "back" from a call, "done"
          rbp, rsp,
          regs, mem,
          calls,        \* the callers of fn, the latest first (not the code's)
          seen          \* what a C function found in its parameters

vars == <<program, codes, fn, at, phase, rbp, rsp, regs, mem, calls, seen>>

-----------------------------------------------------------------------------
(* Types and their eightbytes *)

Scalar(size, float) == [kind |-> "scalar", size |-> size, float |-> float, fields |-> <<>>]
I64 == Scalar(8, FALSE)
F64 == Scalar(8, TRUE)
F32 == Scalar(4, TRUE)

IsFloat(T) == T.kind = "scalar" /\ T.float
Parts(T) == (T.size + 7) \div 8

(* A field is [off, size, float]; an array is float when its elements are. *)
PartIsSse(T, part) ==
    LET inside == {f \in ToSet(T.fields) :
                     f.off + f.size > 8 * part /\ f.off < 8 * part + 8}
    IN  IF T.kind = "array" THEN T.float /\ 8 * part < T.size
        ELSE inside # {} /\ \A f \in inside : f.float
PartTy(T, part) == IF PartIsSse(T, part) THEN F64 ELSE I64

(* How an aggregate is passed. *)
Classified(T, extern) ==
    IF T.size <= 16 THEN "parts" ELSE IF extern THEN "memory" ELSE "pointer"

(* What a function type says of the results: the only one is taken apart   *)
(* if it is an aggregate, unless the function is external.                 *)
RetTys(sig) ==
    IF ~sig.extern /\ Len(sig.rets) = 1 /\ sig.rets[1].kind # "scalar"
    THEN [p \in 1 .. Parts(sig.rets[1]) |-> PartTy(sig.rets[1], p - 1)]
    ELSE sig.rets
RetSlots(tys) == FoldLeft(LAMBDA n, T : n + Parts(T), 0, tys)
RetIsIndirect(sig) == RetSlots(RetTys(sig)) > 2

(* A mutant of CallRetCount: the results are counted, not their words. *)
CallRetResults(sig) == IF RetTys(sig) = <<>> THEN 1 ELSE Len(RetTys(sig))

CallRetCount(sig) == IF RetTys(sig) = <<>> THEN 1 ELSE RetSlots(RetTys(sig))

-----------------------------------------------------------------------------
(* The checker and the binding of arguments.  An argument is               *)
(* [name, literal, type], its name the number of a parameter or 0.         *)

F(p) == [params |-> p.params, rets |-> p.rets, defs |-> p.defs, extern |-> FALSE]
G(p) == [F(p) EXCEPT !.extern = p.extern]
Sig(p, name) == IF name = "f" THEN F(p) ELSE G(p)

HasNamed(args) == \E j \in DOMAIN args : args[j].name # 0

(* The parameter of an argument: unnamed ones are counted by themselves. *)
Bound(args, j) ==
    IF args[j].name # 0 THEN args[j].name
    ELSE Cardinality({i \in 1 .. j : args[i].name = 0})

Coerces(arg, T) == arg.type = T \/ (arg.literal /\ IsFloat(arg.type) /\ IsFloat(T))

(* Through a function value names are not known and the order counts. *)
Place(p, j) == IF p.direct THEN Bound(p.args, j) ELSE j

(* The last argument for a parameter is the one taken, 0 if there is none. *)
Resolved(p, k) ==
    LET given == {j \in DOMAIN p.args : Place(p, j) = k}
    IN  IF given = {} THEN 0 ELSE CHOOSE j \in given : \A i \in given : i <= j

(* With named arguments neither missing nor double ones are looked for; a  *)
(* missing one without a default is an error of the lowering.              *)
Accepts(p) ==
    /\ \A j \in DOMAIN p.args :
          Place(p, j) \in DOMAIN p.params => Coerces(p.args[j], p.params[Place(p, j)])
    /\ IF p.direct /\ HasNamed(p.args) THEN TRUE
       ELSE /\ Len(p.args) <= Len(p.params)
            /\ Len(p.args) >= IF p.direct THEN Len(p.params) - Cardinality(p.defs)
                              ELSE Len(p.params)
    /\ \A k \in DOMAIN p.params : Resolved(p, k) = 0 => k \in p.defs

-----------------------------------------------------------------------------
(* The lowering.  A value is named by the place of its instruction.        *)

Ins(op, T, a, b, c) == [op |-> op, type |-> T, a |-> a, b |-> b, c |-> c]
Alloca(code, T) == Append(code, Ins("alloca", I64, Parts(T), 0, 0))

(* A variable that a statement fills with a value.  *)
Put(code, T, var, value) == Append(code, Ins("put", T, var, value, 0))

(* A literal nobody gave a type is a float of 32 bits. *)
Const(code, T, value) == Append(code, Ins("const", T, value, 0, 0))
Untyped(T) == IF IsFloat(T) THEN F32 ELSE T

LoadParts(code, T, addr) ==
    code \o [p \in 1 .. Parts(T) |-> Ins("load", PartTy(T, p - 1), addr, p - 1, 0)]

Latest(code, n) == [i \in 1 .. n |-> Len(code) - n + i]

(* One argument onto a list of them: [code, list]. *)
Push(at0, code, n) == [code |-> code, list |-> at0.list \o Latest(code, n)]
PushVar(st, T, var, extern) ==
    IF T.kind = "scalar" THEN Push(st, Append(st.code, Ins("load", T, var, 0, 0)), 1)
    ELSE CASE Classified(T, extern) = "parts" -> Push(st, LoadParts(st.code, T, var), Parts(T))
           [] Classified(T, extern) = "memory" ->
                 Push(st, Append(st.code, Ins("memarg", T, var, 0, 0)), 1)
           [] OTHER -> [st EXCEPT !.list = Append(@, var)]

Call(st, p, name) ==
    LET sig == Sig(p, name)
        T == IF RetTys(sig) = <<>> THEN I64 ELSE RetTys(sig)[1]
    IN  Append(st.code, Ins("call", T, name, st.list, 0))

(* The variables of the results, each from its eightbytes of the call.     *)
BindOne(st, T, call) ==
    LET slot == Len(st.code) + 1
        tys == IF T.kind = "scalar" THEN <<T>> ELSE [n \in 1 .. Parts(T) |-> PartTy(T, n - 1)]
        From(w) == st.eb + w - 1
        Stored(code, w) ==
            IF From(w) = 0 THEN Append(code, Ins("store", tys[w], slot, w - 1, call))
            ELSE code \o << Ins("extract", tys[w], call, From(w), 0),
                            Ins("store", tys[w], slot, w - 1, Len(code) + 1) >>
    IN  [code |-> FoldLeft(Stored, Alloca(st.code, T), [w \in DOMAIN tys |-> w]),
         vars |-> Append(st.vars, slot), eb |-> st.eb + Parts(T)]
Bind(code, rets) ==
    LET call == Len(code)
        One(st, T) == BindOne(st, T, call)
    IN  FoldLeft(One, [code |-> code, vars |-> <<>>, eb |-> 0], rets)

(* The parameters of a function: first all their words, then variables. *)
ParamTys(T) ==
    IF T.kind = "scalar" THEN <<T>>
    ELSE IF Classified(T, FALSE) = "pointer" THEN <<I64>>
    ELSE [n \in 1 .. Parts(T) |-> PartTy(T, n - 1)]
ParamWords(params) == FlattenSeq([k \in DOMAIN params |-> ParamTys(params[k])])

ParamVar(st, T) ==
    LET slot == Len(st.code) + 1
        open == Alloca(st.code, T)
        tys == ParamTys(T)
        Copy(n) == << Ins("load", I64, st.raw, n, 0), Ins("store", I64, slot, n, slot + 2 * n + 1) >>
    IN  [code |-> IF T.kind # "scalar" /\ Classified(T, FALSE) = "pointer"
                  THEN open \o FlattenSeq([n \in 1 .. Parts(T) |-> Copy(n - 1)])
                  ELSE open \o [n \in DOMAIN tys |->
                                  Ins("store", tys[n], slot, n - 1, st.raw + n - 1)],
         vars |-> Append(st.vars, slot), raw |-> st.raw + Len(tys)]
Params(params) ==
    LET tys == ParamWords(params)
        words == [n \in DOMAIN tys |-> Ins("param", tys[n], n, 0, 0)]
    IN  FoldLeft(ParamVar, [code |-> words, vars |-> <<>>, raw |-> 1], params)

(* The values of a return statement, loaded from variables. *)
Return(code, rets, from) ==
    LET One(st, k) ==
            IF from[k] = 0
            THEN Push(st, Const(st.code, Untyped(rets[k]), <<"res", k>>), 1)
            ELSE IF rets[k].kind = "scalar"
            THEN Push(st, Append(st.code, Ins("load", rets[k], from[k], 0, 0)), 1)
            ELSE Push(st, LoadParts(st.code, rets[k], from[k]), Parts(rets[k]))
        all == FoldLeft(One, [code |-> code, list |-> <<>>], [k \in DOMAIN rets |-> k])
    IN  Append(all.code, Ins("ret", I64, all.list, 0, 0))

(* main: the variables of its arguments, the call, the results.  A program *)
(* with an aside changes the first of the variables while its arguments    *)
(* are evaluated, as a call among them can.                                *)
ArgVars(args) ==
    LET One(st, j) ==
            IF args[j].literal THEN [st EXCEPT !.vars = Append(@, 0)]
            ELSE [code |-> Put(Alloca(st.code, args[j].type), args[j].type,
                               Len(st.code) + 1, <<"arg", j>>),
                  vars |-> Append(st.vars, Len(st.code) + 1)]
    IN  FoldLeft(One, [code |-> <<>>, vars |-> <<>>], [j \in DOMAIN args |-> j])

Aside(st, p, own) ==
    IF p.aside THEN [st EXCEPT !.code = Put(@, p.args[1].type, own.vars[1], <<"later", 1>>)]
    ELSE st

Argument(p, own, st, k) ==
    LET j == Resolved(p, k)
        T == p.params[k]
    IN  IF j = 0 THEN Push(st, Const(st.code, Untyped(T), <<"def", k>>), 1)
        ELSE IF p.args[j].literal THEN Push(st, Const(st.code, T, <<"arg", j>>), 1)
        ELSE LET pushed == PushVar(st, T, own.vars[j], FALSE)
             IN  IF k = 1 THEN Aside(pushed, p, own) ELSE pushed

(* With the variables of its parameters and of the results it receives, and *)
(* the last instructions before which they are complete.                   *)
Function(code, pvars, pend, rvars, rend) ==
    [code |-> code, pvars |-> pvars, pend |-> pend, rvars |-> rvars, rend |-> rend]

LowerMain(p) ==
    LET own == ArgVars(p.args)
        One(st, k) == Argument(p, own, st, k)
        pushed == FoldLeft(One, [code |-> own.code, list |-> <<>>], [k \in DOMAIN p.params |-> k])
        bound == Bind(Call(pushed, p, "f"), p.rets)
    IN  Function(bound.code, <<>>, 0, bound.vars, Len(bound.code))

LowerF(p) ==
    LET own == Params(p.params)
        One(st, k) == PushVar(st, p.params[k], own.vars[k], p.extern)
        pushed == FoldLeft(One, [code |-> own.code, list |-> <<>>], [k \in DOMAIN p.params |-> k])
        bound == Bind(Call(pushed, p, "g"), p.rets)
    IN  Function(Return(bound.code, p.rets, bound.vars), own.vars, Len(own.code), bound.vars,
                 Len(bound.code))

LowerG(p) ==
    LET own == Params(p.params)
        One(st, k) ==
            IF k \in p.literals THEN [st EXCEPT !.vars = Append(@, 0)]
            ELSE [code |-> Put(Alloca(st.code, p.rets[k]), p.rets[k], Len(st.code) + 1, <<"res", k>>),
                  vars |-> Append(st.vars, Len(st.code) + 1)]
        made == FoldLeft(One, [code |-> own.code, vars |-> <<>>], [k \in DOMAIN p.rets |-> k])
    IN  Function(Return(made.code, p.rets, made.vars), own.vars, Len(own.code), <<>>, 0)

-----------------------------------------------------------------------------
(* The frame of a function, in words below rbp: a slot for every           *)
(* instruction, the address results go to if it is given one, variables    *)
(* and the buffers of calls with more than one result word.                *)

Hidden(f, sig) == IF RetIsIndirect(sig) THEN Len(f.code) + 1 ELSE 0

(* A mutant of Aligned: a frame is as long as what is in it. *)
Unaligned(words) == words

Aligned(words) == 2 * ((words + 1) \div 2)

SizeInFrame(p, I) ==
    CASE I.op = "alloca" -> I.a
      [] I.op = "call" /\ CallRetCount(Sig(p, I.a)) >= 2 -> CallRetCount(Sig(p, I.a))
      [] OTHER -> 0

Layout(p, f, sig) ==
    LET hidden == Hidden(f, sig)
        start == IF hidden # 0 THEN hidden ELSE Len(f.code)
        Below(offs, I) == Append(offs, Last(offs) + SizeInFrame(p, I))
        offs == Tail(FoldLeft(Below, <<start>>, f.code))
    IN  [code |-> f.code, pvars |-> f.pvars, pend |-> f.pend, rvars |-> f.rvars, rend |-> f.rend,
         hidden |-> hidden, offs |-> offs, frame |-> Aligned(Last(offs))]

NoCode == Function(<<>>, <<>>, 0, <<>>, 0)
Main(p) == [F(p) EXCEPT !.params = <<>>, !.rets = <<>>]
Compiled(p) ==
    [main |-> Layout(p, LowerMain(p), Main(p)),
     f |-> Layout(p, LowerF(p), F(p)),
     g |-> IF p.extern THEN NoCode ELSE Layout(p, LowerG(p), G(p))]

-----------------------------------------------------------------------------
(* The machine *)

Junk == <<"junk", 0, 0>>
Address(n) == <<"addr", n, 0>>
Names == ToSet(ArgRegs) \union ToSet(XmmRegs) \union {"rax", "rcx", "rdx"}

Wide(w) == IF w[1] = "s" THEN <<"d", w[2], w[3]>> ELSE Junk       \* cvtss2sd
Single(w) == IF w[1] = "d" THEN <<"s", w[2], w[3]>> ELSE Junk     \* cvtsd2ss

Contents(T, value) == [n \in 1 .. Parts(T) |-> <<IF T = F32 THEN "s" ELSE "d", value, n>>]

Init ==
    /\ program \in Programs
    /\ phase = "source" /\ codes = <<>> /\ fn = "main" /\ at = 0
    /\ rbp = Words - 2 /\ rsp = rbp
    /\ regs = [r \in Names |-> Junk] /\ mem = [n \in 1 .. Words |-> Junk]
    /\ calls = <<>> /\ seen = <<>>

Reject ==
    /\ phase = "source" /\ ~Accepts(program)
    /\ phase' = "rejected"
    /\ UNCHANGED <<program, codes, fn, at, rbp, rsp, regs, mem, calls, seen>>

Compile ==
    /\ phase = "source" /\ Accepts(program)
    /\ codes' = Compiled(program)
    /\ phase' = "run" /\ at' = 1
    /\ rsp' = rbp - codes'["main"].frame
    /\ UNCHANGED <<program, fn, rbp, regs, mem, calls, seen>>

Code == codes[fn].code
I == Code[at]
Slot(i) == rbp - i
At(addr) == IF addr \in DOMAIN mem THEN mem[addr] ELSE Junk
Value(i) == At(Slot(i))
Running(op) == phase = "run" /\ at \in DOMAIN Code /\ I.op = op

(* Every instruction leaves its result in its slot. *)
Leaves(w) ==
    /\ mem' = [mem EXCEPT ![Slot(at)] = w]
    /\ at' = at + 1
    /\ UNCHANGED <<program, codes, fn, phase, rbp, rsp, calls, seen>>
Fills(addr, ws) ==
    /\ mem' = [n \in DOMAIN mem |->
                 IF n - addr + 1 \in DOMAIN ws THEN ws[n - addr + 1] ELSE mem[n]]
    /\ at' = at + 1
    /\ UNCHANGED <<program, codes, fn, phase, rbp, rsp, regs, calls, seen>>

AllocaStep == Running("alloca") /\ Leaves(Address(rbp - codes[fn].offs[at])) /\ UNCHANGED regs
ConstStep == Running("const") /\ Leaves(<<"d", I.a, 1>>) /\ UNCHANGED regs
MemArgStep == Running("memarg") /\ at' = at + 1
              /\ UNCHANGED <<program, codes, fn, phase, rbp, rsp, regs, mem, calls, seen>>

LoadStep ==
    /\ Running("load")
    /\ LET w == At(Value(I.a)[2] + I.b) IN Leaves(IF I.type = F32 THEN Wide(w) ELSE w)
    /\ UNCHANGED regs

StoreStep ==
    /\ Running("store")
    /\ Fills(Value(I.a)[2] + I.b, << IF I.type = F32 THEN Single(Value(I.c)) ELSE Value(I.c) >>)

PutStep == Running("put") /\ Fills(Value(I.a)[2], Contents(I.type, I.b))

(* Where the words of a call are, for its caller and for its callee: both  *)
(* count the integers and the floats before a word.                        *)
Before(classes, i, c) == Cardinality({j \in 1 .. i - 1 : classes[j] = c})

ArgClass(i) ==
    IF Code[i].op = "memarg" THEN "mem" ELSE IF IsFloat(Code[i].type) THEN "float" ELSE "int"

(* A mutant of ArgOnStack: integers and floats are counted together. *)
ArgOnStackTogether(classes, i, reserved) ==
    classes[i] = "mem" \/ reserved + i > Len(IF classes[i] = "float" THEN XmmRegs ELSE ArgRegs)

ArgOnStack(classes, i, reserved) ==
    CASE classes[i] = "mem" -> TRUE
      [] classes[i] = "float" -> Before(classes, i, "float") >= Len(XmmRegs)
      [] OTHER -> reserved + Before(classes, i, "int") >= Len(ArgRegs)

ParamOnStack(classes, i, shift) ==
    IF classes[i] = "float" THEN Before(classes, i, "float") >= Len(XmmRegs)
    ELSE shift + Before(classes, i, "int") >= Len(ArgRegs)

ParamStep ==
    /\ Running("param")
    /\ LET classes == [i \in 1 .. at |-> IF IsFloat(Code[i].type) THEN "float" ELSE "int"]
           shift == IF codes[fn].hidden # 0 THEN 1 ELSE 0
           n == Cardinality({j \in 1 .. at - 1 : ParamOnStack(classes, j, shift)})
           w == IF ParamOnStack(classes, at, shift) THEN At(rbp + 2 + n)
                ELSE IF classes[at] = "float" THEN regs[XmmRegs[Before(classes, at, "float") + 1]]
                ELSE regs[ArgRegs[shift + Before(classes, at, "int") + 1]]
       IN  Leaves(IF I.type = F32 THEN Wide(w) ELSE w)
    /\ UNCHANGED regs

RetBuf(i) == rbp - codes[fn].offs[i]

(* The words a call puts on the stack, in the order of the arguments. *)
StackWords(args, classes, reserved) ==
    FlattenSeq([i \in DOMAIN args |->
        IF ~ArgOnStack(classes, i, reserved) THEN <<>>
        ELSE CASE classes[i] = "mem" ->
                     [n \in 1 .. Parts(Code[args[i]].type) |-> At(Value(Code[args[i]].a)[2] + n - 1)]
               [] Code[args[i]].type = F32 -> <<Single(Value(args[i]))>>
               [] OTHER -> <<Value(args[i])>>])

(* Registers are loaded after the stack, whose words pass through rax, rcx *)
(* and xmm0.                                                               *)
RegWords(args, classes, reserved, onStack) ==
    LET Of(r) == {i \in DOMAIN args :
                    /\ ~ArgOnStack(classes, i, reserved)
                    /\ r = IF classes[i] = "float" THEN XmmRegs[Before(classes, i, "float") + 1]
                           ELSE ArgRegs[reserved + Before(classes, i, "int") + 1]}
        Passed(i) == IF Code[args[i]].type = F32 THEN Single(Value(args[i])) ELSE Value(args[i])
    IN  [r \in Names |->
            IF Of(r) # {} THEN Passed(CHOOSE i \in Of(r) : TRUE)
            ELSE IF reserved = 1 /\ r = "rdi" THEN Address(RetBuf(at))
            ELSE IF onStack /\ r \in {"rax", "rcx", "xmm0"} THEN Junk ELSE regs[r]]

(* The call, up to the callee's first instruction: the arguments, the      *)
(* return address, the new frame and the address of the results in it.     *)
CallStep ==
    /\ Running("call")
    /\ LET classes == [i \in DOMAIN I.b |-> ArgClass(I.b[i])]
           reserved == IF RetIsIndirect(Sig(program, I.a)) THEN 1 ELSE 0
           stack == StackWords(I.b, classes, reserved)
           top == rsp - Aligned(Len(stack))
           base == top - 2
           callee == codes[I.a]
           own == ~Sig(program, I.a).extern
           hidden == IF own /\ callee.hidden # 0 THEN base - callee.hidden ELSE 0
       IN  /\ regs' = RegWords(I.b, classes, reserved, stack # <<>>)
           /\ mem' = [n \in DOMAIN mem |->
                        IF n - top + 1 \in DOMAIN stack THEN stack[n - top + 1]
                        ELSE CASE n = top - 1 -> <<"ret", fn, at>>
                               [] n = base /\ own -> Address(rbp)
                               [] n = hidden -> regs'["rdi"]
                               [] OTHER -> mem[n]]
           /\ calls' = <<[fn |-> fn, at |-> at, rbp |-> rbp]>> \o calls
           /\ IF own THEN rbp' = base /\ rsp' = base - callee.frame
              ELSE rbp' = rbp /\ rsp' = top - 1
    /\ fn' = I.a /\ at' = 1
    /\ UNCHANGED <<program, codes, phase, seen>>

(* Leaving a function: registers hold up to two words of results, more go  *)
(* where the caller said.                                                  *)
Returned(vals, i) ==
    IF Code[vals[i]].type = F32 THEN Single(Value(vals[i])) ELSE Value(vals[i])
Results(vals) ==
    LET FloatAt(i) == i \in DOMAIN vals /\ IsFloat(Code[vals[i]].type)
        IntAt(i) == i \in DOMAIN vals /\ ~IsFloat(Code[vals[i]].type)
    IN  [r \in Names |->
            CASE r = "xmm0" /\ FloatAt(1) -> Returned(vals, 1)
              [] r = "xmm1" /\ FloatAt(2) -> Returned(vals, 2)
              [] r = "rax" /\ IntAt(1) -> Returned(vals, 1)
              [] r = "rdx" /\ IntAt(2) -> Returned(vals, 2)
              [] OTHER -> Junk]

RetStep ==
    /\ Running("ret")
    /\ LET to == At(rbp - codes[fn].hidden)[2]
           many == Len(I.a) > 2
           ret == mem[rbp + 1]
       IN  /\ mem' = [n \in DOMAIN mem |->
                        IF many /\ n - to + 1 \in DOMAIN I.a THEN Value(I.a[n - to + 1]) ELSE mem[n]]
           /\ regs' = IF many THEN [r \in Names |-> IF r = "rax" THEN Address(to) ELSE Junk]
                      ELSE Results(I.a)
           /\ fn' = ret[2] /\ at' = ret[3]
    /\ rbp' = mem[rbp][2] /\ rsp' = rbp + 2
    /\ phase' = "back"
    /\ calls' = Tail(calls)
    /\ UNCHANGED <<program, codes, seen>>

(* After the call the caller takes the results where it expects them: the  *)
(* types of the function decide, and those of results that are taken apart *)
(* word by word are the words'.                                            *)
BackStep ==
    /\ phase = "back"
    /\ LET tys == RetTys(Sig(program, I.a))
           count == CallRetCount(Sig(program, I.a))
           FloatAt(i) == i \in DOMAIN tys /\ IsFloat(tys[i])
           Taken(i, float, int) ==
               IF ~FloatAt(i) THEN regs[int]
               ELSE IF tys[i] = F32 THEN Wide(regs[float]) ELSE regs[float]
           first == IF count > 2 THEN At(RetBuf(at)) ELSE Taken(1, "xmm0", "rax")
       IN  mem' = [n \in DOMAIN mem |->
                     CASE n = Slot(at) -> first
                       [] count = 2 /\ n = RetBuf(at) -> first
                       [] count = 2 /\ n = RetBuf(at) + 1 -> Taken(2, "xmm1", "rdx")
                       [] OTHER -> mem[n]]
    /\ LET classes == [i \in DOMAIN I.b |-> ArgClass(I.b[i])]
           reserved == IF RetIsIndirect(Sig(program, I.a)) THEN 1 ELSE 0
       IN  rsp' = rsp + Aligned(Len(StackWords(I.b, classes, reserved)))
    /\ at' = at + 1 /\ phase' = "run"
    /\ UNCHANGED <<program, codes, fn, rbp, regs, calls, seen>>

ExtractStep ==
    /\ Running("extract")
    /\ Leaves(IF CallRetCount(Sig(program, Code[I.a].a)) >= 2 THEN At(RetBuf(I.a) + I.b)
              ELSE Value(I.a))
    /\ UNCHANGED regs

Finish ==
    /\ phase = "run" /\ fn = "main" /\ at = Len(Code) + 1
    /\ phase' = "done"
    /\ UNCHANGED <<program, codes, fn, at, rbp, rsp, regs, mem, calls, seen>>

-----------------------------------------------------------------------------
(* A C function, by the rules of its platform: an aggregate of up to two   *)
(* eightbytes is in registers as a whole or not at all.                    *)

CNeeds(T, float) ==
    IF T.kind = "scalar" THEN IF T.float = float THEN 1 ELSE 0
    ELSE Cardinality({n \in 1 .. Parts(T) : PartIsSse(T, n - 1) = float})
CTakes(st, T) ==
    LET ints == st.ints + CNeeds(T, FALSE)
        floats == st.floats + CNeeds(T, TRUE)
        IsSse(n) == IF T.kind = "scalar" THEN T.float ELSE PartIsSse(T, n - 1)
        Nth(n, float) == Cardinality({m \in 1 .. n : IsSse(m) = float})
    IN  IF T.size <= 16 /\ ints <= Len(ArgRegs) /\ floats <= Len(XmmRegs)
        THEN [st EXCEPT !.ints = ints, !.floats = floats,
                !.found = Append(@, [n \in 1 .. Parts(T) |->
                    IF IsSse(n) THEN regs[XmmRegs[st.floats + Nth(n, TRUE)]]
                    ELSE regs[ArgRegs[st.ints + Nth(n, FALSE)]]])]
        ELSE [st EXCEPT !.stack = @ + Parts(T),
                !.found = Append(@, [n \in 1 .. Parts(T) |-> At(rsp + st.stack + n)])]

CFinds(params, ints) ==
    FoldLeft(CTakes, [ints |-> ints, floats |-> 0, stack |-> 0, found |-> <<>>], params).found

CResults(T) ==
    LET ws == Contents(T, <<"res", 1>>)
        IsSse(n) == IF T.kind = "scalar" THEN T.float ELSE PartIsSse(T, n - 1)
        InReg(r, n, float) == n \in DOMAIN ws /\ IsSse(n) = float
                              /\ r = IF \E m \in 1 .. n - 1 : IsSse(m) = float
                                     THEN IF float THEN "xmm1" ELSE "rdx"
                                     ELSE IF float THEN "xmm0" ELSE "rax"
    IN  [r \in Names |->
            LET here == {n \in 1 .. 2 : InReg(r, n, TRUE) \/ InReg(r, n, FALSE)}
            IN  IF here = {} THEN Junk ELSE ws[CHOOSE n \in here : TRUE]]

ExternStep ==
    /\ phase = "run" /\ fn = "g" /\ program.extern
    /\ LET rets == program.rets
           big == rets # <<>> /\ rets[1].size > 16
           to == regs["rdi"][2]
       IN  /\ seen' = CFinds(program.params, IF big THEN 1 ELSE 0)
           /\ regs' = IF big THEN [r \in Names |-> IF r = "rax" THEN Address(to) ELSE Junk]
                      ELSE IF rets = <<>> THEN [r \in Names |-> Junk] ELSE CResults(rets[1])
           /\ mem' = [n \in DOMAIN mem |->
                        IF big /\ n - to + 1 \in 1 .. Parts(rets[1])
                        THEN Contents(rets[1], <<"res", 1>>)[n - to + 1] ELSE mem[n]]
    /\ fn' = mem[rsp][2] /\ at' = mem[rsp][3]
    /\ rsp' = rsp + 1 /\ phase' = "back" /\ calls' = Tail(calls)
    /\ UNCHANGED <<program, codes, rbp>>

Next ==
    \/ Reject \/ Compile
    \/ AllocaStep \/ ConstStep \/ MemArgStep \/ LoadStep \/ StoreStep \/ PutStep \/ ParamStep
    \/ CallStep \/ RetStep \/ BackStep \/ ExtractStep \/ ExternStep \/ Finish

Spec == Init /\ [][Next]_vars

-----------------------------------------------------------------------------
(* What a call is to do *)

(* The argument meant for a parameter, by its name or by its position. *)
Given(k) == {j \in DOMAIN program.args : Bound(program.args, j) = k}
Meant(k) == IF Given(k) = {} THEN <<"def", k>> ELSE <<"arg", CHOOSE j \in Given(k) : TRUE>>

(* The calls known to go wrong: a parameter given twice, or by name        *)
(* through a function value; a default literal for a 64-bit float, which   *)
(* is passed in single precision; and an aggregate passed by pointer, which*)
(* a later argument can still change.                                      *)
OddArg(k) ==
    \/ Cardinality(Given(k)) > 1
    \/ ~program.direct /\ HasNamed(program.args)
    \/ Given(k) = {} /\ program.params[k] = F64
    \/ k = 1 /\ program.aside /\ Classified(program.params[1], FALSE) = "pointer"

(* And results: a literal returned as a 64-bit float in a register; of two *)
(* words one that is an aggregate of floats, of which the caller does not  *)
(* see that it is one, as it does not in an aggregate from a C function.   *)
HasSse(T) == T.kind # "scalar" /\ \E n \in 1 .. Parts(T) : PartIsSse(T, n - 1)
OddResult(k) ==
    LET T == program.rets[k]
        words == RetSlots(program.rets)
    IN  \/ k \in program.literals /\ T = F64 /\ words <= 2
        \/ words = 2 /\ Len(program.rets) = 2 /\ HasSse(T)
        \/ program.extern /\ words <= 2 /\ HasSse(T)

(* A C function does not find its parameters once an aggregate has been    *)
(* split between registers and stack.                                      *)
Split ==
    \E k \in DOMAIN program.params :
        LET before == ParamWords(SubSeq(program.params, 1, k - 1))
            upTo == ParamWords(SubSeq(program.params, 1, k))
            ints == IF RetIsIndirect(G(program)) THEN 1 ELSE 0
            Count(tys, float) == Cardinality({n \in DOMAIN tys : IsFloat(tys[n]) = float})
            Room(tys, float) == (IF float THEN Len(XmmRegs) ELSE Len(ArgRegs) - ints) - Count(tys, float)
        IN  /\ program.params[k].size \in 9 .. 16
            /\ \E float \in BOOLEAN : Room(upTo, float) < 0 /\ Count(upTo, float) > Count(before, float)
            /\ \E float \in BOOLEAN : Room(before, float) > 0 /\ Count(upTo, float) > Count(before, float)

Stored(base, name, var) ==
    [n \in 1 .. codes[name].code[var].a |-> At(base - codes[name].offs[var] + n - 1)]

(* The active functions, with how far they are and where their frames are. *)
Active ==
    {<<fn, at, rbp>>} \union {<<calls[i].fn, calls[i].at, calls[i].rbp>> : i \in DOMAIN calls}

(* Every parameter of a function holds the value of the argument meant for *)
(* it, from the moment the function has stored them until it returns: what *)
(* the caller's code put into registers, on the stack or behind a pointer  *)
(* is where the callee's code looks for it, each of them counting registers*)
(* and stack words on its own (ST_emit_call_args and ST_IR_PARAM), and no  *)
(* later call of the function overwrites it.  A C function finds the same  *)
(* values by the rules of its platform.                                    *)
ArgumentsArrive ==
    LET Due(k) == Contents(program.params[k], Meant(k))
        params == {k \in DOMAIN program.params : phase \in {"run", "back", "done"} /\ ~OddArg(k)}
    IN  /\ \A X \in {Y \in Active : Y[1] = "f" \/ (Y[1] = "g" /\ ~program.extern)} :
              X[2] > codes[X[1]].pend =>
                \A k \in params : Stored(X[3], X[1], codes[X[1]].pvars[k]) = Due(k)
        /\ seen # <<>> /\ ~Split => \A k \in params : seen[k] = Due(k)

(* The results a function returns are what its caller binds to the names,  *)
(* whether they come in registers, in a buffer of the caller, or as the    *)
(* eightbytes of an aggregate (ST_IR_TERM_RET against the code after a     *)
(* call and ST_IR_EXTRACT_OP).                                             *)
ResultsArrive ==
    phase \in {"run", "back", "done"} =>
        \A X \in {Y \in Active : Y[1] \in {"main", "f"}} :
            LET own == codes[X[1]]
            IN  X[2] > own.rend =>
                  \A k \in DOMAIN program.rets :
                      OddResult(k) \/ Stored(X[3], X[1], own.rvars[k])
                                      = Contents(program.rets[k], <<"res", k>>)

(* The stack is as the next return needs it: every active function's return*)
(* address and its caller's frame pointer are untouched whatever was stored*)
(* since, a function's stack pointer is where its frame ends whenever it is*)
(* between two instructions, and it is a multiple of 16 bytes at a call.   *)
StackKept ==
    phase \in {"run", "back", "done"} =>
        LET Base(i) == IF i = 0 THEN rbp ELSE calls[i].rbp
            foreign == fn = "g" /\ program.extern
        IN  /\ \A i \in DOMAIN calls :
                  /\ ~(foreign /\ i = 1) => At(Base(i - 1)) = Address(calls[i].rbp)
                  /\ At(IF foreign /\ i = 1 THEN rsp ELSE Base(i - 1) + 1)
                        = <<"ret", calls[i].fn, calls[i].at>>
            /\ IF foreign THEN rsp % 2 = 1 ELSE rbp % 2 = 0
            /\ ~foreign /\ phase # "back" => rsp = rbp - codes[fn].frame
=============================================================================
