------------------------------ MODULE Comptime ------------------------------
(***************************************************************************)
(* The compile-time machine (ST_ct_run of st_comptime.c) at work on a      *)
(* program that the compiler of CtCompile has turned into bytecode.        *)
(*                                                                         *)
(* Frames: base is the height of the stack below the running function's    *)
(* parameters and locals, slot n of a frame the value at base + n.  The    *)
(* functions read and emit are native: what read returns is the tape the   *)
(* environment has chosen, 0 at its end; emit keeps its argument in out.   *)
(***************************************************************************)
EXTENDS CtReference

CONSTANTS
  Programs,    \* functions from the names of a program's functions
  Tapes,       \* what read() may return, one after the other
  StackMax,    \* ST_CT_STACK_MAX
  FramesMax,   \* ST_CT_FRAMES_MAX
  MemMax,      \* the scratch memory, in variables
  Fuel         \* bound: iterations, jumps and calls of a program

VARIABLES
  prog,      \* the program
  tape,      \* what read() returns in this run
  unit,      \* its bytecode and what the compiler planned
  ip, stack, base, frames, mem,
  input,     \* the rest of the tape
  out,       \* what was emitted
  status,    \* "run", "done", "stopped", or why the machine failed
  result     \* the value of the program, or the parts of its error

vars == <<prog, tape, unit, ip, stack, base, frames, mem, input, out, status, result>>
fixed == <<prog, tape, unit>>

(***************************************************************************)
(* The checker refuses a jump back with no statement between it and its    *)
(* label that it takes for a way out (ST_check_infinite_goto_loops).       *)
(***************************************************************************)
Branching == {"if", "while", "switch", "range", "array", "return", "break", "continue"}

RECURSIVE LoopsForever(_)
LoopsForever(body) ==
  \/ \E i, j \in DOMAIN body :
       /\ i < j /\ body[i].k = "label" /\ body[j].k = "goto" /\ body[i].label = body[j].label
       /\ \A m \in i..j : body[m].k \notin Branching
  \/ \E i \in DOMAIN body :
       \/ \E n \in DOMAIN InnerBodies(body[i]) : LoopsForever(InnerBodies(body[i])[n])
       \/ body[i].k = "defer" /\ LoopsForever(<<body[i].s>>)

\* Programs the checker and the compiler accept and that come to an end.
Init ==
  /\ prog \in {P \in Programs : \A fn \in DOMAIN P : ~LoopsForever(P[fn].body)}
  /\ tape \in Tapes
  /\ unit = LET c == CompileProgram(prog, "main")
            IN  [code |-> c.code, plan |-> c.plan, failed |-> c.failed]
  /\ ~unit.failed
  /\ Reference(prog, "main", tape, Fuel).sig # "fuel"
  /\ ip = 1 /\ stack = <<>> /\ base = 0 /\ frames = <<>> /\ mem = <<>>
  /\ input = tape /\ out = <<>>
  /\ status = "run" /\ result = <<>>

-----------------------------------------------------------------------------
At(op) == status = "run" /\ unit.code[ip][1] = op
Arg == unit.code[ip][2]

Top == stack[Len(stack)]
Under == stack[Len(stack) - 1]
Below(n) == SubSeq(stack, 1, Len(stack) - n)

FailWith(why) == /\ status' = why
                 /\ UNCHANGED <<fixed, ip, stack, base, frames, mem, input, out, result>>

\* The stack becomes st and the machine goes on at to; a push on a full stack
\* fails.
Becomes(st, to) ==
  /\ status' = IF Len(st) > StackMax THEN "overflow" ELSE "run"
  /\ stack' = SubSeq(st, 1, IF Len(st) > StackMax THEN StackMax ELSE Len(st))
  /\ ip' = to
  /\ UNCHANGED <<fixed, result>>

\* An operation on n values that are there.
With(n, st) == /\ IF Len(stack) < n THEN FailWith("underflow")
                  ELSE Becomes(st, ip + 1) /\ UNCHANGED <<base, frames, mem, input, out>>

Const == At("CONST") /\ With(0, Append(stack, Arg))
PushNil == At("NIL") /\ With(0, Append(stack, <<"nil">>))
PushBool == /\ status = "run" /\ unit.code[ip][1] \in {"TRUE", "FALSE"}
            /\ With(0, Append(stack, <<"bool", unit.code[ip][1] = "TRUE">>))
Pop == At("POP") /\ With(1, Below(1))
Dup == At("DUP") /\ With(1, Append(stack, Top))

\* Arithmetic and order are for numbers; values of two kinds are not equal.
Binary ==
  /\ status = "run" /\ unit.code[ip][1] \in {"ADD", "LT", "LE", "EQ"}
  /\ IF Len(stack) < 2 THEN FailWith("underflow")
     ELSE IF unit.code[ip][1] # "EQ" /\ (Top[1] # "int" \/ Under[1] # "int") THEN FailWith("kind")
     ELSE With(2, Append(Below(2), Apply(unit.code[ip][1], Under, Top)))

GetLocal ==
  /\ At("GET_LOCAL")
  /\ IF base + Arg > Len(stack) THEN FailWith("slot")
     ELSE With(0, Append(stack, stack[base + Arg]))

\* The value stays on top.
SetLocal ==
  /\ At("SET_LOCAL")
  /\ IF base + Arg > Len(stack) THEN FailWith("slot")
     ELSE With(0, [stack EXCEPT ![base + Arg] = Top])

Jump == /\ status = "run" /\ unit.code[ip][1] \in {"JMP", "LOOP"}
        /\ Becomes(stack, Arg)
        /\ UNCHANGED <<base, frames, mem, input, out>>

JumpIfFalse ==
  /\ At("JMP_IF_FALSE")
  /\ IF stack = <<>> THEN FailWith("underflow")
     ELSE /\ Becomes(Below(1), IF Truthy(Top) THEN ip + 1 ELSE Arg)
          /\ UNCHANGED <<base, frames, mem, input, out>>

-----------------------------------------------------------------------------
(***************************************************************************)
(* Memory and lists.  Memory is given out and never taken back.            *)
(***************************************************************************)
AllocZeroed ==
  /\ At("ALLOC_ZEROED")
  /\ IF Len(mem) >= MemMax THEN FailWith("memory")
     ELSE /\ Becomes(Append(stack, <<"ptr", Len(mem) + 1>>), ip + 1)
          /\ mem' = Append(mem, <<"int", 0>>)
          /\ UNCHANGED <<base, frames, input, out>>

PtrLoad ==
  /\ At("PTR_LOAD")
  /\ IF stack = <<>> THEN FailWith("underflow")
     ELSE IF Top[1] # "ptr" THEN FailWith("kind")
     ELSE With(1, Append(Below(1), mem[Top[2]]))

\* What is not a pointer, a function or a number is stored as 0; the value
\* stays on top.
PtrStore ==
  /\ At("PTR_STORE")
  /\ IF Len(stack) < 2 THEN FailWith("underflow")
     ELSE IF Under[1] # "ptr" THEN FailWith("kind")
     ELSE /\ Becomes(Append(Below(2), Top), ip + 1)
          /\ mem' = [mem EXCEPT ![Under[2]] =
                       CASE Top[1] \in {"ptr", "int"} -> Top
                         [] Top[1] = "bool" -> <<"int", IF Top[2] THEN 1 ELSE 0>>
                         [] OTHER -> <<"int", 0>>]
          /\ UNCHANGED <<base, frames, input, out>>

MakeStruct == /\ At("MAKE_STRUCT")
              /\ With(Arg, Append(Below(Arg), <<"list", SubSeq(stack, Len(stack) - Arg + 1, Len(stack))>>))

StrLen ==
  /\ At("STR_LEN")
  /\ IF Top[1] # "list" THEN FailWith("kind") ELSE With(1, Append(Below(1), <<"int", Len(Top[2])>>))

StructIndex ==
  /\ At("STRUCT_INDEX")
  /\ IF Under[1] # "list" \/ Top[1] # "int" THEN FailWith("kind")
     ELSE IF Top[2] \notin 0..(Len(Under[2]) - 1) THEN FailWith("bounds")
     ELSE With(2, Append(Below(2), Under[2][Top[2] + 1]))

-----------------------------------------------------------------------------
(***************************************************************************)
(* Calls.  A list cannot be handed to native code.                         *)
(***************************************************************************)
NativeArg == /\ At("NATIVE_ARG")
             /\ IF Top[1] = "list" THEN FailWith("kind") ELSE With(1, Append(Below(1), Top))

CallNative ==
  LET fn == Arg[1] n == Arg[2]
      args == SubSeq(stack, Len(stack) - n + 1, Len(stack))
  IN  /\ At("CALL_NATIVE")
      /\ IF Len(stack) < n THEN FailWith("underflow")
         ELSE /\ Becomes(Append(Below(n), <<"int", IF fn = "read" /\ input # <<>> THEN Head(input) ELSE 0>>),
                         ip + 1)
              /\ input' = IF fn = "read" /\ input # <<>> THEN Tail(input) ELSE input
              /\ out' = IF fn = "emit" THEN out \o args ELSE out
              /\ UNCHANGED <<base, frames, mem>>

CallFn ==
  /\ At("CALL")
  /\ IF Arg[2] > Len(stack) THEN FailWith("arguments")
     ELSE IF Len(frames) >= FramesMax THEN FailWith("frames")
     ELSE /\ Becomes(stack, Arg[1])
          /\ frames' = Append(frames, [ip |-> ip + 1, base |-> base])
          /\ base' = Len(stack) - Arg[2]
          /\ UNCHANGED <<mem, input, out>>

\* The frame is dropped, the values vs take the place of the arguments.
Resume(vs) ==
  /\ Becomes(SubSeq(stack, 1, base) \o vs, frames[Len(frames)].ip)
  /\ base' = frames[Len(frames)].base
  /\ frames' = SubSeq(frames, 1, Len(frames) - 1)
  /\ UNCHANGED <<mem, input, out>>

Finish(vs, how) == /\ status' = how /\ result' = vs
                   /\ UNCHANGED <<fixed, ip, stack, base, frames, mem, input, out>>

Return ==
  LET vs == SubSeq(stack, Len(stack) - Arg + 1, Len(stack))
  IN  /\ At("RETURN")
      /\ IF Len(stack) < Arg THEN FailWith("underflow")
         ELSE IF frames = <<>> THEN Finish(<<vs[1]>>, "done")
         ELSE Resume(vs)

Halt == /\ At("HALT")
        /\ IF frames = <<>> THEN Finish(<<<<"nil">>>>, "done") ELSE Resume(<<<<"nil">>>>)

CompError == /\ At("COMP_ERROR")
             /\ Finish(SubSeq(stack, Len(stack) - Arg + 1, Len(stack)), "stopped")

Next == \/ Const \/ PushNil \/ PushBool \/ Pop \/ Dup \/ Binary
        \/ GetLocal \/ SetLocal \/ Jump \/ JumpIfFalse
        \/ AllocZeroed \/ PtrLoad \/ PtrStore \/ MakeStruct \/ StrLen \/ StructIndex
        \/ NativeArg \/ CallNative \/ CallFn \/ Return \/ Halt \/ CompError

Spec == Init /\ [][Next]_vars

-----------------------------------------------------------------------------
Resources == {"overflow", "frames", "memory"}

\* The stack is exactly as high as the compiler counted on: where a statement
\* begins, the frame holds the function's parameters, the locals in scope and
\* the values about to be returned, on every path that leads there - around and
\* out of loops, through jumps, deferred statements and calls.
StackAsPlanned ==
  status = "run" =>
    \A p \in unit.plan : p[1] = ip => Len(stack) - base = p[2]

Agrees(ref) ==
  ref.odd = {} =>
    CASE status = "done" -> /\ ref.sig \in {"next", "return"} /\ out = ref.out
                            /\ result = IF ref.ret = <<>> THEN <<<<"nil">>>> ELSE ref.ret
      [] status = "stopped" -> ref.sig = "stop" /\ out = ref.out /\ result = ref.ret
      [] OTHER -> status \in Resources /\ out = SubSeq(ref.out, 1, Len(out))

\* The bytecode does what the program says: emits the same values in the same
\* order, ends the same way, and fails only for want of room.
RunAgrees == status # "run" => Agrees(Reference(prog, "main", tape, Fuel))
=============================================================================
