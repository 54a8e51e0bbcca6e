------------------------------- MODULE Scopes -------------------------------
(***************************************************************************)
(* What a local name stands for.  Three parts of the compiler walk the     *)
(* body of a function one after the other, each with a table of its own:   *)
(* the checker (st_semantic.c) a chain of scopes, the compile-time         *)
(* compiler (st_comptime_compile.c) one list of locals that it cuts at the *)
(* end of a scope, the lowering to native code (st_lower.c) one table per  *)
(* function.  The model walks a body once and keeps the three side by      *)
(* side; a body is what Next produces.                                     *)
(*                                                                         *)
(* A declaration is its number in the order of the text; 0 stands for what *)
(* the name is outside the function, a global or nothing.                  *)
(***************************************************************************)
EXTENDS Integers, Sequences, SequencesExt

CONSTANTS
  Name,
  Ignored,    \* names that begin with _ and may be declared again
  MaxDecls,   \* bound: declarations in a function
  MaxDepth    \* bound: scopes open at once

VARIABLES
  n,        \* the declarations met so far
  chain,    \* the checker's scopes, the outermost first
  opened,   \* the constructs open: "body", or "for" with its own variable
  locals,   \* the compile-time compiler's locals
  marks,    \* how many there were when each of its scopes was opened
  bind,     \* the lowering's table
  refused   \* the checker has found an error: no other part sees the body

vars == <<n, chain, opened, locals, marks, bind, refused>>

Nothing == [x \in Name |-> 0]

\* The function: parameters and body share a scope.
Init ==
  \E params \in {s \in SeqOf(Name, 2) : Len(s) <= MaxDecls} :
    LET decl(x) == SelectLastInSeq(params, LAMBDA p : p = x)
    IN  /\ n = Len(params)
        /\ \A i, j \in DOMAIN params : params[i] = params[j] => i = j \/ params[i] \in Ignored
        /\ chain = <<[x \in Name |-> decl(x)]>>
        /\ opened = <<"body">>
        /\ locals = [i \in DOMAIN params |-> [name |-> params[i], decl |-> i]]
        /\ marks = <<Len(params)>>
        /\ bind = [x \in Name |-> decl(x)]
        /\ refused = FALSE

\* ST_declare_local: the scope the name is declared in, or an error.
Declared(scope, x) == [scope EXCEPT ![x] = n + 1]

\* A variable of the body, or several bound at once.
Declare(x) ==
  /\ ~refused /\ n < MaxDecls
  /\ IF Last(chain)[x] # 0 /\ x \notin Ignored
     THEN refused' = TRUE /\ UNCHANGED <<n, chain, opened, locals, marks, bind>>
     ELSE /\ n' = n + 1
          /\ chain' = Append(Front(chain), Declared(Last(chain), x))
          /\ locals' = Append(locals, [name |-> x, decl |-> n + 1])
          /\ bind' = [bind EXCEPT ![x] = n + 1]
          /\ UNCHANGED <<opened, marks, refused>>

\* A body: of an if, a while, a case, or a block of its own.
Enter ==
  /\ ~refused /\ Len(chain) < MaxDepth
  /\ chain' = Append(chain, Nothing)
  /\ opened' = Append(opened, "body")
  /\ marks' = Append(marks, Len(locals))
  /\ UNCHANGED <<n, locals, bind, refused>>

\* A for: its variable is in the scope of its body; the compile-time compiler
\* cuts the list at its end, not at the end of the body's scope.
EnterFor(x) ==
  /\ ~refused /\ n < MaxDecls /\ Len(chain) < MaxDepth
  /\ n' = n + 1
  /\ chain' = Append(chain, Declared(Nothing, x))
  /\ opened' = Append(opened, "for")
  /\ locals' = Append(locals, [name |-> x, decl |-> n + 1])
  /\ marks' = Append(marks, Len(locals) + 1)
  /\ bind' = [bind EXCEPT ![x] = n + 1]
  /\ UNCHANGED refused

\* The end of a construct.  The lowering's table stays as it is.
Leave ==
  LET for == Last(opened) = "for"
  IN  /\ ~refused /\ Len(opened) > 1
      /\ chain' = Front(chain)
      /\ locals' = SubSeq(locals, 1, Last(marks) - (IF for THEN 1 ELSE 0))
      /\ opened' = Front(opened) /\ marks' = Front(marks)
      /\ UNCHANGED <<n, bind, refused>>

Next == Enter \/ Leave \/ \E x \in Name : Declare(x) \/ EnterFor(x)

Spec == Init /\ [][Next]_vars

-----------------------------------------------------------------------------
\* ST_sym_find: the innermost scope that has the name.
Checked(x) ==
  LET i == SelectLastInSeq(chain, LAMBDA s : s[x] # 0) IN IF i = 0 THEN 0 ELSE chain[i][x]

\* ST_ct_find_local: the last local with the name.
Compiled(x) ==
  LET i == SelectLastInSeq(locals, LAMBDA l : l.name = x) IN IF i = 0 THEN 0 ELSE locals[i].decl

\* ST_lower_scope_find.
Lowered(x) == bind[x]

\* Wherever the checker accepts the use of a local name, native code means the
\* variable the checker meant (CompiledAgrees: and so does compile-time code).
LoweredAgrees == \A x \in Name : Checked(x) # 0 => Lowered(x) = Checked(x)
CompiledAgrees == \A x \in Name : Compiled(x) = Checked(x)
=============================================================================
