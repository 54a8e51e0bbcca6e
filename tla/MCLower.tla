------------------------------ MODULE MCLower -------------------------------
(***************************************************************************)
(* The kinds of function the runs of Lower go through.  No kind has every  *)
(* statement: each brings together those whose lowerings meet.             *)
(***************************************************************************)
EXTENDS Lower, TLC

CONSTANTS L, M

Profile(syntax, fns, blks, defers, depth) ==
  [syntax |-> syntax, fns |-> fns, blocks |-> blks, defers |-> defers, depth |-> depth]

\* Nested constructs left early with deferred statements pending, in functions
\* of each kind.
Structured ==
  Profile({"if", "while", "loopexit", "return", "exit", "defer"},
          {"void", "value", "noreturn"}, 8, 2, 2)

\* The other constructs and expressions with blocks of their own.
Constructs ==
  Profile({"for", "switch", "short", "array", "while", "loopexit",
           "return", "defer"}, {"void"}, 8, 1, 2)

\* Labels and goto into and out of constructs, without deferred statements.
Jumps ==
  Profile({"if", "while", "loopexit", "return", "block", "jump"}, {"void"}, 8, 0, 2)

\* Bare blocks and bounds checks among constructs with deferred statements.
Scopes == Profile({"while", "block", "loopexit", "bounds", "defer"}, {"void"}, 6, 2, 3)

MCProfiles == {Structured, Constructs, Jumps, Scopes}

Symmetry == Permutations(Label)
=============================================================================
