----------------------------- MODULE MCLowerSSA -----------------------------
(***************************************************************************)
(* The kinds of function the runs of LowerSSA go through.                  *)
(***************************************************************************)
EXTENDS LowerSSA

CONSTANT L

\* Every construct that seals blocks or has a hidden variable, three deep.
Nested == [syntax |-> {"for", "short", "array", "while", "loopexit", "return", "if"},
           fns |-> {"void"}, blocks |-> 10, defers |-> 0, depth |-> 3]

\* The chain of a switch, in and around loops.
Switches == [syntax |-> {"switch", "for", "short", "loopexit", "return"},
             fns |-> {"void"}, blocks |-> 9, defers |-> 0, depth |-> 3]

\* Loops that labels and goto enter, leave and cut off.
Jumps == [syntax |-> {"for", "if", "return", "jump"},
          fns |-> {"void"}, blocks |-> 12, defers |-> 0, depth |-> 3]

\* The statements that touch no hidden variable and nest with those that do.
Scopes == [syntax |-> {"while", "short", "block", "defer", "loopexit", "bounds", "exit"},
           fns |-> {"void"}, blocks |-> 6, defers |-> 1, depth |-> 2]

MCProfiles == {Nested, Switches, Jumps, Scopes}
=============================================================================
