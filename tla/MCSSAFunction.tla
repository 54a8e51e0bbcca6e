--------------------------- MODULE MCSSAFunction ----------------------------
(***************************************************************************)
(* The kinds of function the run of SSAFunction builds.                    *)
(***************************************************************************)
EXTENDS SSAFunction, TLC

CONSTANTS x, y

\* Graphs of four blocks, nested and crossing loops among them.
Graphs4(v) == [vars |-> {v}, dead |-> FALSE, blocks |-> 4, events |-> 2, writes |-> 2]

\* More reads and writes in a smaller graph.
Graphs3(v) == [vars |-> {v}, dead |-> FALSE, blocks |-> 3, events |-> 4, writes |-> 2]

\* Two variables in a smaller graph with code nobody branches to.
TwoVars == [vars |-> {x, y}, dead |-> TRUE, blocks |-> 3, events |-> 3, writes |-> 2]

MCProfiles == {Graphs4(v) : v \in Var} \cup {Graphs3(v) : v \in Var} \cup {TwoVars}

Symmetry == Permutations(Var)
=============================================================================
