---------------------------- MODULE MCCompilers -----------------------------
(***************************************************************************)
(* The kinds of use the run of Compilers goes through.                     *)
(***************************************************************************)
EXTENDS Compilers, TLC

CONSTANTS u, v, s, t, home, away

Use(together, stages, places, n, m) ==
  [together |-> together, kill |-> TRUE, stages |-> stages, places |-> places,
   starts |-> n, modules |-> m]

\* One run after the other, each perhaps killed: what is left behind.
Alone == Use(FALSE, {"asm", "exe"}, {home}, 2, 1)
\* Two at once, up to compile-time code, perhaps killed: the native modules.
Caches == Use(TRUE, {"dump"}, {home}, 3, 1)
\* Two at once, perhaps killed: the assembly and the object file.
BackEnds == Use(TRUE, {"obj", "run"}, {home, away}, 2, 0)

MCProfiles == {Alone, Caches, BackEnds}
=============================================================================
