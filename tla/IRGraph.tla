------------------------------ MODULE IRGraph -------------------------------
(***************************************************************************)
(* The control-flow graph of one function as st_ir.c builds it: a sequence *)
(* of blocks, each with its predecessors in the order the edges were       *)
(* added, its terminator and its sealed flag.  Operators take the graph    *)
(* and return the new one.                                                 *)
(*                                                                         *)
(* Of a block's instructions only those of deferred statements are kept,   *)
(* folded into two lists: enter, the deferred statements registered but    *)
(* not yet run when control enters the block as the lowering of the block  *)
(* assumes it, and pend, those left after the instructions emitted so far. *)
(***************************************************************************)
EXTENDS Integers, Sequences, FiniteSets

NoTerm == [kind |-> "none", to |-> <<>>]

FreshBlock == [preds |-> <<>>, sealed |-> FALSE, term |-> NoTerm,
               lowered |-> FALSE, enter |-> <<>>, pend |-> <<>>]

WithBlocks(g, n) == g \o [i \in 1..n |-> FreshBlock]

IsOpen(g, b) == g[b].term.kind = "none"

\* As a slip in the code: f never hears of its new predecessor.
ForgetSecondEdge(g, from, t, f) ==
  [g EXCEPT ![from].term = [kind |-> "condbr", to |-> <<t, f>>],
            ![t].preds   = Append(@, from)]

Br(g, from, to) ==
  [g EXCEPT ![from].term = [kind |-> "br", to |-> <<to>>],
            ![to].preds  = Append(@, from)]

CondBr(g, from, t, f) ==
  [g EXCEPT ![from].term = [kind |-> "condbr", to |-> <<t, f>>],
            ![t].preds   = Append(@, from),
            ![f].preds   = Append(@, from)]

Ret(g, b) == [g EXCEPT ![b].term = [kind |-> "ret", to |-> <<>>]]

Unreachable(g, b) == [g EXCEPT ![b].term = [kind |-> "unreachable", to |-> <<>>]]

Seal(g, b) == [g EXCEPT ![b].sealed = TRUE]

SealAll(g, bs) == [b \in DOMAIN g |-> IF b \in bs THEN Seal(g, b)[b] ELSE g[b]]

\* As a slip in the code: a join nobody reaches gets no terminator.
JoinLeftOpen(g, b) == g

\* A join nobody branches to is closed at once.
CloseUnreached(g, b) == IF g[b].preds = <<>> THEN Unreachable(g, b) ELSE g

-----------------------------------------------------------------------------
Targets(g, b) == {g[b].term.to[i] : i \in DOMAIN g[b].term.to}
Preds(g, b)   == {g[b].preds[i] : i \in DOMAIN g[b].preds}
=============================================================================
