------------------------------ MODULE LowerSSA ------------------------------
(***************************************************************************)
(* The lowering of a function together with the SSA construction it        *)
(* drives.  Lower says which blocks are made, branched to and sealed; here *)
(* each step also does what the calls of ST_ir_block_seal, ST_ir_read_var  *)
(* and ST_ir_write_var in it do to the values of the function.             *)
(*                                                                         *)
(* The variables of storthc's SSA form are the hidden ones: the result of  *)
(* && and ||, the index of a for over an array, and the index of the loops *)
(* that zero or copy a long array.  (A variable of the program lives in a  *)
(* stack slot, the index of a for over a range too; every for is one over  *)
(* an array here.)  Each is named by a block its construct makes.          *)
(***************************************************************************)
EXTENDS Lower, SSA

VARIABLE ssa   \* values, definitions and incomplete phis: see SSA

bothVars == <<vars, ssa>>

Hidden == 1..profile.blocks

\* The steps of Lower, with the values of the blocks they add.
Added == WithDefs(ssa, Hidden, Len(blocks') - Len(blocks))

\* The graph of the step's end, with some of its blocks not sealed yet.
Before(later) == [c \in DOMAIN blocks' |->
                    IF c \in later THEN [blocks'[c] EXCEPT !.sealed = FALSE] ELSE blocks'[c]]

\* One after the other; a call that does not come back is the last.
Define(s, b, x)      == IF s.lost THEN s ELSE WriteVar(Emit(s, b, "def"), b, x, Len(s.vals) + 1)
ReadIn(g, s, b, x)   == IF s.lost THEN s ELSE Read(g, s, b, x).s
SealIn(g, s, b)      == IF s.lost THEN s ELSE CompletePhis(g, s, b)

\* Every block the step seals completes its phis, in the order of the blocks.
SealedNow == {b \in DOMAIN blocks' : blocks'[b].sealed
                /\ ~(b \in DOMAIN blocks /\ blocks[b].sealed)}
Completed(s, bs) ==
  LET after[b \in 0..Len(blocks')] ==
        IF b = 0 THEN s
        ELSE IF b \in bs THEN SealIn(Before({c \in bs : c > b}), after[b - 1], b)
        ELSE after[b - 1]
  IN  after[Len(blocks')]

\* As a slip in the code: the index does not start before the loop.
IndexNotStarted ==
  LET begin == Len(blocks) + 1
  IN  Completed(ReadIn(Before(SealedNow), Added, begin, begin), SealedNow)

\* A loop over an array: the index starts at 0 before it, the head reads it.
ForSSA ==
  LET begin == Len(blocks) + 1
  IN  Completed(ReadIn(Before(SealedNow), Define(Added, cur, begin), begin, begin), SealedNow)

\* The step of a for reads the index and writes the next before the head is sealed.
StepSSA ==
  LET step == Top.step
      g    == Before(SealedNow \ {step})
      read == ReadIn(g, SealIn(g, Added, step), step, Top.begin)
  IN  Completed(Define(read, step, Top.begin), SealedNow \ {step})

\* A loop over elements reads it in its body instead, before the elements.
ArraySSA == LET begin == Len(blocks) + 1
            IN  ReadIn(Before({}), ForSSA, begin + 1, begin)
ElemSSA  == Completed(Define(Added, cur, Top.begin), SealedNow)

\* && and || write the result before the branch and after the right operand.
ShortSSA == Completed(Define(Added, cur, Len(blocks) + 2), SealedNow)
JoinSSA  ==
  LET s == Completed(Define(Added, cur, Top.end), SealedNow)
  IN  IF blocks'[Top.end].preds = <<>> THEN s ELSE ReadIn(Before({}), s, Top.end, Top.end)

SSAInit == Init /\ ssa = EmptySSA(Hidden)

\* Steps that touch no hidden variable: their blocks are added and sealed.
NoHidden == BoundsCheck \/ Leaving \/ Defer \/ Jump \/ If \/ While \/ Switch
            \/ BareBlock \/ EndFn

SSANext ==
  /\ ~ssa.lost
  /\ \/ BeginFor   /\ ssa' = ForSSA
     \/ EndFor     /\ ssa' = StepSSA
     \/ BeginArray /\ ssa' = ArraySSA
     \/ EndArray   /\ ssa' = ElemSSA
     \/ BeginShort /\ ssa' = ShortSSA
     \/ EndShort   /\ ssa' = JoinSSA
     \/ NoHidden   /\ ssa' = Completed(Added, SealedNow)

SSASpec == SSAInit /\ [][SSANext]_bothVars

-----------------------------------------------------------------------------
\* Every read of a variable comes back and every chain of removed phis ends,
\* however the constructs of a function were nested and left: the loop of
\* ST_ir_read_var and that of ST_slot in the backends terminate, and so does
\* the recursion of ST_ir_read_var over the predecessors.
CompilerComesBack == ~ssa.lost /\ \A v \in DOMAIN ssa.vals : ~Endless(ssa.vals, v)

\* That fails only where goto has left a loop no run of the function enters.
HangsInDeadLoopsOnly ==
  CompilerComesBack \/ (LabelBlocks # {} /\ DeadLoop(blocks))

\* The lowering reads a hidden variable where its definition reaches it: the
\* search never comes out at the entry block, where it would make up a zero,
\* unless a label in the function lets goto enter a construct from outside.
\* (In a block nobody branches to, as the step of a loop whose body always
\* leaves, it may.)
DefinedBeforeRead ==
  LabelBlocks = {} =>
    \A v \in DOMAIN ssa.vals : ssa.vals[v].kind = "zero" => ssa.vals[v].block # 1
=============================================================================
