---------------------------- MODULE SSAFunction -----------------------------
(***************************************************************************)
(* A function built through the interface of st_ir.c and then executed.    *)
(*                                                                         *)
(* While it is built, the caller fills one block after the other, reads    *)
(* and writes variables in it, closes it with a terminator, and seals      *)
(* blocks at any moment after which they get no further predecessor: the   *)
(* protocol that SealedKeepPreds of Lower says the lowering keeps to.      *)
(* Then the function runs twice at once, on its variables (mem) and on the *)
(* stack slots the backends give to values and phis (slot).                *)
(***************************************************************************)
EXTENDS SSA, Functions

CONSTANTS
  Var,         \* variables: the keys given to ST_ir_read_var
  Profiles     \* the kinds of function a run builds, each with its bounds

\* dead: whether blocks are filled that nobody has branched to.  The bounds are
\* on the blocks, the reads and writes emitted and the writes executed.
ASSUME SSAProfiles ==
  Profiles \subseteq [vars : SUBSET Var, dead : BOOLEAN, blocks : Nat \ {0},
                      events : Nat, writes : Nat \ {0}]

VARIABLES
  profile,  \* the kind of function built, chosen once
  blocks,   \* fn->blocks
  cur,      \* the block being filled, or NoBlock between two
  ssa,      \* values, definitions and incomplete phis: see SSA
  code,     \* per block the reads and writes emitted: <<op, variable, value>>
  phase,    \* "build", then "run", then "end"
  pc,       \* the block being executed and how many of its events have been
  mem,      \* what each variable holds in the source program
  slot      \* what each value's stack slot holds in the emitted program

vars == <<profile, blocks, cur, ssa, code, phase, pc, mem, slot>>

NoBlock == 0
NotRunning == <<1, 0>>

Init ==
  /\ profile \in Profiles
  /\ blocks = <<[FreshBlock EXCEPT !.sealed = TRUE, !.lowered = TRUE]>>
  /\ cur = 1
  /\ ssa = EmptySSA(profile.vars)
  /\ code = <<<<>>>>
  /\ phase = "build"
  /\ pc = NotRunning /\ mem = [x \in profile.vars |-> 0] /\ slot = <<>>

Building == phase = "build" /\ ~ssa.lost
NotRun == UNCHANGED <<profile, phase, pc, mem, slot>>

-----------------------------------------------------------------------------
Events(x) == {code[cur][i][1] : i \in {j \in DOMAIN code[cur] : code[cur][j][2] = x}}
Fits == SumFunction([b \in DOMAIN code |-> Len(code[b])]) < profile.events

\* A second read or write of a variable in a block meets the definition the
\* first left there, so one read and then one write are enough.
Write(x) ==
  /\ Building /\ cur # NoBlock /\ Fits /\ "write" \notin Events(x)
  /\ ssa' = WriteVar(Emit(ssa, cur, "def"), cur, x, Len(ssa.vals) + 1)
  /\ code' = [code EXCEPT ![cur] = Append(@, <<"write", x, Len(ssa.vals) + 1>>)]
  /\ UNCHANGED <<blocks, cur>> /\ NotRun

ReadIt(x) ==
  LET r == Read(blocks, ssa, cur, x) IN
  /\ Building /\ cur # NoBlock /\ Fits /\ Events(x) = {}
  /\ ssa' = r.s
  /\ code' = [code EXCEPT ![cur] = Append(@, <<"read", x, r.v>>)]
  /\ UNCHANGED <<blocks, cur>> /\ NotRun

\* Targets: blocks that may still get a predecessor, and n new ones.
Open == {b \in DOMAIN blocks : ~blocks[b].sealed}
Grow(n) == /\ Len(blocks) + n <= profile.blocks
           /\ ssa' = WithDefs(ssa, profile.vars, n)
           /\ code' = code \o [i \in 1..n |-> <<>>]

JumpTo ==
  /\ Building /\ cur # NoBlock
  /\ \/ \E b \in Open : blocks' = Br(blocks, cur, b) /\ UNCHANGED <<ssa, code>>
     \/ Grow(1) /\ blocks' = Br(WithBlocks(blocks, 1), cur, Len(blocks) + 1)
  /\ cur' = NoBlock
  /\ NotRun

Branch ==
  /\ Building /\ cur # NoBlock
  /\ \/ \E t, f \in Open : t < f /\ blocks' = CondBr(blocks, cur, t, f)
                           /\ UNCHANGED <<ssa, code>>
     \/ \E t \in Open : Grow(1) /\ blocks' = CondBr(WithBlocks(blocks, 1), cur,
                                                    t, Len(blocks) + 1)
     \/ Grow(2) /\ blocks' = CondBr(WithBlocks(blocks, 2), cur,
                                    Len(blocks) + 1, Len(blocks) + 2)
  /\ cur' = NoBlock
  /\ NotRun

Return ==
  /\ Building /\ cur # NoBlock
  /\ blocks' = Ret(blocks, cur)
  /\ cur' = NoBlock
  /\ UNCHANGED <<ssa, code>> /\ NotRun

\* The next block to fill: one that has been branched to, or one nobody has.
Fill ==
  /\ Building /\ cur = NoBlock
  /\ \/ \E b \in DOMAIN blocks :
          /\ ~blocks[b].lowered
          /\ blocks' = [blocks EXCEPT ![b].lowered = TRUE]
          /\ cur' = b
          /\ UNCHANGED <<ssa, code>>
     \/ /\ profile.dead /\ Grow(1)
        /\ cur' = Len(blocks) + 1
        /\ blocks' = [WithBlocks(blocks, 1) EXCEPT ![cur'].lowered = TRUE]
  /\ NotRun

\* Between two blocks: the one being filled is no predecessor yet, so sealing
\* in its middle is sealing before its first read or after its last.
SealBlock(b) ==
  LET g == Seal(blocks, b) IN
  /\ Building /\ cur = NoBlock /\ ~blocks[b].sealed
  /\ blocks' = g
  /\ ssa' = CompletePhis(g, ssa, b)
  /\ UNCHANGED <<cur, code>> /\ NotRun

Start ==
  /\ Building /\ cur = NoBlock
  /\ \A b \in DOMAIN blocks : blocks[b].sealed /\ ~IsOpen(blocks, b)
  /\ phase' = "run"
  /\ slot' = [v \in DOMAIN ssa.vals |-> 0]
  /\ UNCHANGED <<profile, blocks, cur, ssa, code, pc, mem>>

-----------------------------------------------------------------------------
\* Execution.
Here == pc[1]
Next1 == code[Here][pc[2] + 1]
AtEnd == pc[2] = Len(code[Here])
Written == CHOOSE n \in {mem[x] : x \in profile.vars} : \A x \in profile.vars : mem[x] <= n
SlotOf(v) == Chase(ssa.vals, v)
Fixed == UNCHANGED <<profile, blocks, cur, ssa, code>>

RunWrite ==
  /\ phase = "run" /\ ~AtEnd /\ Next1[1] = "write" /\ Written < profile.writes
  /\ mem'  = [mem EXCEPT ![Next1[2]] = Written + 1]
  /\ slot' = [slot EXCEPT ![SlotOf(Next1[3])] = Written + 1]
  /\ pc' = <<Here, pc[2] + 1>>
  /\ UNCHANGED phase /\ Fixed

RunRead ==
  /\ phase = "run" /\ ~AtEnd /\ Next1[1] = "read"
  /\ pc' = <<Here, pc[2] + 1>>
  /\ UNCHANGED <<phase, mem, slot>> /\ Fixed

\* The phis of a block that have an operand for the edge from b.
Incoming(phi, b) == {i \in DOMAIN ssa.vals[phi].from : ssa.vals[phi].from[i] = b}
PhisOf(to, b) == {v \in DOMAIN ssa.vals :
                    /\ ssa.vals[v].kind = "phi" /\ ssa.vals[v].repl = NoVal
                    /\ ssa.vals[v].block = to /\ Incoming(v, b) # {}}
Operand(phi, b) == ssa.vals[phi].ops[CHOOSE i \in Incoming(phi, b) :
                                       \A j \in Incoming(phi, b) : i <= j]

\* ST_generate_phi_copies pushes every operand before it pops the first.
RunEdge(to) ==
  /\ phase = "run" /\ AtEnd /\ to \in Targets(blocks, Here)
  /\ slot' = [v \in DOMAIN slot |-> IF v \in PhisOf(to, Here)
                                    THEN slot[SlotOf(Operand(v, Here))] ELSE slot[v]]
  /\ pc' = <<to, 0>>
  /\ UNCHANGED <<phase, mem>> /\ Fixed

RunRet ==
  /\ phase = "run" /\ AtEnd /\ blocks[Here].term.kind = "ret"
  /\ phase' = "end"
  /\ UNCHANGED <<pc, mem, slot>> /\ Fixed

Build == \/ \E x \in profile.vars : Write(x) \/ ReadIt(x)
         \/ JumpTo \/ Branch \/ Return \/ Fill
         \/ \E b \in DOMAIN blocks : SealBlock(b)
Run == RunWrite \/ RunRead \/ RunRet \/ \E to \in DOMAIN blocks : RunEdge(to)

Next == Build \/ Start \/ Run

Spec == Init /\ [][Next]_vars

-----------------------------------------------------------------------------
\* The emitted program reads from a value's slot what the source program has
\* in the variable, on every path, whatever the order in which blocks were
\* filled, sealed and read.
ReadsAgree ==
  phase = "run" /\ ~AtEnd /\ Next1[1] = "read" => slot[SlotOf(Next1[3])] = mem[Next1[2]]

\* A phi that stays has one operand per predecessor of its block, so that no
\* edge into the block leaves its slot as it was.
PhisComplete ==
  phase = "run" => \A v \in DOMAIN ssa.vals :
    LET u == ssa.vals[v] IN
    u.kind = "phi" /\ u.repl = NoVal => u.from = blocks[u.block].preds

\* Unless there is a loop that no run enters, every read comes back and every chain of
\* removed phis ends, in the IR and in the backends.
ReadsComeBack ==
  ssa.lost \/ (\E v \in DOMAIN ssa.vals : Endless(ssa.vals, v)) => DeadLoop(blocks)
=============================================================================
