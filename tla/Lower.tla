------------------------------- MODULE Lower --------------------------------
(***************************************************************************)
(* Lowering the statements of one function to the block graph:             *)
(* ST_lower_fn_body and ST_lower_stmt of middle/st_lower.c.                *)
(*                                                                         *)
(* An action is what the lowering does on meeting one piece of a function  *)
(* body: a simple statement, the opening of a construct (the calls before  *)
(* its body is lowered), or its close (the calls after).  The program is   *)
(* not given in advance: every body the checker of st_semantic.c accepts,  *)
(* up to the bounds, is some behaviour.  A deferred statement is straight  *)
(* line code here, so ST_lower_run_defers is part of the step calling it.  *)
(***************************************************************************)
EXTENDS IRGraph

CONSTANTS
  Label,        \* label names
  Profiles      \* the kinds of function a run lowers: what they use, and bounds

Kinds == {"if", "while", "for", "switch", "block", "loopexit", "return", "exit",
          "defer", "short", "bounds", "array", "jump"}

\* syntax: the statements used; fns: what the function may return; then the
\* bounds on its blocks, its defer statements and the nesting of constructs.
ASSUME LowerProfiles ==
  Profiles \subseteq [syntax : SUBSET Kinds, fns : SUBSET {"void", "value", "noreturn"},
                      blocks : Nat \ {0}, defers : Nat, depth : Nat \ {0}]

VARIABLES
  profile,    \* the kind of function lowered, chosen once
  fnKind,     \* what the signature says the function returns
  blocks,     \* c->fn's blocks, in creation order
  cur,        \* c->cur
  items,      \* c->defers.items: cutting count does not erase the rest
  count,      \* c->defers.count
  open,       \* activations of ST_lower_stmt and ST_lower_body, outermost first
  labels,     \* c->labels: block of a label mentioned so far, or NoBlock
  declared,   \* labels whose statement has been passed, skipped ones included
  depthOf,    \* history: constructs around each defer statement met, in order
  errors,     \* c->diag.n_errors # 0
  phase       \* "body" while statements are lowered, then "done"

vars == <<profile, fnKind, blocks, cur, items, count, open, labels, declared,
          depthOf, errors, phase>>

-----------------------------------------------------------------------------
NoBlock == 0
Misrun  == <<0>>   \* a deferred statement ran that was not the one due

\* tight: the labels of this statement list no branch has followed yet.
Frame == [kind |-> "fn", mark |-> 0, begin |-> NoBlock, step |-> NoBlock,
          end |-> NoBlock, alt |-> NoBlock, tight |-> {}]

Top  == open[Len(open)]
Pop  == SubSeq(open, 1, Len(open) - 1)
Swap(f) == [open EXCEPT ![Len(open)] = f]
Branched == Swap([Top EXCEPT !.tight = {}])

BodyKinds == {"fn", "then", "else", "while", "for", "case", "default", "block"}
LoopKinds == {"while", "for"}

Live    == IsOpen(blocks, cur)
InBody  == phase = "body" /\ Top.kind \in BodyKinds
InExpr  == phase = "body" /\ Top.kind \in BodyKinds \cup {"head", "short"}
Fits(n) == Len(blocks) + n <= profile.blocks
Nests   == Len(open) <= profile.depth
Uses(s) == s \in profile.syntax

\* Statements other than a label are lowered only while the block is open.
Stmt(s)   == Uses(s) /\ InBody /\ Live
Opens(s, n) == Stmt(s) /\ Nests /\ Fits(n)

\* c->loop: the innermost loop whose body is being lowered.
Loops == {i \in DOMAIN open : open[i].kind \in LoopKinds}
Loop  == open[CHOOSE i \in Loops : \A j \in Loops : j <= i]

-----------------------------------------------------------------------------
\* Deferred statements.
Pending(n) == SubSeq(items, 1, n)

Discharge(pend, run) ==
  LET left == Len(pend) - Len(run) IN
  IF left >= 0 /\ SubSeq(pend, left + 1, Len(pend)) = run
    THEN SubSeq(pend, 1, left) ELSE Misrun

\* As slips in the code: oldest first; one too few.
RunsOldestFirst(g, mark) ==
  LET due == SubSeq(items, mark + 1, count)
      rev == [i \in 1..Len(due) |-> due[Len(due) + 1 - i]]
  IN [g EXCEPT ![cur].pend = Discharge(@, rev)]

\* Emits the deferred statements above the mark, newest first.
RunDefers(g, mark) ==
  [g EXCEPT ![cur].pend = Discharge(@, SubSeq(items, mark + 1, count))]

\* As a slip in the code: the list is not cut.
KeepsDeferCount(g, b, n) ==
  /\ blocks' = [g EXCEPT ![b].lowered = TRUE, ![b].enter = Pending(n),
                         ![b].pend = Pending(n)]
  /\ cur' = b
  /\ count' = count

\* The block becomes c->cur with n deferred statements on the list.
StartBlock(g, b, n) ==
  /\ blocks' = [g EXCEPT ![b].lowered = TRUE, ![b].enter = Pending(n),
                         ![b].pend = Pending(n)]
  /\ cur' = b
  /\ count' = n

\* ST_lower_start_dead_block, after control left for good.
StartDeadBlock(g, n) ==
  LET dead == Len(g) + 1
  IN StartBlock(Unreachable(Seal(WithBlocks(g, 1), dead), dead), dead, n)

\* As slips in the code: a body that left branches once more; a body that
\* ends normally does not branch.
BranchesAnyway(g, to) == Br(RunDefers(g, Top.mark), cur, to)
FallsOffBody(g, to) == IF IsOpen(g, cur) THEN RunDefers(g, Top.mark) ELSE g

\* The end of a body: leave for the target unless control has left already.
CloseBody(g, to) ==
  IF IsOpen(g, cur) THEN Br(RunDefers(g, Top.mark), cur, to) ELSE g

-----------------------------------------------------------------------------
Init ==
  /\ profile \in Profiles /\ fnKind \in profile.fns
  /\ blocks = <<[FreshBlock EXCEPT !.sealed = TRUE, !.lowered = TRUE]>>
  /\ cur = 1
  /\ items = <<>> /\ count = 0 /\ depthOf = <<>>
  /\ open = <<Frame>>
  /\ labels = [l \in Label |-> NoBlock] /\ declared = {}
  /\ errors = FALSE /\ phase = "body"

StmtFrame == UNCHANGED <<profile, fnKind, items, labels, declared, depthOf, errors, phase>>

-----------------------------------------------------------------------------
\* Expressions that branch.
BeginShort ==
  LET rhs == Len(blocks) + 1  join == Len(blocks) + 2 IN
  /\ Uses("short") /\ InExpr /\ Live /\ Nests /\ Fits(2)
  /\ StartBlock(Seal(CondBr(WithBlocks(blocks, 2), cur, rhs, join), rhs), rhs, count)
  /\ open' = Append(open, [Frame EXCEPT !.kind = "short", !.end = join])
  /\ StmtFrame

EndShort ==
  LET g == IF Live THEN Br(blocks, cur, Top.end) ELSE blocks IN
  /\ phase = "body" /\ Top.kind = "short"
  /\ StartBlock(CloseUnreached(Seal(g, Top.end), Top.end), Top.end, count)
  /\ open' = Pop
  /\ StmtFrame

BoundsCheck ==
  LET fail == Len(blocks) + 1  ok == Len(blocks) + 2
      g    == CondBr(WithBlocks(blocks, 2), cur, fail, ok) IN
  /\ Uses("bounds") /\ InExpr /\ Live /\ Fits(2)
  /\ StartBlock(Seal(Unreachable(Seal(g, fail), fail), ok), ok, count)
  /\ UNCHANGED open /\ StmtFrame

\* A loop's head with its test, and the body it guards, sealed.
WithLoopHead(g, begin, body, end) ==
  LET h == [Br(g, cur, begin) EXCEPT ![begin].lowered = TRUE,
              ![begin].enter = Pending(count), ![begin].pend = Pending(count)]
  IN Seal(CondBr(h, begin, body, end), body)

\* The loop that zeroes or copies a long array; its elements may be arrays.
BeginArray ==
  LET begin == Len(blocks) + 1  body == Len(blocks) + 2  end == Len(blocks) + 3 IN
  /\ Uses("array") /\ phase = "body" /\ Top.kind \in BodyKinds \cup {"array"}
  /\ Live /\ Nests /\ Fits(3)
  /\ StartBlock(WithLoopHead(WithBlocks(blocks, 3), begin, body, end), body, count)
  /\ open' = Append(open, [Frame EXCEPT !.kind = "array", !.begin = begin, !.end = end])
  /\ StmtFrame

EndArray ==
  /\ phase = "body" /\ Top.kind = "array"
  /\ StartBlock(SealAll(Br(blocks, cur, Top.begin), {Top.begin, Top.end}), Top.end, count)
  /\ open' = Pop
  /\ StmtFrame

-----------------------------------------------------------------------------
\* Statements after which control does not come back.
NoReturnCall ==
  /\ Stmt("exit") /\ Fits(1)
  /\ StartDeadBlock(Unreachable(RunDefers(blocks, 0), cur), 0)
  /\ UNCHANGED open /\ StmtFrame

Return ==
  /\ Stmt("return") /\ Fits(1) /\ fnKind # "noreturn"
  /\ StartDeadBlock(Ret(RunDefers(blocks, 0), cur), 0)
  /\ open' = Branched /\ StmtFrame

LeaveLoop(to) ==
  StartDeadBlock(Br(RunDefers(blocks, Loop.mark), cur, to), Loop.mark)

Break ==
  /\ Stmt("loopexit") /\ Loops # {} /\ Fits(1)
  /\ LeaveLoop(Loop.end)
  /\ open' = Branched /\ StmtFrame

Continue ==
  /\ Stmt("loopexit") /\ Loops # {} /\ Fits(1)
  /\ LeaveLoop(Loop.step)
  /\ open' = Branched /\ StmtFrame

\* 'break': used outside of a loop
LoopExitOutsideLoop ==
  /\ Stmt("loopexit") /\ Loops = {}
  /\ errors' = TRUE
  /\ open' = Branched
  /\ UNCHANGED <<profile, fnKind, blocks, cur, items, count, labels, declared,
                 depthOf, phase>>

-----------------------------------------------------------------------------

\* The append to c->defers: the next slot, whether or not it was used before.
StoreDefer(list, n, d) ==
  IF n < Len(list) THEN [list EXCEPT ![n + 1] = d] ELSE Append(list, d)

\* A bare block runs no deferred statement at its end: it is no scope to them.
Depth == Cardinality({i \in DOMAIN open : open[i].kind # "block"})

Defer ==
  LET d == Len(depthOf) + 1 IN
  /\ Stmt("defer") /\ d <= profile.defers
  /\ items' = StoreDefer(items, count, d)
  /\ count' = count + 1
  /\ blocks' = [blocks EXCEPT ![cur].pend = Append(@, d)]
  /\ depthOf' = Append(depthOf, Depth)
  /\ UNCHANGED <<profile, fnKind, cur, open, labels, declared, errors, phase>>

-----------------------------------------------------------------------------
\* Labels and goto.
LabelBlock(l) == IF labels[l] = NoBlock THEN Len(blocks) + 1 ELSE labels[l]
WithLabelBlock(l) == IF labels[l] = NoBlock THEN WithBlocks(blocks, 1) ELSE blocks

PlaceLabel(l) ==
  LET b == LabelBlock(l)
      g == WithLabelBlock(l) IN
  /\ Uses("jump") /\ InBody /\ l \notin declared /\ Len(g) <= profile.blocks
  /\ StartBlock(IF Live THEN Br(g, cur, b) ELSE g, b, count)
  /\ labels' = [labels EXCEPT ![l] = b]
  /\ declared' = declared \cup {l}
  /\ open' = Swap([Top EXCEPT !.tight = @ \cup {l}])
  /\ UNCHANGED <<profile, fnKind, items, depthOf, errors, phase>>

\* st_semantic.c refuses a goto back over code without a branch.
Goto(l) ==
  /\ Stmt("jump") /\ Len(WithLabelBlock(l)) < profile.blocks /\ l \notin Top.tight
  /\ StartDeadBlock(Br(RunDefers(WithLabelBlock(l), 0), cur, LabelBlock(l)), 0)
  /\ labels' = [labels EXCEPT ![l] = LabelBlock(l)]
  /\ UNCHANGED <<profile, fnKind, items, open, declared, depthOf, errors, phase>>

\* A construct met after control has left is skipped with the label in it.
SkipConstruct(l) ==
  /\ Uses("jump") /\ InBody /\ ~Live /\ l \notin declared
  /\ declared' = declared \cup {l}
  /\ open' = Branched
  /\ UNCHANGED <<profile, fnKind, blocks, cur, items, count, labels, depthOf,
                 errors, phase>>

-----------------------------------------------------------------------------
\* if
BeginIf(hasElse) ==
  LET then == Len(blocks) + 1
      els  == IF hasElse THEN Len(blocks) + 2 ELSE NoBlock
      join == Len(blocks) + (IF hasElse THEN 3 ELSE 2)
      g    == CondBr(WithBlocks(blocks, join - Len(blocks)), cur, then,
                     IF hasElse THEN els ELSE join) IN
  /\ Opens("if", IF hasElse THEN 3 ELSE 2)
  /\ StartBlock(Seal(g, then), then, count)
  /\ open' = Append(Branched, [Frame EXCEPT !.kind = "then", !.mark = count,
                                          !.end = join, !.alt = els])
  /\ StmtFrame

Join(g) == CloseUnreached(Seal(g, Top.end), Top.end)

EndThen ==
  LET g == CloseBody(blocks, Top.end) IN
  /\ InBody /\ Top.kind = "then"
  /\ IF Top.alt = NoBlock
       THEN StartBlock(Join(g), Top.end, Top.mark) /\ open' = Pop
       ELSE /\ StartBlock(Seal(g, Top.alt), Top.alt, Top.mark)
            /\ open' = Swap([Top EXCEPT !.kind = "else", !.alt = NoBlock, !.tight = {}])
  /\ StmtFrame

EndElse ==
  /\ InBody /\ Top.kind = "else"
  /\ StartBlock(Join(CloseBody(blocks, Top.end)), Top.end, Top.mark)
  /\ open' = Pop
  /\ StmtFrame

-----------------------------------------------------------------------------
\* while: the condition is lowered in while_begin and may itself branch.
BeginWhile ==
  LET begin == Len(blocks) + 1  body == Len(blocks) + 2  end == Len(blocks) + 3 IN
  /\ Opens("while", 3)
  /\ StartBlock(Br(WithBlocks(blocks, 3), cur, begin), begin, count)
  /\ open' = Append(Branched, [Frame EXCEPT !.kind = "head", !.begin = begin,
                               !.step = begin, !.end = end, !.alt = body])
  /\ StmtFrame

\* As a slip in the code: the head is sealed before its back edge exists.
SealsHeadTooSoon ==
  LET body == Top.alt IN
  /\ phase = "body" /\ Top.kind = "head"
  /\ StartBlock(SealAll(CondBr(blocks, cur, body, Top.end), {body, Top.begin}), body, count)
  /\ open' = Swap([Top EXCEPT !.kind = "while", !.mark = count, !.alt = NoBlock])
  /\ StmtFrame

EnterWhile ==
  LET body == Top.alt IN
  /\ phase = "body" /\ Top.kind = "head"
  /\ StartBlock(Seal(CondBr(blocks, cur, body, Top.end), body), body, count)
  /\ open' = Swap([Top EXCEPT !.kind = "while", !.mark = count, !.alt = NoBlock])
  /\ StmtFrame

EndWhile ==
  LET g == CloseBody(blocks, Top.begin) IN
  /\ InBody /\ Top.kind = "while"
  /\ StartBlock(SealAll(g, {Top.begin, Top.end}), Top.end, Top.mark)
  /\ open' = Pop
  /\ StmtFrame

-----------------------------------------------------------------------------
\* for over a range or an array: the two build the same blocks.
BeginFor ==
  LET begin == Len(blocks) + 1  body == Len(blocks) + 2
      step  == Len(blocks) + 3  end  == Len(blocks) + 4 IN
  /\ Opens("for", 4)
  /\ StartBlock(WithLoopHead(WithBlocks(blocks, 4), begin, body, end), body, count)
  /\ open' = Append(Branched, [Frame EXCEPT !.kind = "for", !.mark = count,
                               !.begin = begin, !.step = step, !.end = end])
  /\ StmtFrame

EndFor ==
  LET closed == Seal(CloseBody(blocks, Top.step), Top.step)
      g == [closed EXCEPT ![Top.step].lowered = TRUE,
                          ![Top.step].enter = Pending(Top.mark),
                          ![Top.step].pend = Pending(Top.mark)] IN
  /\ InBody /\ Top.kind = "for"
  /\ StartBlock(SealAll(Br(g, Top.step, Top.begin), {Top.begin, Top.end}),
                Top.end, Top.mark)
  /\ open' = Pop
  /\ StmtFrame

-----------------------------------------------------------------------------
\* switch: a chain of tests, the default body at the end of the chain.
BeginSwitch ==
  /\ Opens("switch", 1)
  /\ blocks' = WithBlocks(blocks, 1)
  /\ open' = Append(Branched, [Frame EXCEPT !.kind = "switch", !.mark = count,
                                          !.end = Len(blocks) + 1])
  /\ UNCHANGED <<cur, count>> /\ StmtFrame

BeginCase ==
  LET body == Len(blocks) + 1  next == Len(blocks) + 2 IN
  /\ phase = "body" /\ Top.kind = "switch" /\ Fits(2)
  /\ StartBlock(Seal(CondBr(WithBlocks(blocks, 2), cur, body, next), body), body, count)
  /\ open' = Swap([Top EXCEPT !.kind = "case", !.alt = next])
  /\ StmtFrame

EndCase ==
  LET next == Top.alt IN
  /\ InBody /\ Top.kind = "case"
  /\ StartBlock(Seal(CloseBody(blocks, Top.end), next), next, Top.mark)
  /\ open' = Swap([Top EXCEPT !.kind = "switch", !.alt = NoBlock, !.tight = {}])
  /\ StmtFrame

BeginDefault ==
  /\ phase = "body" /\ Top.kind = "switch"
  /\ open' = Swap([Top EXCEPT !.kind = "default"])
  /\ UNCHANGED <<blocks, cur, count>> /\ StmtFrame

\* With no default the chain itself falls through to the join.
EndSwitch ==
  LET g == CASE Top.kind = "default" -> CloseBody(blocks, Top.end)
             [] Top.kind = "switch"  -> IF Live THEN Br(blocks, cur, Top.end) ELSE blocks IN
  /\ phase = "body" /\ Top.kind \in {"switch", "default"}
  /\ StartBlock(Join(g), Top.end, Top.mark)
  /\ open' = Pop
  /\ StmtFrame

-----------------------------------------------------------------------------
\* A bare block: its statements one after the other and nothing else.
BeginBlock ==
  /\ Opens("block", 0)
  /\ open' = Append(open, [Frame EXCEPT !.kind = "block", !.mark = count])
  /\ UNCHANGED <<blocks, cur, count>> /\ StmtFrame

EndBlock ==
  /\ InBody /\ Top.kind = "block"
  /\ open' = Pop
  /\ UNCHANGED <<blocks, cur, count>> /\ StmtFrame

-----------------------------------------------------------------------------
LabelBlocks == {labels[l] : l \in Label} \ {NoBlock}

\* st_semantic.c has checked that every goto names a label of the function.
EndFn ==
  LET g == SealAll(blocks, LabelBlocks) IN
  /\ phase = "body" /\ Top.kind = "fn"
  /\ \A l \in Label : labels[l] # NoBlock => l \in declared
  /\ phase' = "done"
  /\ IF Live /\ fnKind = "void"
       THEN blocks' = Ret(RunDefers(g, 0), cur) /\ count' = 0
       ELSE blocks' = g /\ UNCHANGED count
  /\ errors' = (errors \/ (Live /\ fnKind # "void"))
  /\ UNCHANGED <<profile, fnKind, cur, items, open, labels, declared, depthOf>>

Expression == BeginShort \/ EndShort \/ BoundsCheck \/ BeginArray \/ EndArray
Leaving    == NoReturnCall \/ Return \/ Break \/ Continue \/ LoopExitOutsideLoop
Jump       == \E l \in Label : PlaceLabel(l) \/ Goto(l) \/ SkipConstruct(l)
If         == (\E hasElse \in BOOLEAN : BeginIf(hasElse)) \/ EndThen \/ EndElse
While      == BeginWhile \/ EnterWhile \/ EndWhile
For        == BeginFor \/ EndFor
Switch     == BeginSwitch \/ BeginCase \/ EndCase \/ BeginDefault \/ EndSwitch
BareBlock  == BeginBlock \/ EndBlock

Next == \/ Expression \/ Leaving \/ Defer \/ Jump \/ If \/ While \/ For
        \/ Switch \/ BareBlock \/ EndFn

Spec == Init /\ [][Next]_vars

-----------------------------------------------------------------------------
\* The two records of an edge, the terminator of its source and the
\* predecessor list of its target, agree whatever order the lowering creates,
\* closes and abandons blocks in; SSA construction reads only the second.
EdgesMatchTerminators ==
  \A b \in DOMAIN blocks :
    /\ \A a \in DOMAIN blocks : b \in Targets(blocks, a) <=> a \in Preds(blocks, b)
    /\ Cardinality(Preds(blocks, b)) = Len(blocks[b].preds)

\* The blocks somebody has still to lower: the current one, those the open
\* constructs keep for later, and those of labels not yet met.
Awaited ==
  LET frame(f) == {f.step, f.end, f.alt} IN
  IF phase = "done" THEN {} ELSE {cur} \cup UNION {frame(open[i]) : i \in DOMAIN open}

SkippedLabels == {labels[l] : l \in {m \in declared : labels[m] # NoBlock
                                       /\ ~blocks[labels[m]].lowered}}
AheadLabels   == {labels[l] : l \in Label \ declared} \ {NoBlock}

\* No block is lost without a terminator: in a function accepted so far an
\* open block is one the lowering will come back to, or that of a label in a
\* construct skipped as dead code (ST_lower_stmt's early return).
OpenBlocksAccounted ==
  errors \/ \A b \in DOMAIN blocks :
              IsOpen(blocks, b) => b \in Awaited \cup AheadLabels \cup SkippedLabels

\* A function is refused for falling off its end only if control can get
\* there: every set of blocks that holds the entry and is closed under the
\* edges holds the last block.  Joins nobody branches to must not count.  The
\* kinds with labels are void: a label after a return counts as reached.
FallThroughReal ==
  phase = "done" /\ fnKind # "void" /\ Live =>
    \A S \in SUBSET DOMAIN blocks :
      1 \in S /\ (\A b \in S : Targets(blocks, b) \subseteq S) => cur \in S

\* On every path through the emitted code the deferred statements pending at
\* run time are those the compiler believes pending there: each jump arrives
\* with the list its target was lowered with, and a return has run them all.
\* A statement run twice, never, or out of order breaks it.
DeferDiscipline ==
  \A b \in DOMAIN blocks :
    /\ blocks[b].term.kind = "ret" => blocks[b].pend = <<>>
    /\ \A t \in Targets(blocks, b) :
         blocks[t].lowered => blocks[t].enter = blocks[b].pend

\* No deferred statement outlives the construct it was registered in, bare
\* blocks aside: wherever code is lowered, the list holds those of the
\* constructs around it and no other.
DefersDieWithScope ==
  phase = "body" /\ Live => \A i \in 1..count : depthOf[items[i]] <= Depth

\* A sealed block never gains a predecessor: ST_ir_block_seal has given its
\* phis one operand per predecessor it knew.
SealedKeepPreds ==
  [][\A b \in DOMAIN blocks : blocks[b].sealed => blocks'[b].preds = blocks[b].preds]_vars

\* A terminator is written once.  ST_ir_term_br, condbr and ret assert it,
\* ST_ir_term_unreachable does not.
TerminatorsFinal ==
  [][\A b \in DOMAIN blocks : ~IsOpen(blocks, b) => blocks'[b].term = blocks[b].term]_vars
=============================================================================
