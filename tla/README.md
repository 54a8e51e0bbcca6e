# A verification project for storthc

storthc compiles the language Storth to native code. It is written in C: about
36,000 lines under `src/`. This directory holds TLA+ modules translated
from that code, the TLC configurations that check them on small instances, and
proofs for TLAPS. Paths of code are relative to `src/` of the repository, those
of documentation to its root.

Contents: 1 the system, 2 the modules, 3 the runs, 4 the proofs, 5 where the
code and its documentation part, 6 what is not modelled, 7 what is left.

## 1. The system

`st_compile` in `st_main.c` runs one pipeline per invocation:

    load (#load)  ->  parse  ->  import modules  ->  address sanitizer (on request)
      ->  semantic analysis  ->  compile-time code  ->  lowering to IR
      ->  assembly text  ->  nasm or fasm  ->  ld  ->  run (on request)

Every stage leaves through the label `done` when it fails. The stages share an
arena, a source map and the program tree; nothing runs concurrently inside one
compiler. Two compilers started at the same time do share files in `/tmp`.

| component | state | operations | what is hard, and what makes it correct | modelled by |
|---|---|---|---|---|
| hash table, `utils/st_ht.c` | slots, capacity, count | init, set, get, delete; internal grow | tombstones, growth inside a rehash, recursion of set. It must be a map: no entry lost, no key twice, every set returns | `HashTable`, `HashLevels`, `KVMap` |
| loader, `frontend/st_load.c` | set of files seen | expand `#load` | each file once, errors of a nested load reach the top | `ModuleImport` |
| modules, `frontend/st_module.c` | module table with `in_progress`, exports, renames | import, process file, merge | circular and repeated imports, a failed module, name clashes | `ModuleImport` |
| parser, `frontend/st_parser.c` | position, errors, speculation flags, nested functions, methods | declarations, statements, expressions, types, recovery | types or expressions, literals or bodies, a part taken back, recovery that loses no good declaration | `Parser` |
| semantic analysis, `frontend/st_semantic.c` | scopes, symbols, instances, diagnostics | check declarations, statements, expressions | scope exit, types of integers and constants, binding of arguments, goto rules | `Scopes`, `IntCode`, `Calls`, `Lower` in part |
| types, `frontend/st_types.c` | interned types | make, unify, lay out | coercion and unification; sizes | `IntCode`, `Calls` in part |
| compile-time compiler, `frontend/comptime/st_comptime_compile.c` | bytecode, locals, scopes, deferred statements, loops, labels, worklist | compile a function, patch calls | locals live on the operand stack and every exit of every scope must leave it right | `CtCompile`, `IntCode` |
| compile-time machine, `frontend/comptime/st_comptime.c` | stack, frames, memory | one instruction, call, return | limits, balance across calls and loops | `Comptime`, `IntCode` |
| native compile-time cache, `frontend/comptime/st_comptime_native.c` | files `storthc-ct-*` in the temporary directory | build, find, load | two compilers, a file removed or half written | `Compilers` |
| IR, `middle/st_ir.c` | functions, blocks, instructions, variables per block | new block, terminators, read and write variable, seal | on-the-fly SSA: phis of unsealed blocks, predecessors known late | `IRGraph`, `SSA`, `SSAFunction` |
| lowering, `middle/st_lower.c` | current block, loop chain, deferred statements, labels, names | lower declarations, statements, expressions | every exit of every construct: edges, sealing, deferred statements, dead code, goto; signs and widths; words of arguments | `Lower`, `LowerSSA`, `Scopes`, `IntCode`, `Calls` |
| ABI, `middle/st_abi.c` | none | classify arguments and results | eightbytes, the boundaries at 8 and 16 bytes | `Calls` |
| generators, `backend/st_nasm_*`, `st_fasm_*` | stack slots, output | emit | copies for phis, widths, calling conventions | `SSAFunction`, `IntCode`, `Calls` (NASM, Linux) |
| sanitizer, `backend/st_address_sanitizer.c` | at run time: records, mappings | allocate, free, report | ranges of records, pages that must never be used again | `Sanitizer` |
| driver, `st_main.c`; processes, `utils/st_process.c` | stage, temporary files, child processes | compile, run, clean the cache | failure of a stage, shared file names, death of a compiler | `Compilers` |
| lexer, DWARF, arena, strings, source map, diagnostics, command line, snapshot tester, binding generator | small or none | | nothing beyond unit tests | section 6 |

The components interact by calls. Lowering calls the IR for each block, edge,
variable and seal, and the IR trusts the order of these calls: a block may get
predecessors only until it is sealed, a terminator only once. The generators
trust in turn that each block has one. The checker decides types, names and the
binding of arguments; lowering and the compile-time compiler each work them out
again, with tables of their own. Caller and callee never meet: each counts
registers and stack words for itself. And compilers that run at the same time
meet in the file system. Most properties below are about such pairs: two parts
that must come to the same result by different ways.

`PROJECT.json` lists each hazard with its line and the properties that cover it.

## 2. The modules

### The hash table

- `HashLevels` is `ST_build_levels_` and `ST_probe_budget` as functions on
  numbers. The logarithm of the budget is written over the integers: the budget
  is at most b when size^4 exceeds 2^b free^4 by less than the factor 2^0.001,
  which is what adding 0.999 and cutting the fraction does.
- `KVMap` is the abstract map that the header `st_ht.h` offers.
- `HashTable` is the table. `slots`, `capacity` and `count` are the fields of
  `ST_ht_t`. `ST_ht_set` and `ST_ht_grow` call each other; their activations
  are frames of `stack`, and each step is one decision of the topmost one:

  | action | code |
  |---|---|
  | `Set` | the user's call of `ST_ht_set` |
  | `Overwrite` | the key is found, its value is replaced |
  | `GrowForLoad` | absent key, load test true: `ST_ht_grow`, then on to placing |
  | `Place` | the level loop finds a free slot |
  | `GrowForRoom` | the level loop ends without one: grow and call `ST_ht_set` again |
  | `Rehash`, `GrowReturns` | the loop of `ST_ht_grow` over the old array, and its end |
  | `Get`, `Delete` | `ST_ht_get`, `ST_ht_delete`, one step each |

  Levels, hash and budget are parameters, so that the proofs hold for any hash.
- `MCHashTable` gives them values: the geometry of `HashLevels` with small
  cut-offs, and probe sequences that collide. It also instantiates `HashLevels`
  with the cut-offs of the code.

### The block graph and the lowering of statements

- `IRGraph` is the graph of `st_ir.c`: a sequence of blocks with predecessors,
  terminator and sealed flag, and `Br`, `CondBr`, `Ret`, `Unreachable`, `Seal`
  as operators from graph to graph. A block also carries two lists of deferred
  statements: `enter`, those pending on entry as the compiler believed when it
  lowered the block, and `pend`, those left after the code emitted into it.
- `Lower` is `ST_lower_stmt` and `ST_lower_fn_body`. `cur`, `items`, `count`,
  `labels` are `c->cur`, `c->defers.items`, `c->defers.count`, `c->labels`. The
  C stack of nested `ST_lower_stmt` calls is `open`: a frame holds the blocks
  and the mark that the C function keeps in locals. The chain `c->loop` is the
  loop frames of `open`.

  The program being compiled is not a constant. In each state the next
  statement is any that the checker accepts, so that the behaviours are all
  function bodies up to the bounds. An action `BeginX` is the code of a
  construct up to the lowering of its body, `EndX` the code after it. `Return`,
  `Break`, `Continue`, `NoReturnCall` and `Goto` leave the current block
  terminated, or a fresh dead block current, as the code does; what follows a
  terminated block is skipped and so changes nothing, except that it may
  contain labels: `SkipConstruct`.

  Data is abstracted: values, types and addresses do not occur; a plain
  expression only adds instructions to the current block and is no action. The
  expressions that make blocks are there: `&&` and `||` (`BeginShort`,
  `EndShort`), index checks (`BoundsCheck`), and the loops that zero or copy
  long arrays (`BeginArray`, `EndArray`). A deferred statement is straight-line
  code with an identity, which is enough to say which ran.

  The frame field `tight` is the rule of `ST_check_infinite_goto_loops`: it
  keeps out programs that the checker refuses.
- `MCLower` names the kinds of function that the run goes through.

### Variables and phis

- `SSA` is the rest of `st_ir.c`: the definitions of a variable per block,
  incomplete phis, `ST_ir_read_var`, the completion of phis when a block is
  sealed, and the removal of trivial phis with the links (`repl`) it leaves
  behind. Its operators take and return a record with these tables. The C
  functions call each other from predecessor to predecessor: `ReadVar` is one
  call, `deeper` what the calls it makes return, and `Search` nests them
  `MaxCalls` deep, beyond which a search goes round. Two loops in the code follow
  `repl`. `Endless` and `lost` say that one of these would not end.
- `SSAFunction` is a caller of that interface and then a machine. The caller
  fills blocks in any order, reads and writes variables, and seals a block at
  any moment after its last predecessor, which is the protocol that `Lower` is
  shown to keep (`SealedKeepPreds`). Then the function runs, at once on the
  variables of the source (`mem`) and on the stack slots and phi copies of
  `st_nasm_x86_64_linux.c` (`slot`).
- `LowerSSA` composes `Lower` with `SSA`. Each step of `Lower` also does what
  its calls of `ST_ir_block_seal`, `ST_ir_read_var` and `ST_ir_write_var` do, one
  after the other in the order of the code (`Define`, `ReadIn`, `SealIn`,
  `Completed`); a call that does not come back is the last. The variables are the hidden ones, the only ones the
  lowering keeps out of memory: the result of `&&`, the index of a `for` over an
  array, the index of an array loop.
- `MCSSAFunction` and `MCLowerSSA` name the kinds of function of their runs.

### Names of local variables

- `Scopes` walks a function body once and keeps side by side the tables of the
  three parts of the compiler that resolve a local name: the checker's chain of
  scopes, the compile-time compiler's list of locals that is cut when a scope
  ends, and the lowering's one table per function. `Declare`, `Enter`,
  `EnterFor` and `Leave` are what each part does at a declaration, at a body,
  at a `for` and at the end of either. Its run shows where the lowering parts
  from the checker (section 5, item 1).

### Loading and modules

- `ModuleImport` goes from the file on the command line to one list of
  declarations: `ST_load_expand` (`Expand`), and `ST_modules_process` as a stack
  of files at work. `Start` is `st_compile` up to the pass; `Missing`, `Again`
  and `Visit` are the outcomes of one import; `Declare` and `Finish` are the
  two passes over a file, which collect its names and rewrite its declarations.
  A file is a sequence of `#load`, `#import` and declarations; a use is a name
  or `alias.name`, as a value (expressions, struct literals, traits that are
  implemented), as a type, or as a generic type with arguments, which is what the
  walk leaves as written when it stands on its own. A name is the sequence of its
  parts between double underscores and `ST_mangle` puts the parts of the module's
  name in front: `b__x` of module `a` and `x` of module `a__b` have one symbol, as
  in the code. `Sound`, `Needed` and `Meant` say what should come of a
  program in terms of the program alone: what is loaded together (`Parts`) and
  what lies beneath a module (`Beneath`) are least sets that hold a start and are
  closed under a step, not what some walk visits.
- `MCModuleImport` holds the source trees.

### The parser

- `Parser` is `st_parser.c` over a sequence of tokens. The many C functions that
  read tokens one after the other are given as forms: the kind of node and the
  pieces in order, chosen by the tokens ahead (`Rule`); `Do` reads a piece and
  gives up where the C function returns `NULL`. Lookahead, the two speculative
  parses with their suppressed errors, recovery at statements and declarations,
  nested functions and the rewriting of `impl` methods are as in the code. The
  state record `s` is `ST_parser_t`. `ParseDecl`, `Stop` and `Finish` are the
  loop of `ST_parse` and what follows it.
- `MCParser` builds programs and the trees they stand for side by side.

### Compile-time code

- `CtCompile` is `st_comptime_compile.c`: operators from compiler state to
  compiler state that emit bytecode for every form of statement, with locals,
  boxed variables, deferred statements, loops, labels with jumps patched late,
  and calls patched when all functions are compiled.
- `Comptime` is `ST_ct_run`, one action per instruction.
- `CtReference` models no code: it is what the program means, an evaluator of
  the syntax with lexical scopes. `MCComptime` holds the programs.

### Integers

- `IntCode` follows an integer through checker, default pass, lowering and the
  NASM generator: types and unification, the range check of constants
  (`ConstEval`), the instruction chosen for each operator (`Lower...`), and the
  instructions on slots of full width, of which only some truncate. Loops over
  ranges are lowered to the same instructions. `CtEval` is the same expression
  on the numbers of the compile-time machine, which have no width.
- `MCIntCode` holds the functions. Widths are scaled: 2 bits for 8, 4 for 32, 8
  for 64, and a double keeps 6 bits for 53.

### Calls

- `Calls` follows arguments and results through a call: the binding of arguments
  (named, missing, defaulted), the classification of eightbytes
  (`middle/st_abi.c`), the lowering of parameters, results and multi-binding,
  and the NASM generator's registers, stack words, frames, prologue and
  epilogue. `main` calls `f`, `f` hands its parameters to `g` and returns what
  `g` returns; `g` makes up its results or is a C function, which goes by the
  rules of the platform. The functions are compiled and executed one
  instruction at a time on a stack of words.
- `MCCalls` holds the programs.

### Several compilers

- `Compilers` is `main` and `st_compile` as a process: clearing the cache,
  the front end, native modules of compile-time code (look-up, assembling,
  linking, two calls of `dlopen`), the assembly and object files, the linker
  and the program. A file has a path, contents that may be cut short, and
  writers. A tool reads its input from the step that starts it (`Tool`) to the
  one that ends it (`ToolDone`): `Reads` keeps the input while `Makes` has the
  output, and when another run cuts or removes the input in between
  (`Startled`), anything may become of the output. A run can be killed at any
  point (`Kill`), with its tool or without: nothing in `st_process_linux.c` ends
  the tool of a compiler that died, and the tool then goes on as a process of
  its own (`killed`), writes its file and is waited for by nobody. `disturbed`
  is history: the runs whose files another has removed, created or left
  behind while they were needed, about which nothing is promised.
- `MCCompilers` names the kinds of use.

### The sanitizer's heap

- `Sanitizer` is the assembly that `st_address_sanitizer.c` writes behind every
  instrumented program: `__asan_alloc`, `__asan_free`, the search of the record
  table, the report of a fault and the list of leaks. The system places a
  mapping wherever it is free and may refuse one.
- `SanitizerProofs`: section 4.

## 3. The runs

| run | instance | states | shows |
|---|---|---|---|
| `HashTable` | 4 keys, 2 values, capacities 4, 8, 16 | 116,664 | the table is a map, every set returns, the geometry is sound |
| `Lower` | the four kinds of function of `MCLower` | 476,740 | graph, sealing and deferred statements, on every path |
| `SSAFunction` | the three kinds of function of `MCSSAFunction` | 1,244,003 | the emitted program reads what the source has |
| `LowerSSA` | the four kinds of function of `MCLowerSSA` | 535,998 | construction ends, hidden variables are defined |
| `Scopes` | 3 names, 4 declarations, 5 scopes | 191 until found | section 5, item 1 |
| `ModuleImport` | 59,510 source trees in four families | 554,743 | sound programs are accepted, once and in order, names are right |
| `Parser` | 9,620 programs | 51,045 | trees come back as written, errors are told, damage is local |
| `Comptime` | 940 programs on 8 tapes | 365,535 | the stack is as planned, the machine does what the program says |
| `IntCode` | 26,712 functions and arguments | 257,539 | processor, constants and compile-time machine agree, loops count |
| `Calls` | 3,544 programs | 98,151 | arguments and results arrive, the stack is kept |
| `Compilers` | 2 processes, 3 kinds of use | 401,645 | what is read is whole and one's own, success is real, runs end |
| `Sanitizer` | 3 allocations of 3 sizes, 9 pages | 694,886 | ranges apart, verdicts right |

A run of `Lower`, `SSAFunction`, `LowerSSA` or `Compilers` goes through several
kinds, one chosen in the initial state (`profile`): a kind says which statements
are used and what the bounds are, since all of them together at one bound would
be too many.

| run | kind | statements | bounds |
|---|---|---|---|
| `Lower` | `Structured` | if, while, loop exits, return, noreturn call, defer; all three kinds of result | 8 blocks, 2 defers, depth 2 |
| | `Constructs` | for, switch, `&&`, array loops, while, loop exits, return, defer | 8 blocks, 1 defer, depth 2 |
| | `Jumps` | two labels with goto, if, while, loop exits, return, bare blocks | 8 blocks, depth 2 |
| | `Scopes` | bare blocks, index checks, while, loop exits, defer | 6 blocks, 2 defers, depth 3 |
| `SSAFunction` | `Graphs4` | 1 variable, 2 reads and writes | 4 blocks, 2 writes executed |
| | `Graphs3` | 1 variable, 4 reads and writes | 3 blocks, 2 writes executed |
| | `TwoVars` | 2 variables, 3 reads and writes, blocks nobody branches to | 3 blocks, 2 writes executed |
| `LowerSSA` | `Nested` | for, while, `&&`, array loops, if, loop exits, return | 10 blocks, depth 3 |
| | `Switches` | switch, for, `&&`, loop exits, return | 9 blocks, depth 3 |
| | `Jumps` | one label with goto, for, if, return | 12 blocks, depth 3 |
| | `Scopes` | while, `&&`, bare blocks, defer, index checks, exits | 6 blocks, 1 defer, depth 2 |
| `Compilers` | `Alone` | one run after the other, killed or not, the tool of the first perhaps still at work | 2 starts, 1 native module |
| | `Caches` | two at once up to compile-time code, killed or not | 3 starts, 1 native module |
| | `BackEnds` | two at once, up to the object file or to the end, killed or not | 2 starts, 2 places for the output |

The labels of `Lower` and the variables of `SSAFunction` are interchangeable and
declared symmetric; neither run has a liveness property.

**Hash table.** `EveryEntryFindable` (a lookup gets to every entry in spite of
tombstones), `OneHomePerKey` (no second copy of a key, also across half-moved
arrays), `CountIsEntries`, `LoadBounded` (the load test is not bypassed),
`GeometrySound` (levels partition the slots, shrink by halves, and budgets are
useful, at the sizes of the run and, with the cut-offs of the code, at every
capacity up to 200), `IsMap` (refinement) and `SetReturns` (liveness).

**Lowering.** `EdgesMatchTerminators` (successors and predecessors are one
relation), `OpenBlocksAccounted` (no block is lost without a terminator, but for
those of section 5, item 3), `SealedKeepPreds` (no block is sealed too early),
`TerminatorsFinal`, `DeferDiscipline` (on every path of the emitted code each
deferred statement runs once, newest first), `DefersDieWithScope`, and
`FallThroughReal` (a function without labels is refused for falling off its end
only if control can get there; see section 4 for those with labels). A kind has goto or deferred statements, not both: section 5,
item 2.

**Variables.** `ReadsAgree` (what the emitted program finds in a value's slot is
what the source program has in the variable, on every path), `PhisComplete` (a
phi that stays has an operand for each predecessor), `ReadsComeBack` and
`HangsInDeadLoopsOnly` (construction and the generators' chains of `repl` end,
except around a loop that is never entered, which in lowered code takes a goto),
`DefinedBeforeRead` (a hidden variable is read where its definition reaches it;
a goto that enters a loop from outside skips the start of its index, which then
reads as zero: functions with labels are left out).

**Modules.** `Verdict`: the pass accepts exactly the programs that `Sound`
describes without the pass. No failure is lost on the way up, and none is left
over from a module that two others share. `OnceAndInOrder`: every declaration of
every module needed, once, no file before one it imports. `NamesRight`: a use
has the symbol of the declaration it means, and a declaration of another file has
that symbol only if one of the two is extern or if the two names are split at
another place. Section 5, items 4 and 5 are left out (`Hidden`, `Stranded`), and
so are programs with a file that declares one name as an extern
and not as one (`OneLinkage`): the two share an entry of the file's names, and
the semantic analysis refuses them (`frontend/st_semantic.c:5721`).

**Parser.** `TreesAsWritten` compares with trees built without parsing: the
generator puts parentheses only where an operator binds too loosely, so a tree
that comes back was read with the right precedence at every place. Pairs of
declarations are there for what the parser keeps from one to the next.
`FailureIsTold`: errors are printed, and text passed over means an error; the
exception of item 10 is counted apart (`buried`). `DamageIsLocal`: with one word
lost, or replaced by `;` or `(`, the declarations before it stay, and those
after it that start with a word recovery looks for.

**Compile-time code.** `StackAsPlanned`: where a statement begins, the frame is
as high as the compiler counted on when it emitted it, on every path there.
`RunAgrees`: the bytecode emits, returns and stops as the evaluator of the
syntax does, and fails only for want of room: the machine has 11 values, 2
frames and 4 words of memory, so that it does in some. The compiler's tables
are as small. Programs that never end are left out (`Fuel`). Behaviours in
which the code is known to differ (`odd` in `CtReference`, items 5 and 6) are
not compared: 185 of 7,484.

**Integers.** `NativeAgrees`: after a statement its variable has the exact result
of every operator brought to that operator's type, and the processor traps
exactly on a zero divisor and an overflowing quotient. `ConstantsAgree`: the
number the range check of a declaration looks at is the one the program stores.
`ComptimeAgrees`: compile-time code gives the same number where no result leaves
its type. `RangeCounts`: a loop over a range runs once for every number of it,
in order, and the loops that never end are exactly those of item 12. Of some
20,000 values computed, 1,691 fall under the exceptions of item 11 (`odd`).

**Calls.** `ArgumentsArrive`: from the moment a function has stored its
parameters until it returns, each holds the value meant for it, whatever later
calls put on the stack. `ResultsArrive`, likewise. `StackKept`: no return
address or saved frame pointer is overwritten, the stack pointer is where the
frame ends, and it is aligned at calls. The exceptions are named: `OddArg`,
`OddResult`, `Split` (items 11 to 13); the run was seen to fail without each of
them.

**Compilers.** `InputsIntact`: a file a run is about to read, or its tool is
reading, is there, whole and of its own text, unless another run has meddled
with it; in particular after a run was killed while its native module was being
written, and while the linker it left behind is still writing. `SuccessIsReal`:
a run that ends well leaves the file it was asked for, made of its own text.
`Ends`: every run ends, also when others remove or write its files, and so does
every tool left behind.

**Sanitizer.** `RangesApart` (an address belongs to one record only, so the first
match is the only one) and `VerdictsRight` (accesses, releases and leaks are
judged as they are, unless the system has refused something, which the runtime
does not notice: item 16).

**Bounds.** For the table, three capacities are two growths, one inside the
other: the probe sequences make a placement fail during a rehash, so that `Grow`
runs with an outer `Grow` half done. Four keys fill the first array to its load
limit and collide. For the lowering, a construct needs two to four blocks and
each way out one more: eight blocks hold a construct in a construct with an exit
in each, and a pair of loop and if with a statement after the join. Depth 2 is a
construct in a construct. Two deferred statements are needed for order, and for
one registered inside and one outside a construct. For the variables, four
blocks make every loop with one join, entered in the middle or not, and two
nested loops that share a block; a block needs one read and one write of a
variable at most, since later ones meet the definition of the first. Two
variables make a seal complete more than one phi. Ten blocks in `LowerSSA` are
a for with a while and a short circuit inside; twelve with goto a for
with a loop of goto and two ifs in its body, the smallest function with a dead
loop that has a join.

Three modules make every import graph with a circle, a diamond and a chain, one
of them at fault. Expressions three deep put every operator above and below one of each level of
precedence. The widths of `IntCode` keep the order of the real ones and
room between them: a product of two small numbers fits the next width, one of
two words does not fit a word, and a double does not hold every slot. Four
integer and two float registers are used up by three parameters, so that words
go on the stack, aligned or not; lists of three are of four types, one for
each way a word may go. Two processes are enough for one to
remove or write a file of the other at any point, also while a tool reads or
writes it, and for a second run to meet the tool a killed one has left; a third
start finds what a killed one left when another is still at work. Three allocations with a table of two records fill the table,
and 9 pages put mappings side by side.

**Deadlock.** The runs of `HashTable` and `ModuleImport` check for deadlock: a
call of the table always has a next step, and the import pass one until its
verdict, after which it stays. The others switch the check off, since the system
stops: growing at a bound, at the end of a body, a program or a text, or because
nobody has to start a compiler.

**Fairness.** `FairSpec` of `HashTable` asks that a call which has begun keeps
taking steps (`WF_vars(TableStep)`): it is a C call on the only thread. Nothing
is assumed about whether users call the table. `FairSpec` of `Compilers` asks
the same of each process (`WF_vars(Work(c))`), tools left behind included: the
operating system lets every process go on. Nobody has to start a compiler, and killing one is not fair.

## 4. The proofs

`HashTableProofs` proves, for every set of keys and values, every hash, every
level geometry inside the array and any capacities:

- `TypeCorrect`, `EntriesFindable`, `KeysUnique`, `CountExact`: the invariants
  `TypeOK`, `EveryEntryFindable`, `OneHomePerKey`, `CountIsEntries` hold of
  every behaviour of `Spec`.

The assumptions are those of the module: the sentinels are not entries, a level
lies in the array, a probe stays in its level (`LevelsFitArray` is what
`GeometrySound` checks of the real cut).

The inductive invariant is the conjunction of the four. They need each other:
`Place` may write a key only because it is not in the table; that it is not
follows from a lookup that failed, which means absence only if every entry can
be found; and after a growth, from the caller's key being in none of the arrays
still to be moved, which is why `OneHomePerKey` speaks of the frames of the
stack as well. `CountIsEntries` needs that `Place` fills a slot that held no
entry. The proof has one lemma for each invariant (`HomesStep`,
`FindableStep`, `CountStep`, `TypeStep`) and in each a step per action; the
stack operations (call, return, replace the top) are lemmas of their own.

From it follow, under the same assumptions:

- `TableIsMap`: every behaviour of `Spec` is one of `KVMap`, under the mapping
  `Dict` of `HashTable`. A key may be bound by a slot, by an entry of a
  half-moved array or by a set that a rehash has called; `OneHomePerKey` leaves
  one of the three (`OneValue`). Then the effect of a step on the set of
  bindings is enough: `Rehash`, `Grow` and a `Place` inside a rehash hand a
  binding from one to another, and only the user's own `Overwrite`, `Place` and
  `Delete` change the map, for their key. Two lemmas, `PopExact` and
  `CallExact`, say which frames a return and a call leave.

- `LoadStaysBounded`: `LoadBounded` holds of every behaviour of `Spec`. That there
  is a load test is not enough: `ST_ht_grow` starts the count over, the sets it
  calls place entries and may grow again, and a set that has grown for load
  places its key without another look. `RoomInv` counts the keys that have a
  home (in a slot, in a half-moved array, or being set): growth moves keys from
  home to home and adds none, so that once room for all of them has been found
  it is there to the end of the call.

`SanitizerProofs` proves, for every page size, table size, choice of sizes and
every behaviour of the system:

- `RangesStayApart`: `RangesApart` holds of every behaviour of `Spec`. The range
  of a record is the data and a page on both sides, and a mapping holds that
  whatever the size (`RangeInside`, from what rounding up does, `Rounding`). The
  inductive invariant adds what the property does not speak of: no page of a
  recorded mapping is free, so that a new mapping, made of free pages, is apart
  from all of them (`FreshApart`). It lives on released blocks keeping their
  pages: an allocator that gave them back to the system would break it.
- `VerdictsAreRight`: `VerdictsRight` holds of every behaviour of `Spec`. The
  invariant `VInv` follows the calls of the program, not the records, since the
  table may be full: each call has a mapping of its own, open but for its two
  guards while the call is live and closed from then on (`Heap`), and the table
  is the program's own view of the calls that found room (`Ledger`). From these
  follows what the processor lets through (`DataAndGuard`: the pages of the data
  and of the page behind it, which is where the pointer's alignment to the end
  of the data matters), and that the first match in the table is the block
  concerned (`Blamed`, `FoundByPtr`).

`CompilersProofs` proves, for any number of compilers, kinds of use, texts and
names of files:

- `InputsAreIntact` and `SuccessLeavesOutput`: `InputsIntact` and
  `SuccessIsReal` hold of every behaviour of `Spec`, with runs killed at any
  point and tools that outlive them. The assumptions are those of the module:
  names of places and texts differ, so that the files of different runs and
  modules have different paths. The invariant says of a run that nobody has
  meddled with that it or its tool writes alone, and will write what it should
  (`WritesAlone`), and that what is about to be read, or is being read, is whole,
  its own and written by nobody (`ReadsIntact`); and of the native modules such
  a run may find, that they are sound, or somebody is writing them, or the mark
  of a disturbed writer is on them (`ModulesSound`), or they were left by an
  earlier run and `st_clean_comptime_cache` is yet to remove them. One lemma
  (`Frame`) says what a step of one run leaves to the others; the rest is a
  lemma for each way to touch a file: create, remove, complete, give up.

`LowerProofs` begins with the lemmas about the block graph: what `Br`, `CondBr`, `Ret`,
`Unreachable`, `Seal` and `SealAll` do to edges, terminators, seals and
predecessors, said in one form (`Edits`: the blocks that may have been closed, and
those that may have been sealed or taken up; new predecessors only for unsealed
blocks), so that the calls of an action compose. From them it
proves, for every set of labels and every kind of function
(`LowerProfiles` is the only assumption, and bounds the growth of a model, not
of the proof):

- `EdgeRecordsAgree`, `NoBlockIsLost`, `SealedIsFinal`, `TerminatedOnce`:
  `EdgesMatchTerminators`, `OpenBlocksAccounted`, `SealedKeepPreds` and
  `TerminatorsFinal` hold of every behaviour of `Spec`.

The inductive invariant `IInv` says who owns an open block. A frame of `open` holds
the blocks that its construct has still to close or to start (`Held`, `Awaits`):
they are open, not sealed if a branch to them is yet to come, and no two frames
hold the same (`Owned`); the same goes for blocks of labels (`LabelsOwned`); the
kinds of frame nest as the grammar has it (`Nested`); and every other block
without a terminator is accounted for (`Accounted`). That a block is sealed
only when no predecessor is to come, and terminated once, are facts about these
owners: `Break` may branch to the end of a loop any number of frames out because
that frame holds it unsealed, and a construct may terminate its own blocks
because nobody else has. The proof has four kinds of step (a statement, a
construct that opens, one that closes, one that hands over to the next part) and
shows what each keeps; then each action is shown to be one of them by following
the graph from call to call, in a lemma per action.

From `IInv` it goes on to the paths, for every set of labels:

- `DefersEndWithScope` and `DefersDischargedOnce`: in a function that does not
  both defer and jump (`Unmixed`), `DefersDieWithScope` and `DeferDiscipline` hold
  throughout. The condition is the code's: a goto runs every deferred statement
  and a label then starts with a list that the next construct to close does not
  know of (section 5, item 2), and TLC refutes both without it.
- `FallThroughIsReal`: in a function without labels, `FallThroughReal` holds: the
  report of a missing return is never about an end that nothing leads to. With
  labels it is false, as TLC shows at once: a label after a return starts a block
  whether or not somebody jumps to it, and an end reached from there alone is
  reported. The kinds of the run that have labels are void functions, of which
  `FallThroughReal` says nothing.

The list `c->defers` of the lowering is one per function, cut and restored by
each construct; that it fits each block is a fact about all paths at once.
`ScopeInv` says of the list that what a construct found on it was registered
around it, and that these marks grow with the depth. `FlowInv` gives every block
one list: each edge into the block carries that list, the block is lowered with
it, a return carries none, and the blocks that an open construct keeps for later
have the list at its opening, however much has been deferred since. A step then
has to show the lists of its new edges only. `ReachInv` says that every set of
blocks which holds the entry and is closed under the edges holds each block
somebody branches to, and the current one as long as it is open; `MetInv`, that
the blocks which a construct takes up without asking (the end of a while, the
step of a for, the start of the next arm) do have a predecessor by then; the
others are the joins, which the code closes at once if nobody came.

`ImportProofs` proves, for every source tree (any finite set of files, whatever is
in them and whichever of them cannot be read or parsed) and any list of
directories:

- `LoadTakes`: `ST_load_file` fails just for a file some part of which cannot be
  read, and otherwise has met each of its parts and holds all of their imports
  and declarations. `Expand` is a recursive function on the depth; that
  such a function exists and unfolds is proved first (`RunExists`, from the least
  number principle, since the library's theorems of that kind cannot be
  instantiated here). A file is in the set of met files before it is gone into,
  so that there is always one less to go (`DeepEnough`): circles end.
- `VerdictRight`, `OnceAndInOrderHolds`, `NamesRightHolds`: `Verdict`, `OnceAndInOrder`
  and `NamesRight` hold of every behaviour of `Spec`. The only assumption is
  `TreesAreTrees`, which says what a source tree is.

The inductive invariant has a part for each thing the pass keeps. A frame knows of
its file what the items passed so far say (`FrameRight`): its declarations, the
symbols of their names, the aliases, and for each name whether one of the
modules imported so far offers it or more (`ExposedOf`, where a name once
ambiguous has to stay so although the table keeps no count). The stack is a path
of imports and no module is on it twice (`StackRight`), so a module found open
is a circle. A module that was accepted is free of faults and all beneath it
has been accepted (`Finished`); nothing is ever taken back from it. For a sound
program nothing has failed so far (`NoFault`); for one that is not, the root can
only be accepted with all that is beneath it, which includes the fault. The
declarations so far are those of the accepted modules, each once (`MergedOf`),
and when one more module joins them none of the others imports it, because all
beneath those was accepted before. That a symbol is that of one file, but for the
exceptions `NamesRight` names, follows from where names are split: if two symbols
are the same and end in names of one length, what was put in front is the same
(`SameBeginning`), and with it the module (`PrefixTells`).

`SSAConstruction` and `SSAProofs` prove, for every profile, so for any number of
blocks, variables, reads and writes, built in any order that keeps to the
sealing protocol:

- `ReadsAgreeHolds`, `PhisCompleteHolds`, `ReadsComeBackHolds`: `ReadsAgree`,
  `PhisComplete` and `ReadsComeBack` hold of every behaviour of `Spec`;
  `ConstructionInvariant` is the invariant they follow from.

`SSAConstruction` is about the operators of `SSA` alone, over any graph whose
entry has no predecessor. It follows the construction with three things the code
does not keep: the write that reaches the end of a block (`w`), the values that
stand for a variable where a block starts (`r`), and the variable of a value
(`of`). `Sound` relates them to the tables: what stands for a variable at the
start of a block is a phi of the block or stands for it at the end of every
predecessor (`Flows`), an operand of a phi stands for its variable at the end of
its predecessor (`Operands`), what a removed phi is replaced by stands wherever
the phi did (`Linked`, `Removed`), a phi is complete unless its block is unsealed
or its operands are being read (`Filled`, `PhisDue`). That a removed phi may be
replaced is the heart of it: its one other operand stands at the end of every
predecessor, so it may be added to `r` wherever the phi is in it, and `Flows`
survives for all blocks at once. Each operator keeps `Sound`, or is lost and has found a
dead loop: the blocks that a search has gone through without an end are closed
under predecessors, and a chain of `repl` that never ends is a circle of values
that stand for the same variable in blocks whose predecessors are all among them.
The search itself is a recursive function of the calls that may still be made,
up to `MaxCalls`: each call that is nested in another either writes a phi that
was not there, at one of the joins, or goes on to the only predecessor of its
block without changing anything, and cannot do so more often than there are such
blocks unless it goes round (the proof counts both).

`LowerSSAProofs` applies it to `LowerSSA`, for every set of labels and every kind of
function:

- `LoweringComesBack`: `HangsInDeadLoopsOnly` holds of every behaviour of
  `SSASpec`;
- `ReadsAreDefined`: so does `DefinedBeforeRead`.

The invariant `SSAInv` says that the values keep to `Sound` over the graph, or a
call was lost and has found a dead loop (`Alright`), and that the names of
variables are enough for all blocks (`Sized`). A step of the lowering is taken
apart into its calls: they start from the graph of the step's end with the
blocks it seals not sealed yet (`Partly`), which is the graph before with new
blocks and with edges into unsealed blocks only (`AddedAlright`, from
`SealedKeepPreds`); a write is at a block without a terminator, and none of its
successors is sealed by then (`OpenPrecedesNone`); each seal completes its phis
over the graph in which the later ones are still to come (`CompletedAlright`).
For the step of a `for` the read and the write lie between two seals, and its
edge leads to the head, which is sealed last (`StepAlright`). Without labels
control reaches every block with predecessors (`ReachInv`), so that there is no
dead loop at all (`NoDeadLoop`).

That reads are defined rests on one more invariant, `DefInv`: each hidden
variable has a region, a set of blocks the entry is not in, such that a
predecessor of a block of the region is in the region too or has written the
variable (`Fenced`). A search that starts in the region therefore ends in it or
at a write (`ReadNice`), and so do those that phis of unsealed blocks still have
to make (`Confined`). While the construct of the variable is open, or anything
opened inside it, the current block and the blocks kept by those constructs are
in the region (`Regions`), and each step adds its new blocks to the regions that
are active (`Widen`, `RegionsStep`); the construct's own step makes its region,
and the one edge into it comes from the block that has just written the variable
(`StartNice`). When the construct has ended, all blocks of its region are sealed,
because an unsealed one is kept by an open construct (`Claimed`); so no edge is
ever added to it (`EdgesInside`). A label would break `Claimed`: its block stays
unsealed to the end of the function.

`SSAProofs` applies it to `SSAFunction`. While the function is built, the graph keeps
to the protocol (`GraphInv`), and the recorded reads and writes are those of `w`
and `r` (`Coded`); when it runs, the block being executed is on no dead loop
(`Live`, since an execution starts at the entry), and the slot of each value that
has not been removed and stands for a variable here has what the source program
has in the variable (`Agree`). Phi copies keep this because all the phis of a
block are copied at once, and removed phis because chains of `repl` end outside
of dead loops.

What stays with TLC: `SetReturns` and `Ends` (liveness is outside of the
prover's reach); the geometry in `HashLevels`, which is a recursion over numbers
and powers; and everything about `Parser`, `Comptime`, `IntCode` and `Calls`:
these have recursive operators or compare with ones, which the prover
does not take.

## 5. Where code and documentation part

Items marked with a star were also seen in the output of the compiler built from
this commit. Item 1 is a run of its own; the properties leave the others out by
name, and the models behave as the code does.

1. \* Names (run `Scopes`). The lowering has one table of names per function
   (`middle/st_lower.c:119`): after an inner scope that declares a name again,
   the name goes on to mean the inner variable. The checker and the
   compile-time compiler return to the outer one (`CompiledAgrees` holds in all
   165,899 states of the same instance).

       i := 1;
       if i == 1 { i := 7; i += 1; }
       return i;                      // 8, or what the slot holds

2. \* `goto` and `defer`. `middle/st_lower.c:3387` runs every deferred statement
   of the function at a goto; the enclosing construct then restores the count
   (line 2997) and they run again at exit. The documentation
   (`how-to/docs/06-control-flow.md:69`, `TODO:134`) ties them to the exit of
   their scope. `DeferDiscipline` is broken by if, defer and goto together; the
   kinds of the run have goto or defer. Likewise `middle/st_lower.c:3071` runs
   nothing at the end of a bare block: `BeginBlock` and `EndBlock` do what the
   code does, and `Depth`, by which `DefersDieWithScope` counts, leaves bare
   blocks out.
3. \* Labels in dead code. A construct after a return is skipped with its labels
   (`middle/st_lower.c:2564`), but a goto to one of them is accepted and
   branches to a block without a terminator, at which the generators stop.
   `CHANGELOG.txt:121` calls goto and labels fully working.
   `OpenBlocksAccounted` counts these blocks apart.
4. \* The root file's own names. `self_renames` stays empty for the root file
   (`frontend/st_module.c:741`), so that a name it declares itself and a single
   import offers is taken for the import's, contrary to what `st_module.h`
   says of a file's own declarations. So are names of locals and parameters in
   any file. Search paths are relative to the directory of the root file, not
   of the importing one (`how-to/docs/16-modules.md:10`, `st_module.h:24`), and
   an alias given twice silently means the last import.
5. \* Generic types of modules. A module's declarations are renamed "and that rename
   is also applied to every reference to it within the module's own source"
   (`frontend/st_module.h:16-17`), but `ST_modrw_tyexpr` renames a type on its own
   only if it is a plain name (`frontend/st_module.c:229`). `P(i32)` stays as it
   is in the module that declares `P` and in those that import it: it is then
   unknown, or silently the root file's `P` if there is one. Only `alias.P(i32)`
   is renamed. `NamesRight` leaves these uses out (`Stranded`).
6. \* Joined names are not one to one. A name may have underscores of its own, so
   that `b__x` of module `a`, `x` of module `a__b` and `a__b__x` of the root file
   are one name, which `how-to/docs/16-modules.md:16` ("can't collide with
   anything") excludes: they become overloads of each other if they are functions
   of different parameters, and are refused as ambiguous otherwise. In the same
   way a file reaches a private declaration of a module under its joined name,
   contrary to line 18 of that document. `NamesRight` says that this and extern
   names are the only ways for two files to have one symbol.
7. Deferred statements of a return at compile time
   (`frontend/comptime/st_comptime_compile.c:2926`) are emitted with the values
   already on the stack, above the counted locals: a deferred statement with
   variables of its own takes the values for them. `return v` then returns
   something else.
8. Deferred statements resolve names where the scope is left, not where they were
   written, in the compile-time compiler and the lowering: an inner variable of
   the same name captures them. And a jump within a scope that skips or repeats
   a `defer` does not change which statements run.
9. \* Loops in dead code. A phi removed while another phi is being completed is
   still what the pending call returns (`middle/st_ir.c:222` and `226`). Around
   a loop that is never entered two removed phis come to stand for each other,
   and whoever follows the link goes round for ever. The compiler does not end on

       fn f(arr: []i64, e: bool, d: bool) {
           for x: arr {
               return;
               label L;
               if e {
                   if d { }
                   goto L;
               }
           }
       }

   given to `storthc build asm`, and does without the `return`.
   `HangsInDeadLoopsOnly` says that nothing else makes it hang.
10. \* The parser can fail without a word: a literal that was read speculatively is
    kept although a body in it recovered from an error, which was counted and not
    printed (`frontend/st_parser.c:825`; the comment at line 105 says that the
    caller of such an attempt backtracks). `x := P(i32) { a = T(i32) { y := + ; } };`
    ends with exit code 1 and no message.
11. \* Signs and widths. For `/ % >>` and the orders the left operand alone decides
    whether they are signed (`middle/st_lower.c:1918`): `5 < n` and `5 / n` are
    signed for a `u64`; compound `/=` and `%=` always are (line 1362). Results of
    `<< ~ & | ^ >>` are not truncated before an operation that looks at all bits.
    A shift by more than the width, and an enumeration against a negative number,
    are open. Constants: `a : i64 = -3000000000` is stored as 1294967296, since an
    untyped number becomes an `i32` in the program and not in the range check;
    `x := 3000000000` is not checked; `x: u8 = 300 #as u8` is refused, because the
    evaluator of constants ignores casts. `<<=` and `>>=` pass the checker and are
    refused by the lowering. In compile-time code the least number divided by -1
    stops the compiler itself.
12. Ranges. A loop up to and including the maximum of its type never ends, nor one
    counting down to the minimum, for an unsigned type down to 0
    (`middle/st_lower.c:3207`). With bounds of different types the variable in
    memory has the wider type and the checker's has that of the lower bound. In
    compile-time code a range is never counted down, and its upper bound is
    evaluated in each round; `Comptime` has constant bounds that count up.
13. \* A literal returned as an `f64`, or defaulted to one, stays an `f32` and is
    passed in single precision, which the other side reads as a double
    (`fn f() -> f64 { return 1.5; }`; `how-to/docs/05-functions.md:37` offers
    defaults without this limit).
14. An aggregate of floats among two results, or returned by a C function, is put
    into float registers by the callee and taken from integer registers by the
    caller (`CHANGELOG.txt:123` and `:358` call the System V classes complete).
15. An aggregate for a C function that needs two registers when one is left is
    split between registers and stack; the platform passes it on the stack.
    Aggregates of more than 16 bytes are passed by address and copied on entry:
    `big(q, touch(&q))` sees what the second argument did to the first. Of two
    arguments with the same name the last wins without an error, and a missing
    one beside named ones is found by the lowering only. Through a function
    value, names of arguments are ignored.
16. The sanitizer's allocator takes every result of `mmap` but -1 for an address
    (`backend/st_address_sanitizer.c:868`), although the system call fails with
    minus the error number: after a refused mapping the program goes on with a
    pointer near the top of the address space. When the table of 65,536 records
    is full, releasing a block is reported as releasing a pointer that was never
    returned.
17. `ST_check_infinite_goto_loops` does not see a way out that leads through a
    bare block, and refuses such loops as endless; it tracks 32 labels of a body
    and ignores the rest (`frontend/st_semantic.c:5515`).
18. Small things met in the parser: an empty statement before `}` is an error;
    `[x] * y` is an array type; `sizeof(*x)` and `sizeof(f(x))` are types; after
    a missing `;` recovery passes over the keyword of the next declaration;
    nested functions of equally named methods get the same name.

## 6. What is not modelled

- In `Lower`: expressions without blocks, declarations, assignments, globals;
  deferred statements that jump, register others or hold labels (on those that
  leave, the compiler itself does not come back, `middle/st_lower.c:159`); the
  paths taken when an expression could not be lowered (`cond == NULL`), which
  follow an error already reported and end the compilation.
- In `HashTable`: memory. `ST_ht_grow` frees nothing (the arena owns arrays),
  and an allocation failure ends the program.
- In `SSA`: instructions other than definitions and phis. That the uses in them
  are rewritten when a phi goes is not needed for what the generators emit: they
  follow `repl` at each use, and so does the model. Copies of one variable into
  another: nothing in the lowering makes them.
- In `LowerSSA`: a `for` over a range (its index is in memory), and that the key
  of an array loop is the address of a local variable of the C function, which a
  later loop may have again (`middle/st_lower.c:631`).
- In `Scopes`: code that the lowering skips as dead, whose declarations do not
  reach its table.
- In `ModuleImport`: tokens (a file is a sequence of items), where the directory
  of a relative path is cut off, and the kinds of expression the rewriting walks
  over: there is one rule for values, one for types and one for generic types.
  The targets of a multiple assignment are left as written in the code too, where
  only locals may stand. Names with underscores at an end, of which two more make
  another split, are not among the names, nor is use of a module's declaration
  under its joined name told apart from any other name that is left as written.
- In `Parser`: positions, display names, the warning about `#as`, the 512 levels
  an expression may nest, and `ST_parse_method_decl`, which nothing calls.
- In `CtCompile` and `Comptime`: structs, strings, dynamic arrays, globals,
  function values, inline assembly, the binding of C functions; an error with
  more than 16 parts.
- In `IntCode`: floats and pointers as operands, bitwise operators on enumeration
  flags, and the widths of 8, 16, 32 and 64 bits themselves.
- In `Calls`: variadic functions, arrays as results (the lowering refuses them), the
  Windows convention, the FASM generator.
- In `Compilers`: what a stage does inside; the texts of messages; a full disk;
  a program that goes on after the compiler that ran it was killed (it uses none
  of these files). A terminal that kills all its processes and a signal to the
  compiler alone are both there; a tool started through `stdbuf` is one process.
- In `Sanitizer`: the rewriting of calls in the program tree, the printing of
  traces.
- Of semantic analysis: generics and their instances, traits and methods, switch
  and match checks, constness and purity, attributes, member access. They walk
  the tree once with tables that grow; what is there to relate is between them
  and later parts, which is where `Scopes`, `IntCode` and `Calls` stand.
- Not modelled at all: the lexer (a scan whose only state is its position), the
  arena (one cursor, nothing freed), DWARF (format only), command line, strings,
  diagnostics, the snapshot tester, the binding generator and the documentation
  server (tools outside the compiler), the FASM and Windows generators (the same
  as the NASM one for Linux in another syntax, or another convention).

## 7. What is left

1. Theorems: the geometry of `HashLevels` for every capacity; `CompiledAgrees` of `Scopes`.
2. `RunDefers`: `ST_lower_run_defers` on statement trees: nested defers, labels in
   deferred statements.
3. The rewriting of calls by the sanitizer; layout of structs and unions; generic
   instances made while others are checked.
