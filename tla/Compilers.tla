----------------------------- MODULE Compilers ------------------------------
(***************************************************************************)
(* Several runs of the compiler on one machine: main and st_compile of     *)
(* st_main.c, ST_ct_ensure_native_module of st_comptime_native.c, and the  *)
(* processes they start (st_process.c).  All runs share the directory for  *)
(* temporary files: one assembly and one object file with fixed names, and *)
(* the native modules of compile-time code, named by a hash of their text. *)
(* A run may be killed at any point.  The tool it is waiting for dies with *)
(* it when all of the terminal's processes are killed; nothing in          *)
(* st_process_linux.c ties it to the compiler, and otherwise it goes on.   *)
(***************************************************************************)
EXTENDS Naturals

CONSTANTS
  Compiler,   \* processes: each is one run at a time, or the tool one has left behind
  Place,      \* where runs are asked to leave what they make
  Text,       \* assembly texts; a file name made from a hash stands for its text
  NoText,     \* no text yet
  Profiles    \* kinds of use, see Profile

VARIABLES
  profile,    \* the kind of use of this behaviour
  run,        \* run[c]: the run of c, see Run
  files,      \* the files by path
  starts,     \* runs started so far
  disturbed   \* history: the runs that others have meddled with, see Disturb

vars == <<profile, run, files, starts, disturbed>>

Stages == {"dump", "asm", "obj", "exe", "run"}

\* together: runs may overlap; kill: they may be killed.  Bounds: the stages
\* and places asked for, runs started, native modules one run asks for.
Profile == [together : BOOLEAN, kill : BOOLEAN, stages : SUBSET Stages,
            places : SUBSET Place, starts : Nat, modules : Nat]

NativeFiles == Text \X {"s", "o", "so"}
Paths == NativeFiles \cup ({"tmp"} \X {"asm", "obj"}) \cup (Place \X {"asm", "obj", "exe"})

ASSUME ProfilesAssumption == Profiles \subseteq Profile
ASSUME NamesAssumption == "tmp" \notin Place \cup Text /\ Place \cap Text = {}
ASSUME TextAssumption == NoText \notin Text

\* What a file holds: the text it is or was made from, if it is all there.  Then
\* who has it open for writing, whether two have had it open at once and
\* (history) whether its maker had been disturbed.
Content == Text \cup {NoText}
Absent == [there |-> FALSE]
File(of, by, two, odd) ==
  [there |-> TRUE, of |-> of, open |-> by, clash |-> two, odd |-> odd]
Writers(f) == IF files[f].there THEN files[f].open ELSE {}
Holds(file, t) == file.there /\ file.of = t

\* A run of the compiler: where it is; the stage argument of st_compile and the
\* place of its output; the assembly text at work; what the file now written may
\* hold in the end; the names found by ST_glob and not yet removed; the native
\* modules asked for so far; whether only its tool is left, the compiler killed;
\* and, when there is none, the result of the last one.
Begun(stage, place) ==
  [at |-> "clean", stage |-> stage, place |-> place, text |-> NoText, buf |-> {},
   todo |-> {}, modules |-> 0, killed |-> FALSE, ok |-> FALSE]
Run == [at : {"off", "clean", "front", "look", "write s", "nasm", "write o", "ld", "write so",
              "open", "call", "write asm", "assemble", "write obj", "link", "write exe", "run"},
        stage : Stages, place : Place, text : Content, buf : SUBSET Content,
        todo : SUBSET NativeFiles, modules : Nat, killed : BOOLEAN, ok : BOOLEAN]
Ended(r, ok) == [Begun("dump", r.place) EXCEPT !.at = "off", !.ok = ok]

At(c) == run[c].at
Native(c, ext) == <<run[c].text, ext>>
\* Only a run that stops there writes its assembly or object file elsewhere.
AsmPath(c) == IF run[c].stage = "asm" THEN <<run[c].place, "asm">> ELSE <<"tmp", "asm">>
ObjPath(c) == IF run[c].stage = "obj" THEN <<run[c].place, "obj">> ELSE <<"tmp", "obj">>
ExePath(c) == <<run[c].place, "exe">>

\* The file a run, or its tool, is writing.
Makes(c) ==
  CASE At(c) = "write s"   -> {Native(c, "s")}
    [] At(c) = "write o"   -> {Native(c, "o")}
    [] At(c) = "write so"  -> {Native(c, "so")}
    [] At(c) = "write asm" -> {AsmPath(c)}
    [] At(c) = "write obj" -> {ObjPath(c)}
    [] At(c) = "write exe" -> {ExePath(c)}
    [] OTHER               -> {}

\* The file it has made, or found, and is going to read or is reading: a tool
\* reads its input until it is done.
Reads(c) ==
  CASE At(c) \in {"nasm", "write o"}       -> {Native(c, "s")}
    [] At(c) \in {"ld", "write so"}        -> {Native(c, "o")}
    [] At(c) \in {"open", "call"}          -> {Native(c, "so")}
    [] At(c) \in {"assemble", "write obj"} -> {AsmPath(c)}
    [] At(c) \in {"link", "write exe"}     -> {ObjPath(c)}
    [] At(c) = "run"                       -> {ExePath(c)}
    [] OTHER                               -> {}

Uses(c) == Makes(c) \cup Reads(c)

\* A tool has been started, or is about to be.
Tooling == {"nasm", "write o", "ld", "write so", "assemble", "write obj", "link", "write exe"}

Init ==
  /\ profile \in Profiles
  /\ \E place \in profile.places : run = [c \in Compiler |-> [Begun("dump", place) EXCEPT !.at = "off"]]
  /\ files = [f \in Paths |-> Absent]
  /\ starts = 0
  /\ disturbed = {}

-----------------------------------------------------------------------------
(***************************************************************************)
(* Files and tools.                                                        *)
(***************************************************************************)

\* History: the others that need file f when c creates or removes it.
Victims(c, f) == {d \in Compiler \ {c} : f \in Uses(d)}

\* Their runs: a tool at work on f may make anything of it from now on.
Startled(c, f) ==
  [d \in Compiler |-> IF d # c /\ f \in Reads(d) /\ Makes(d) # {}
                      THEN [run[d] EXCEPT !.buf = Content] ELSE run[d]]

\* The run of c goes on as r, with file f created: fopen for writing, or the
\* output of a tool.  The file is cut to nothing; a second writer joins the first.
Create(c, f, r) ==
  /\ run' = [Startled(c, f) EXCEPT ![c] = r]
  /\ disturbed' = disturbed \cup Victims(c, f) \cup {d \in {c} : Writers(f) # {}}
  /\ files' = [files EXCEPT ![f] = File(NoText, Writers(f) \cup {c}, Writers(f) # {},
                                        c \in disturbed')]

\* The name f goes, whoever has the file open, and the run of c goes on as r.
Unlink(c, f, r) ==
  /\ run' = [Startled(c, f) EXCEPT ![c] = r]
  /\ files' = [files EXCEPT ![f] = Absent]
  /\ disturbed' = disturbed \cup Victims(c, f)

\* The rest is written and the file closed.  Two writers may leave a mixture.
\* A file removed in between no longer has the name.
Close(c, f) ==
  IF c \in Writers(f)
  THEN \E t \in run[c].buf \cup (IF files[f].clash THEN {NoText} ELSE {}) :
         files' = [files EXCEPT ![f] = File(t, @.open \ {c}, @.clash, @.odd \/ c \in disturbed)]
  ELSE UNCHANGED files

\* Whatever c is writing is left as it is.  History: the others at work may come
\* across it.
Abandon(c) ==
  /\ files' = [f \in Paths |-> IF files[f].there THEN [files[f] EXCEPT !.open = @ \ {c}]
                                                 ELSE files[f]]
  /\ disturbed' = disturbed \cup {d \in Compiler \ {c} : At(d) # "off"}

Goto(c, next) == run' = [run EXCEPT ![c].at = next, ![c].buf = {}]
\* Every `goto done` of st_compile, and the return of main.
Stop(c, ok) == run' = [run EXCEPT ![c] = Ended(@, ok)]

Elsewhere == UNCHANGED <<profile, starts>>

\* What a tool may make of file f: of a part of an input a part of something, and
\* of a file another is writing anything.
MadeOf(f) == IF Writers(f) = {} THEN {files[f].of} ELSE Content

\* As a slip: the result of the tool is not looked at.
ToolUnchecked(c, here, from, to, next) ==
  /\ At(c) = here
  /\ \/ /\ files[from].there
        /\ Create(c, to, [run[c] EXCEPT !.at = next, !.buf = MadeOf(from)])
     \/ Goto(c, next) /\ UNCHANGED <<files, disturbed>>
  /\ Elsewhere

\* A tool starts to read `from` and creates `to`.  Without input it fails, and it
\* may fail for reasons of its own.
Tool(c, here, from, to, next) ==
  /\ At(c) = here
  /\ \/ /\ files[from].there
        /\ Create(c, to, [run[c] EXCEPT !.at = next, !.buf = MadeOf(from)])
     \/ Stop(c, FALSE) /\ UNCHANGED <<files, disturbed>>
  /\ Elsewhere

\* The compiler has written file f and closed it; its code generators do not fail.
Written(c, here, f, last, next) ==
  /\ At(c) = here
  /\ Close(c, f)
  /\ IF run[c].stage = last THEN Stop(c, TRUE) ELSE Goto(c, next)
  /\ UNCHANGED disturbed
  /\ Elsewhere

\* The tool is done and the compiler, if it lives, has waited for it
\* (ST_run_processes) and goes on, or after the last stage asked for ends well.
\* A tool that fails takes the name of its output away, or leaves what is there.
ToolDone(c, here, f, last, next) ==
  /\ At(c) = here
  /\ \/ /\ Close(c, f)
        /\ IF run[c].killed THEN Stop(c, FALSE)
           ELSE IF run[c].stage = last THEN Stop(c, TRUE) ELSE Goto(c, next)
        /\ UNCHANGED disturbed
     \/ Unlink(c, f, Ended(run[c], FALSE))
     \/ Stop(c, FALSE) /\ Abandon(c)
  /\ Elsewhere

-----------------------------------------------------------------------------
(***************************************************************************)
(* One run.                                                                *)
(***************************************************************************)

\* Alone, the user waits for the previous run of anybody to end; for the tool of
\* a killed one nobody waits.
MayStart(c) ==
  /\ At(c) = "off" /\ starts < profile.starts
  /\ ~profile.together => \A d \in Compiler : At(d) = "off" \/ run[d].killed

\* As a slip: what an earlier run has left is not cleared away.
StartUncleaned(c) ==
  /\ MayStart(c)
  /\ \E s \in profile.stages, place \in profile.places : run' = [run EXCEPT ![c] = Begun(s, place)]
  /\ starts' = starts + 1
  /\ disturbed' = disturbed \ {c}
  /\ UNCHANGED <<profile, files>>

\* main up to the loop of st_clean_comptime_cache.
Start(c) ==
  /\ MayStart(c)
  /\ \E s \in profile.stages, place \in profile.places :
       run' = [run EXCEPT ![c] = [Begun(s, place) EXCEPT
                                    !.todo = {f \in NativeFiles : files[f].there}]]
  /\ starts' = starts + 1
  /\ disturbed' = disturbed \ {c}
  /\ UNCHANGED <<profile, files>>

\* As a slip: a file that cannot be removed is tried again.
RemoveInsists(c) ==
  /\ At(c) = "clean"
  /\ \E f \in run[c].todo :
       /\ files[f].there
       /\ Unlink(c, f, [run[c] EXCEPT !.todo = @ \ {f}])
  /\ Elsewhere

\* One `remove`; that the file is gone already does not matter.
Remove(c) ==
  /\ At(c) = "clean"
  /\ \E f \in run[c].todo : Unlink(c, f, [run[c] EXCEPT !.todo = @ \ {f}])
  /\ Elsewhere

Cleaned(c) ==
  /\ At(c) = "clean" /\ run[c].todo = {}
  /\ Goto(c, "front")
  /\ UNCHANGED <<files, disturbed>>
  /\ Elsewhere

\* Loading, parsing, modules, sanitizer and analysis touch none of these files.
\* They fail, or end the run (`dump`, and a #comptime main that is run), or
\* compile-time code calls a function that needs a native module, or the
\* assembly text is ready and its file opened.
FrontEnd(c) ==
  /\ At(c) = "front"
  /\ \/ Stop(c, FALSE) /\ UNCHANGED <<files, disturbed>>
     \/ /\ run[c].stage \in {"dump", "run"}
        /\ Stop(c, TRUE)
        /\ UNCHANGED <<files, disturbed>>
     \/ /\ run[c].modules < profile.modules
        /\ \E t \in Text :
             run' = [run EXCEPT ![c].at = "look", ![c].text = t, ![c].modules = @ + 1]
        /\ UNCHANGED <<files, disturbed>>
     \/ /\ run[c].stage # "dump"
        /\ \E t \in Text :
             Create(c, AsmPath(c), [run[c] EXCEPT !.at = "write asm", !.text = t,
                                      !.buf = {t}])
  /\ Elsewhere

\* ST_ct_ensure_native_module: ST_access_file, and a module with this name is
\* taken as it is.  History: also one that is being written, or that a disturbed
\* run has made.
Find(c) ==
  /\ At(c) = "look"
  /\ LET so == Native(c, "so") IN
       IF files[so].there
       THEN /\ Goto(c, "open")
            /\ disturbed' = disturbed \cup {d \in {c} : files[so].open # {} \/ files[so].odd}
            /\ UNCHANGED files
       ELSE Create(c, Native(c, "s"), [run[c] EXCEPT !.at = "write s",
                                         !.buf = {run[c].text}])
  /\ Elsewhere

WriteNative(c) == Written(c, "write s", Native(c, "s"), "", "nasm")
Nasm(c) == Tool(c, "nasm", Native(c, "s"), Native(c, "o"), "write o")
NasmDone(c) == ToolDone(c, "write o", Native(c, "o"), "", "ld")
Ld(c) == Tool(c, "ld", Native(c, "o"), Native(c, "so"), "write so")
LdDone(c) == ToolDone(c, "write so", Native(c, "so"), "", "open")

\* dlopen: once to see that it works, at once closed again, and once more when
\* the machine executes the call.  A part of a module is refused or loaded.
Dlopen(c, here, next) ==
  /\ At(c) = here
  /\ \/ files[Native(c, "so")].there /\ Goto(c, next)
     \/ ~Holds(files[Native(c, "so")], run[c].text) /\ Stop(c, FALSE)
  /\ UNCHANGED <<files, disturbed>>
  /\ Elsewhere

TryModule(c) == Dlopen(c, "open", "call")
CallNative(c) == Dlopen(c, "call", "front")

\* The back end of st_compile.
WriteAsm(c) == Written(c, "write asm", AsmPath(c), "asm", "assemble")
Assemble(c) == Tool(c, "assemble", AsmPath(c), ObjPath(c), "write obj")
Assembled(c) == ToolDone(c, "write obj", ObjPath(c), "obj", "link")
Link(c) == Tool(c, "link", ObjPath(c), ExePath(c), "write exe")
Linked(c) == ToolDone(c, "write exe", ExePath(c), "exe", "run")

\* The program is run.  Whatever it returns is the compiler's exit code; only
\* when it is killed by a signal or cannot be started has the run failed.
RunProgram(c) ==
  /\ At(c) = "run"
  /\ \E r \in BOOLEAN : Stop(c, r)
  /\ UNCHANGED <<files, disturbed>>
  /\ Elsewhere

Work(c) ==
  \/ Remove(c) \/ Cleaned(c) \/ FrontEnd(c)
  \/ Find(c) \/ WriteNative(c) \/ Nasm(c) \/ NasmDone(c) \/ Ld(c) \/ LdDone(c)
  \/ TryModule(c) \/ CallNative(c)
  \/ WriteAsm(c) \/ Assemble(c) \/ Assembled(c) \/ Link(c) \/ Linked(c) \/ RunProgram(c)

\* The compiler is killed.  Its tool, if there is one, goes on without it; or
\* there is none, or it is killed as well, and nobody goes on.  So may a tool be
\* that is left.  A program that is being run uses none of these files.
Kill(c) ==
  /\ profile.kill /\ At(c) # "off"
  /\ \/ /\ At(c) \in Tooling /\ ~run[c].killed
        /\ run' = [run EXCEPT ![c].killed = TRUE]
        /\ UNCHANGED <<files, disturbed>>
     \/ Stop(c, FALSE) /\ Abandon(c)
  /\ Elsewhere

Next == \E c \in Compiler : Start(c) \/ Work(c) \/ Kill(c)

Spec == Init /\ [][Next]_vars

\* The operating system lets every process go on.  Nobody has to start one.
FairSpec == Spec /\ \A c \in Compiler : WF_vars(Work(c))

-----------------------------------------------------------------------------
(***************************************************************************)
(* Properties.                                                             *)
(***************************************************************************)

\* The file a run is about to read, or its tool is reading, is there, complete
\* and of its own text, unless another has meddled with it: in particular after a
\* run was killed half way through making a native module, whose name the next
\* run would otherwise take for a finished one, and while a tool that outlived
\* its run is still at it (st_clean_comptime_cache against the test in
\* ST_ct_ensure_native_module).
InputsIntact ==
  \A c \in Compiler \ disturbed : \A f \in Reads(c) : Holds(files[f], run[c].text)

\* A run that ends well in the back end leaves the file it was asked for,
\* complete and of its own text (the checks of every step in st_compile).
Output(c) == CASE run[c].stage = "asm" -> AsmPath(c)
               [] run[c].stage = "obj" -> ObjPath(c)
               [] OTHER                -> ExePath(c)
Succeeds(c) == At(c) \notin {"off", "front"} /\ run'[c].at = "off" /\ run'[c].ok
SuccessIsReal ==
  [][\A c \in Compiler \ disturbed : Succeeds(c) => Holds(files'[Output(c)], run[c].text)]_vars

\* Every run ends, also when another run removes the files it wants to remove
\* or to read, or writes the file it writes.
Ends == \A c \in Compiler : At(c) # "off" ~> At(c) = "off"
=============================================================================
