--------------------------- MODULE CompilersProofs --------------------------
(***************************************************************************)
(* For any number of processes, places, texts and runs, killed wherever    *)
(* they may be, with the tools they leave behind: a run no other has       *)
(* meddled with reads only files that are complete and its own, and one    *)
(* that ends well has left what it was asked for.                          *)
(*                                                                         *)
(* The inductive invariant says why: what an undisturbed run or its tool   *)
(* writes it writes alone, what the tool reads meanwhile nobody writes,    *)
(* and once the run has cleaned up, the native modules it can find are     *)
(* sound, or somebody is writing them, or the mark of a disturbed writer   *)
(* is on them.                                                             *)
(***************************************************************************)
EXTENDS Compilers, TLAPS

-----------------------------------------------------------------------------
(* Types, and what the fields of a run say of one another. *)

FileOf == [there : {TRUE}, of : Content, open : SUBSET Compiler,
           clash : BOOLEAN, odd : BOOLEAN]

NativeSteps  == {"look", "write s", "nasm", "write o", "ld", "write so", "open", "call"}
BackEndSteps == {"write asm", "assemble", "write obj", "link", "write exe", "run"}
Busy == NativeSteps \cup BackEndSteps

StagesAt(at) ==
  CASE at = "write asm"               -> {"asm", "obj", "exe", "run"}
    [] at \in {"assemble", "write obj"} -> {"obj", "exe", "run"}
    [] at \in {"link", "write exe"}     -> {"exe", "run"}
    [] at = "run"                     -> {"run"}
    [] OTHER                          -> Stages

Coherent(c) == /\ At(c) \in Busy => run[c].text \in Text
               /\ run[c].stage \in StagesAt(At(c))

TypeOK ==
  /\ profile \in Profiles
  /\ run \in [Compiler -> Run]
  /\ files \in [Paths -> {Absent} \cup FileOf]
  /\ disturbed \subseteq Compiler
  /\ \A c \in Compiler : Coherent(c)

\* A file is open only for runs that are writing it.
WritersWrite == \A f \in Paths : \A c \in Writers(f) : f \in Makes(c)

\* Two writers at once leave a mark.
ClashIsOdd == \A f \in Paths : files[f].there /\ files[f].clash => files[f].odd

\* What an undisturbed run writes is its own, and will be complete.
WritesAlone(c) ==
  \A f \in Makes(c) : run[c].buf = {run[c].text} /\ Writers(f) = {c} /\ ~files[f].clash

\* What it reads is its own and complete, and nobody is writing it.
ReadsIntact(c) == \A f \in Reads(c) : Holds(files[f], run[c].text) /\ Writers(f) = {}

\* A finished native module made by no disturbed run is what its name says, but
\* for those earlier runs left behind, which are to be removed.
Sound(t) == LET so == <<t, "so">> IN
  files[so].there /\ Writers(so) = {} /\ ~files[so].odd => Holds(files[so], t)
ModulesSound(c) ==
  At(c) # "off" =>
    \A t \in Text :
      Sound(t) \/ (At(c) = "clean" /\ <<t, "so">> \in run[c].todo)

OneRun(c) == WritesAlone(c) /\ ReadsIntact(c) /\ ModulesSound(c)

IInv == /\ TypeOK /\ WritersWrite /\ ClashIsOdd
        /\ \A c \in Compiler \ disturbed : OneRun(c)

-----------------------------------------------------------------------------
(* What a run makes and reads. *)

LEMMA Names ==
  ASSUME NEW c \in Compiler
  PROVE  /\ At(c) = "write s"           => Makes(c) = {Native(c, "s")} /\ Reads(c) = {}
         /\ At(c) = "nasm"              => Makes(c) = {} /\ Reads(c) = {Native(c, "s")}
         /\ At(c) = "write o"           => Makes(c) = {Native(c, "o")} /\ Reads(c) = {Native(c, "s")}
         /\ At(c) = "ld"                => Makes(c) = {} /\ Reads(c) = {Native(c, "o")}
         /\ At(c) = "write so"          => Makes(c) = {Native(c, "so")} /\ Reads(c) = {Native(c, "o")}
         /\ At(c) \in {"open", "call"}  => Makes(c) = {} /\ Reads(c) = {Native(c, "so")}
         /\ At(c) = "write asm"         => Makes(c) = {AsmPath(c)} /\ Reads(c) = {}
         /\ At(c) = "assemble"          => Makes(c) = {} /\ Reads(c) = {AsmPath(c)}
         /\ At(c) = "write obj"         => Makes(c) = {ObjPath(c)} /\ Reads(c) = {AsmPath(c)}
         /\ At(c) = "link"              => Makes(c) = {} /\ Reads(c) = {ObjPath(c)}
         /\ At(c) = "write exe"         => Makes(c) = {ExePath(c)} /\ Reads(c) = {ObjPath(c)}
         /\ At(c) = "run"               => Makes(c) = {} /\ Reads(c) = {ExePath(c)}
         /\ At(c) \notin Busy \ {"look"} => Makes(c) = {} /\ Reads(c) = {}
BY DEF Makes, Reads, Busy, NativeSteps, BackEndSteps

LEMMA NamesNext ==
  ASSUME NEW c \in Compiler, run'[c].text = run[c].text, run'[c].stage = run[c].stage,
         run'[c].place = run[c].place
  PROVE  /\ At(c)' = "write s"           => Makes(c)' = {Native(c, "s")} /\ Reads(c)' = {}
         /\ At(c)' = "nasm"              => Makes(c)' = {} /\ Reads(c)' = {Native(c, "s")}
         /\ At(c)' = "write o"           => Makes(c)' = {Native(c, "o")} /\ Reads(c)' = {Native(c, "s")}
         /\ At(c)' = "ld"                => Makes(c)' = {} /\ Reads(c)' = {Native(c, "o")}
         /\ At(c)' = "write so"          => Makes(c)' = {Native(c, "so")} /\ Reads(c)' = {Native(c, "o")}
         /\ At(c)' \in {"open", "call"}  => Makes(c)' = {} /\ Reads(c)' = {Native(c, "so")}
         /\ At(c)' = "assemble"          => Makes(c)' = {} /\ Reads(c)' = {AsmPath(c)}
         /\ At(c)' = "write obj"         => Makes(c)' = {ObjPath(c)} /\ Reads(c)' = {AsmPath(c)}
         /\ At(c)' = "link"              => Makes(c)' = {} /\ Reads(c)' = {ObjPath(c)}
         /\ At(c)' = "write exe"         => Makes(c)' = {ExePath(c)} /\ Reads(c)' = {ObjPath(c)}
         /\ At(c)' = "run"               => Makes(c)' = {} /\ Reads(c)' = {ExePath(c)}
<1>1. /\ \A ext : Native(c, ext)' = Native(c, ext)
      /\ AsmPath(c)' = AsmPath(c) /\ ObjPath(c)' = ObjPath(c) /\ ExePath(c)' = ExePath(c)
  BY DEF Native, AsmPath, ObjPath, ExePath
<1> QED
  BY <1>1 DEF Makes, Reads

\* A run that is between files.
LEMMA NoNames ==
  ASSUME NEW c \in Compiler
  PROVE  /\ At(c) \in {"off", "clean", "front", "look"} => Makes(c) = {} /\ Reads(c) = {}
         /\ At(c)' \in {"off", "clean", "front", "look"} => Makes(c)' = {} /\ Reads(c)' = {}
BY DEF Makes, Reads

LEMMA PathsOf ==
  ASSUME TypeOK, NEW c \in Compiler
  PROVE  /\ AsmPath(c) \in Paths /\ ObjPath(c) \in Paths /\ ExePath(c) \in Paths
         /\ At(c) \in Busy => \A ext \in {"s", "o", "so"} : Native(c, ext) \in Paths
         /\ Makes(c) \subseteq Paths /\ Reads(c) \subseteq Paths
<1>1. run[c] \in Run /\ (At(c) \in Busy => run[c].text \in Text)
  BY DEF TypeOK, Coherent
<1>2. run[c].place \in Place
  BY <1>1 DEF Run
<1>3. AsmPath(c) \in Paths /\ ObjPath(c) \in Paths /\ ExePath(c) \in Paths
  BY <1>2 DEF AsmPath, ObjPath, ExePath, Paths
<1>4. At(c) \in Busy => \A ext \in {"s", "o", "so"} : Native(c, ext) \in Paths
  BY <1>1 DEF Native, Paths, NativeFiles
<1>5. Makes(c) \subseteq Paths /\ Reads(c) \subseteq Paths
  <2>1. CASE At(c) \in NativeSteps
    <3>1. \A ext \in {"s", "o", "so"} : Native(c, ext) \in Paths
      BY <1>4, <2>1 DEF Busy
    <3>2. CASE At(c) = "look"
      BY <3>2, NoNames
    <3>3. CASE At(c) \in {"write s", "write o", "write so"}
      BY <3>1, <3>3, Names
    <3>4. CASE At(c) \in {"nasm", "ld", "open", "call"}
      BY <3>1, <3>4, Names
    <3> QED
      BY <2>1, <3>2, <3>3, <3>4 DEF NativeSteps
  <2>2. CASE At(c) \in BackEndSteps
    BY <1>3, <2>2, Names DEF BackEndSteps
  <2>3. CASE At(c) \notin Busy
    BY <2>3, Names
  <2> QED
    BY <2>1, <2>2, <2>3 DEF Busy
<1> QED
  BY <1>3, <1>4, <1>5

LEMMA WritersAreRuns ==
  ASSUME TypeOK, NEW f \in Paths
  PROVE  Writers(f) \subseteq Compiler
<1>1. files[f] = Absent \/ files[f] \in FileOf
  BY DEF TypeOK
<1>2. CASE files[f] = Absent
  BY <1>2 DEF Absent, Writers
<1>3. CASE files[f] \in FileOf
  BY <1>3 DEF FileOf, Writers
<1> QED
  BY <1>1, <1>2, <1>3

\* The shared object a run writes is named by its text.
LEMMA ModulePath ==
  ASSUME NEW c \in Compiler, NEW t, <<t, "so">> \in Makes(c)
  PROVE  run[c].text = t
<1>1. CASE At(c) \in {"write s", "write o", "write so"}
  <2>1. \E ext : <<t, "so">> = <<run[c].text, ext>>
    BY <1>1, Names DEF Native
  <2> QED
    BY <2>1
<1>2. CASE At(c) \in {"write asm", "write obj", "write exe"}
  <2>1. /\ \E x : AsmPath(c) = <<x, "asm">>
        /\ \E x : ObjPath(c) = <<x, "obj">>
        /\ \E x : ExePath(c) = <<x, "exe">>
    BY DEF AsmPath, ObjPath, ExePath
  <2>2. <<t, "so">> \in {AsmPath(c), ObjPath(c), ExePath(c)}
    BY <1>2, Names
  <2>3. /\ \A x : <<x, "asm">> # <<t, "so">>
        /\ \A x : <<x, "obj">> # <<t, "so">>
        /\ \A x : <<x, "exe">> # <<t, "so">>
    OBVIOUS
  <2> QED
    BY <2>1, <2>2, <2>3
<1>3. CASE At(c) \notin {"write s", "write o", "write so", "write asm", "write obj", "write exe"}
  BY <1>3 DEF Makes
<1> QED
  BY <1>1, <1>2, <1>3

-----------------------------------------------------------------------------
(* What a step of one run leaves to the others. *)

SameWork(c) ==
  /\ At(c)' = At(c) /\ Makes(c)' = Makes(c) /\ Reads(c)' = Reads(c)
  /\ run'[c].text = run[c].text /\ run'[c].stage = run[c].stage

LEMMA SameNames ==
  ASSUME NEW c \in Compiler, run'[c].at = run[c].at, run'[c].text = run[c].text,
         run'[c].stage = run[c].stage, run'[c].place = run[c].place
  PROVE  SameWork(c)
BY DEF SameWork, At, Makes, Reads, Native, AsmPath, ObjPath, ExePath

\* The invariant after a step of d that leaves the undisturbed others their
\* files, or comes when they are all off.
LEMMA Frame ==
  ASSUME IInv, NEW d \in Compiler,
         UNCHANGED profile, run' \in [Compiler -> Run], disturbed' \subseteq Compiler,
         files' \in [Paths -> {Absent} \cup FileOf],
         Coherent(d)', ClashIsOdd',
         \A c \in Compiler \ {d} : SameWork(c),
         \A g \in Paths : \A c \in Writers(g)' :
            (c = d /\ g \in Makes(d)') \/ (c # d /\ c \in Writers(g)),
         \A c \in Compiler \ {d} : c \notin disturbed' =>
            \/ At(c) = "off"
            \/ /\ c \notin disturbed /\ run'[c] = run[c]
               /\ \A g \in Uses(c) : files'[g] = files[g]
               /\ \A t \in Text : Sound(t) => Sound(t)',
         d \notin disturbed' => OneRun(d)'
  PROVE  IInv'
<1>1. TypeOK'
  <2>1. \A c \in Compiler : c # d => Coherent(c)'
    BY DEF Coherent, SameWork, IInv, TypeOK
  <2> QED
    BY <2>1 DEF IInv, TypeOK
<1>2. WritersWrite'
  <2> SUFFICES ASSUME NEW g \in Paths, NEW c \in Writers(g)'
               PROVE  g \in Makes(c)'
    BY DEF WritersWrite
  <2>1. CASE c # d
    <3>1. c \in Writers(g) /\ c \in Compiler
      BY <2>1, WritersAreRuns DEF IInv
    <3> QED
      BY <2>1, <3>1 DEF IInv, WritersWrite, SameWork
  <2> QED
    BY <2>1
<1>3. ASSUME NEW c \in Compiler, c \notin disturbed', c # d
      PROVE  OneRun(c)'
  <2>0. SameWork(c)
    BY <1>3
  <2>1. CASE At(c) = "off"
    BY <2>0, <2>1, NoNames DEF SameWork, OneRun, WritesAlone, ReadsIntact, ModulesSound
  <2>2. CASE At(c) # "off"
    <3>1. /\ c \notin disturbed /\ run'[c] = run[c]
          /\ \A g \in Uses(c) : files'[g] = files[g]
          /\ \A t \in Text : Sound(t) => Sound(t)'
      BY <1>3, <2>2
    <3>2. OneRun(c)
      BY <3>1 DEF IInv
    <3>3. \A g \in Makes(c) \cup Reads(c) : files'[g] = files[g] /\ Writers(g)' = Writers(g)
      BY <3>1 DEF Uses, Writers
    <3>4. WritesAlone(c)'
      BY <2>0, <3>1, <3>2, <3>3 DEF SameWork, OneRun, WritesAlone
    <3>5. ReadsIntact(c)'
      BY <2>0, <3>1, <3>2, <3>3 DEF SameWork, OneRun, ReadsIntact
    <3>6. ModulesSound(c)'
      BY <2>0, <3>1, <3>2 DEF SameWork, OneRun, ModulesSound
    <3> QED
      BY <3>4, <3>5, <3>6 DEF OneRun
  <2> QED
    BY <2>1, <2>2
<1> QED
  BY <1>1, <1>2, <1>3 DEF IInv

-----------------------------------------------------------------------------
(* The primitives the steps are made of. *)

\* Creating or removing a file d leaves the runs of the others as they were, but
\* for what may come of those it has startled.
LEMMA StartledRuns ==
  ASSUME TypeOK, NEW d \in Compiler, NEW f, NEW r \in Run,
         run' = [Startled(d, f) EXCEPT ![d] = r]
  PROVE  /\ run' \in [Compiler -> Run] /\ run'[d] = r
         /\ \A c \in Compiler \ {d} : SameWork(c)
         /\ \A c \in Compiler \ {d} : c \notin Victims(d, f) => run'[c] = run[c] /\ f \notin Uses(c)
<1> DEFINE other(c) == IF c # d /\ f \in Reads(c) /\ Makes(c) # {}
                       THEN [run[c] EXCEPT !.buf = Content] ELSE run[c]
<1>1. Startled(d, f) = [c \in Compiler |-> other(c)]
  BY DEF Startled
<1>2. ASSUME NEW c \in Compiler
      PROVE  /\ other(c) \in Run
             /\ other(c).at = run[c].at /\ other(c).text = run[c].text
             /\ other(c).stage = run[c].stage /\ other(c).place = run[c].place
  <2>1. run[c] \in Run
    BY DEF TypeOK
  <2>2. CASE other(c) = run[c]
    BY <2>1, <2>2
  <2>3. CASE other(c) = [run[c] EXCEPT !.buf = Content]
    <3>1. PICK q : q = [run[c] EXCEPT !.buf = Content]
      OBVIOUS
    <3>2. /\ q \in Run
          /\ q.at = run[c].at /\ q.text = run[c].text
          /\ q.stage = run[c].stage /\ q.place = run[c].place
      BY <2>1, <3>1 DEF Run
    <3> QED
      BY <2>3, <3>1, <3>2
  <2> QED
    BY <2>2, <2>3
<1>3. /\ run' \in [Compiler -> Run] /\ run'[d] = r
      /\ \A c \in Compiler : c # d => run'[c] = other(c)
  <2> HIDE DEF other
  <2> QED
    BY <1>1, <1>2
<1>4. \A c \in Compiler \ {d} : SameWork(c)
  <2> HIDE DEF other
  <2> QED
    BY <1>2, <1>3, SameNames
<1>5. \A c \in Compiler \ {d} : c \notin Victims(d, f) => run'[c] = run[c] /\ f \notin Uses(c)
  BY <1>3 DEF Victims, Uses
<1> QED
  BY <1>3, <1>4, <1>5

\* A step of one run that leaves the files alone.
LEMMA QuietStep ==
  ASSUME IInv, NEW d \in Compiler, NEW r \in Run, run' = [run EXCEPT ![d] = r],
         UNCHANGED <<profile, files>>, disturbed \subseteq disturbed' \cup {d},
         disturbed' \subseteq Compiler,
         Coherent(d)', Makes(d) \subseteq Makes(d)',
         d \notin disturbed' => OneRun(d)'
  PROVE  IInv'
<1>1. /\ run' \in [Compiler -> Run]
      /\ \A c \in Compiler : c # d => run'[c] = run[c]
  BY DEF IInv, TypeOK
<1>2. \A c \in Compiler \ {d} : SameWork(c)
  BY <1>1, SameNames
<1>3. files' \in [Paths -> {Absent} \cup FileOf] /\ ClashIsOdd'
  BY DEF IInv, TypeOK, ClashIsOdd
<1>4. \A g \in Paths : \A c \in Writers(g)' :
        (c = d /\ g \in Makes(d)') \/ (c # d /\ c \in Writers(g))
  BY DEF IInv, WritersWrite, Writers
<1>5. \A t \in Text : Sound(t) => Sound(t)'
  BY DEF Sound, Writers
<1> QED
  BY <1>1, <1>2, <1>3, <1>4, <1>5, Frame

\* Other names and soundness do not change when the run d stays where it can
\* find modules.
LEMMA StillSound ==
  ASSUME NEW d \in Compiler, ModulesSound(d), At(d) # "off",
         \A t \in Text : Sound(t) => Sound(t)',
         At(d) = "clean" => run[d].todo = {}
  PROVE  ModulesSound(d)'
BY DEF ModulesSound

LEMMA CreateStep ==
  ASSUME IInv, NEW d \in Compiler, NEW f \in Paths, NEW r \in Run,
         Create(d, f, r), UNCHANGED profile,
         At(d) \notin {"off", "clean"}, Makes(d) = {},
         Coherent(d)', Makes(d)' = {f}, Reads(d)' \subseteq Reads(d) \ {f},
         Reads(d)' # {} => r.text = run[d].text,
         d \notin disturbed => r.buf = {r.text}
  PROVE  IInv'
<1>1. /\ run' = [Startled(d, f) EXCEPT ![d] = r]
      /\ files' = [files EXCEPT ![f] = File(NoText, Writers(f) \cup {d}, Writers(f) # {},
                                           d \in disturbed')]
      /\ disturbed' = disturbed \cup Victims(d, f) \cup {e \in {d} : Writers(f) # {}}
  BY DEF Create
<1>2. /\ run' \in [Compiler -> Run] /\ run'[d] = r
      /\ \A c \in Compiler \ {d} : SameWork(c)
      /\ \A c \in Compiler \ {d} : c \notin Victims(d, f) => run'[c] = run[c] /\ f \notin Uses(c)
  BY <1>1, StartledRuns DEF IInv
<1>3. /\ Writers(f) \subseteq Compiler
      /\ \A g \in Paths : d \notin Writers(g)
  BY WritersAreRuns DEF IInv, WritersWrite
<1>4. /\ files'[f].there /\ files'[f].open = Writers(f) \cup {d}
      /\ files'[f].clash = (Writers(f) # {}) /\ files'[f].odd = (d \in disturbed')
      /\ files' \in [Paths -> {Absent} \cup FileOf]
      /\ \A g \in Paths : g # f => files'[g] = files[g]
  <2> DEFINE new == File(NoText, Writers(f) \cup {d}, Writers(f) # {}, d \in disturbed')
  <2>1. files \in [Paths -> {Absent} \cup FileOf]
    BY DEF IInv, TypeOK
  <2>2. /\ new \in FileOf /\ new.there /\ new.open = Writers(f) \cup {d}
        /\ new.clash = (Writers(f) # {}) /\ new.odd = (d \in disturbed')
    BY <1>3 DEF File, FileOf, Content
  <2>3. files' = [files EXCEPT ![f] = new]
    BY <1>1
  <2> HIDE DEF new
  <2> QED
    BY <2>1, <2>2, <2>3
<1>5. /\ Writers(f)' = Writers(f) \cup {d}
      /\ \A g \in Paths : g # f => Writers(g)' = Writers(g)
  BY <1>4 DEF Writers
<1>6. disturbed' \subseteq Compiler /\ disturbed \subseteq disturbed'
  BY <1>1 DEF IInv, TypeOK, Victims
<1>7. ClashIsOdd'
  <2>1. Writers(f) # {} => d \in disturbed'
    BY <1>1
  <2> QED
    BY <1>4, <2>1 DEF IInv, ClashIsOdd
<1>8. \A g \in Paths : \A c \in Writers(g)' :
        (c = d /\ g \in Makes(d)') \/ (c # d /\ c \in Writers(g))
  BY <1>3, <1>5
<1>9. ASSUME NEW t \in Text, Sound(t)
      PROVE  Sound(t)'
  <2>1. <<t, "so">> \in Paths
    BY DEF Paths, NativeFiles
  <2>2. CASE f = <<t, "so">>
    BY <1>5, <2>2 DEF Sound
  <2>3. CASE f # <<t, "so">>
    BY <1>4, <1>5, <1>9, <2>1, <2>3 DEF Sound
  <2> QED
    BY <2>2, <2>3
<1>10. ASSUME NEW c \in Compiler \ {d}, c \notin disturbed'
       PROVE  /\ c \notin disturbed /\ run'[c] = run[c]
              /\ \A g \in Uses(c) : files'[g] = files[g]
  <2>1. c \notin Victims(d, f) /\ c \notin disturbed
    BY <1>1, <1>10
  <2>2. Uses(c) \subseteq Paths
    BY PathsOf DEF IInv, Uses
  <2> QED
    BY <1>2, <1>4, <2>1, <2>2
<1>11. ASSUME d \notin disturbed'
       PROVE  OneRun(d)'
  <2>1. d \notin disturbed /\ Writers(f) = {} /\ OneRun(d)
    BY <1>1, <1>6, <1>11 DEF IInv
  <2>2. WritesAlone(d)'
    BY <1>2, <1>4, <1>5, <2>1 DEF WritesAlone
  <2>3. ReadsIntact(d)'
    <3> SUFFICES ASSUME NEW g \in Reads(d)'
                 PROVE  Holds(files'[g], run'[d].text) /\ Writers(g)' = {}
      BY DEF ReadsIntact
    <3>1. g \in Reads(d) /\ g # f /\ g \in Paths
      BY PathsOf DEF IInv
    <3>2. Holds(files[g], run[d].text) /\ Writers(g) = {}
      BY <2>1, <3>1 DEF OneRun, ReadsIntact
    <3> QED
      BY <1>2, <1>4, <1>5, <3>1, <3>2
  <2>4. ModulesSound(d)'
    BY <1>9, <2>1, StillSound DEF OneRun
  <2> QED
    BY <2>2, <2>3, <2>4 DEF OneRun
<1> QED
  BY <1>2, <1>4, <1>6, <1>7, <1>8, <1>9, <1>10, <1>11, Frame

\* A file is removed by a run that cleans up, or by a tool that gives up.
LEMMA UnlinkStep ==
  ASSUME IInv, NEW d \in Compiler, NEW f \in Paths, NEW r \in Run,
         Unlink(d, f, r), UNCHANGED profile,
         Makes(d) \subseteq {f}, Coherent(d)', r.at \in {"off", "clean"},
         r.at = "clean" => At(d) = "clean" /\ r.todo = run[d].todo \ {f}
  PROVE  IInv'
<1>1. /\ run' = [Startled(d, f) EXCEPT ![d] = r]
      /\ files' = [files EXCEPT ![f] = Absent]
      /\ disturbed' = disturbed \cup Victims(d, f)
  BY DEF Unlink
<1>2. /\ run' \in [Compiler -> Run] /\ run'[d] = r
      /\ \A c \in Compiler \ {d} : SameWork(c)
      /\ \A c \in Compiler \ {d} : c \notin Victims(d, f) => run'[c] = run[c] /\ f \notin Uses(c)
  BY <1>1, StartledRuns DEF IInv
<1>3. /\ files' \in [Paths -> {Absent} \cup FileOf] /\ ~files'[f].there /\ Writers(f)' = {}
      /\ \A g \in Paths : g # f => files'[g] = files[g] /\ Writers(g)' = Writers(g)
  <2>1. files' \in [Paths -> {Absent} \cup FileOf]
    BY <1>1 DEF IInv, TypeOK
  <2>2. files'[f] = Absent /\ \A g \in Paths : g # f => files'[g] = files[g]
    BY <1>1 DEF IInv, TypeOK
  <2>3. ~files'[f].there
    BY <2>2 DEF Absent
  <2> QED
    BY <2>1, <2>2, <2>3 DEF Writers
<1>4. disturbed' \subseteq Compiler /\ disturbed \subseteq disturbed'
  BY <1>1 DEF IInv, TypeOK, Victims
<1>5. ClashIsOdd'
  BY <1>3 DEF IInv, ClashIsOdd
<1>6. \A g \in Paths : \A c \in Writers(g)' :
        (c = d /\ g \in Makes(d)') \/ (c # d /\ c \in Writers(g))
  BY <1>3 DEF IInv, WritersWrite
<1>7. ASSUME NEW t \in Text
      PROVE  Sound(t) \/ <<t, "so">> = f => Sound(t)'
  <2>1. <<t, "so">> \in Paths
    BY DEF Paths, NativeFiles
  <2> QED
    BY <1>3, <2>1 DEF Sound
<1>8. ASSUME NEW c \in Compiler \ {d}, c \notin disturbed'
      PROVE  /\ c \notin disturbed /\ run'[c] = run[c]
             /\ \A g \in Uses(c) : files'[g] = files[g]
  <2>1. c \notin Victims(d, f) /\ c \notin disturbed
    BY <1>1, <1>8
  <2>2. Uses(c) \subseteq Paths
    BY PathsOf DEF IInv, Uses
  <2> QED
    BY <1>2, <1>3, <2>1, <2>2
<1>9. ASSUME d \notin disturbed'
      PROVE  OneRun(d)'
  <2>1. At(d)' = r.at
    BY <1>2 DEF At
  <2>2. WritesAlone(d)' /\ ReadsIntact(d)'
    BY <2>1, NoNames DEF WritesAlone, ReadsIntact
  <2>3. ModulesSound(d)'
    <3>1. CASE r.at = "clean"
      <4>1. ModulesSound(d)
        BY <1>4, <1>9 DEF IInv, OneRun
      <4>2. ASSUME NEW t \in Text
            PROVE  Sound(t)' \/ <<t, "so">> \in run'[d].todo
        BY <1>2, <1>7, <3>1, <4>1 DEF ModulesSound
      <4> QED
        BY <2>1, <3>1, <4>2 DEF ModulesSound
    <3>2. CASE r.at = "off"
      BY <2>1, <3>2 DEF ModulesSound
    <3> QED
      BY <3>1, <3>2
  <2> QED
    BY <2>2, <2>3 DEF OneRun
<1> QED
  BY <1>2, <1>3, <1>4, <1>5, <1>6, <1>7, <1>8, <1>9, Frame

\* A step that completes the file a run was writing.
LEMMA CloseStep ==
  ASSUME IInv, NEW d \in Compiler, NEW f \in Paths, NEW r \in Run,
         Close(d, f), Makes(d) = {f}, At(d) \notin {"off", "clean"},
         run' = [run EXCEPT ![d] = r], UNCHANGED <<profile, disturbed>>,
         Coherent(d)', Makes(d)' = {}, Reads(d)' \subseteq {f},
         Reads(d)' # {} => r.text = run[d].text
  PROVE  IInv' /\ (d \notin disturbed => Holds(files'[f], run[d].text))
<1>1. /\ run' \in [Compiler -> Run] /\ run'[d] = r
      /\ \A c \in Compiler : c # d => run'[c] = run[c]
  BY DEF IInv, TypeOK
<1>2. \A c \in Compiler \ {d} : SameWork(c)
  BY <1>1, SameNames
<1>3. /\ files' \in [Paths -> {Absent} \cup FileOf] /\ ClashIsOdd'
      /\ Writers(f)' = Writers(f) \ {d}
      /\ \A g \in Paths : g # f => files'[g] = files[g] /\ Writers(g)' = Writers(g)
      /\ d \in Writers(f) /\ d \in disturbed => files'[f].odd
  <2>1. CASE d \in Writers(f)
    <3>1. PICK t \in run[d].buf \cup (IF files[f].clash THEN {NoText} ELSE {}) :
            files' = [files EXCEPT ![f] = File(t, @.open \ {d}, @.clash, @.odd \/ d \in disturbed)]
      BY <2>1 DEF Close
    <3> DEFINE new == File(t, files[f].open \ {d}, files[f].clash, files[f].odd \/ d \in disturbed)
    <3>2. files[f].there
      BY <2>1 DEF Writers
    <3>3. files[f] \in FileOf
      BY <3>2 DEF Absent, IInv, TypeOK
    <3>4. t \in Content
      <4>1. run[d].buf \subseteq Content
        BY DEF IInv, TypeOK, Run
      <4> QED
        BY <4>1 DEF Content
    <3>5. new \in FileOf
      BY <3>3, <3>4 DEF FileOf, File
    <3>6. /\ new.there /\ new.open = files[f].open \ {d} /\ new.clash = files[f].clash
          /\ (files[f].odd => new.odd) /\ (d \in disturbed => new.odd)
      BY DEF File
    <3>7. files' = [files EXCEPT ![f] = new]
      BY <3>1
    <3> HIDE DEF new
    <3> QED
      BY <2>1, <3>2, <3>5, <3>6, <3>7 DEF IInv, TypeOK, ClashIsOdd, Writers
  <2>2. CASE d \notin Writers(f)
    BY <2>2 DEF Close, IInv, TypeOK, ClashIsOdd, Writers
  <2> QED
    BY <2>1, <2>2
<1>4. \A g \in Paths : \A c \in Writers(g)' :
        (c = d /\ g \in Makes(d)') \/ (c # d /\ c \in Writers(g))
  BY <1>3 DEF IInv, WritersWrite
<1>5. ASSUME d \notin disturbed
      PROVE  Holds(files'[f], run[d].text) /\ Writers(f)' = {}
  <2>1. run[d].buf = {run[d].text} /\ Writers(f) = {d} /\ ~files[f].clash
    BY <1>5 DEF IInv, OneRun, WritesAlone
  <2>2. PICK t \in {run[d].text} :
          files' = [files EXCEPT ![f] = File(t, @.open \ {d}, @.clash, @.odd \/ d \in disturbed)]
    BY <2>1 DEF Close
  <2>3. files'[f].there /\ files'[f].of = t
    BY <2>2 DEF IInv, TypeOK, File
  <2> QED
    BY <1>3, <2>1, <2>3 DEF Holds
<1>6. ASSUME NEW t \in Text, Sound(t)
      PROVE  Sound(t)'
  <2>1. <<t, "so">> \in Paths
    BY DEF Paths, NativeFiles
  <2>2. CASE f # <<t, "so">>
    BY <1>3, <1>6, <2>1, <2>2 DEF Sound
  <2>3. CASE f = <<t, "so">> /\ d \in Writers(f)
    <3>1. run[d].text = t
      BY <2>3, ModulePath
    <3> QED
      BY <1>3, <1>5, <2>3, <3>1 DEF Sound
  <2>4. CASE f = <<t, "so">> /\ d \notin Writers(f)
    BY <1>6, <2>4 DEF Close, Sound, Writers
  <2> QED
    BY <2>2, <2>3, <2>4
<1>7. ASSUME NEW c \in Compiler \ {d}, c \notin disturbed
      PROVE  \A g \in Uses(c) : files'[g] = files[g]
  <2>1. OneRun(c) /\ Uses(c) \subseteq Paths
    BY <1>7, PathsOf DEF IInv, Uses
  <2>2. CASE d \notin Writers(f)
    BY <2>2 DEF Close
  <2>3. CASE d \in Writers(f)
    <3>1. f \notin Uses(c)
      BY <1>7, <2>1, <2>3 DEF OneRun, WritesAlone, ReadsIntact, Uses
    <3> QED
      BY <1>3, <2>1, <3>1
  <2> QED
    BY <2>2, <2>3
<1>8. ASSUME d \notin disturbed
      PROVE  OneRun(d)'
  <2>1. OneRun(d)
    BY <1>8 DEF IInv
  <2>2. WritesAlone(d)'
    BY DEF WritesAlone
  <2>3. ReadsIntact(d)'
    BY <1>1, <1>5, <1>8 DEF ReadsIntact
  <2>4. ModulesSound(d)'
    BY <1>6, <2>1, StillSound DEF OneRun
  <2> QED
    BY <2>2, <2>3, <2>4 DEF OneRun
<1>9. disturbed' \subseteq Compiler
  BY DEF IInv, TypeOK
<1>10. IInv'
  BY <1>1, <1>2, <1>3, <1>4, <1>6, <1>7, <1>8, <1>9, Frame
<1> QED
  BY <1>5, <1>10

\* What the result of a run says of the run that had it.
LEMMA EndedRun ==
  ASSUME TypeOK, NEW d \in Compiler, NEW ok \in BOOLEAN
  PROVE  /\ Ended(run[d], ok) \in Run /\ Ended(run[d], ok).at = "off"
         /\ Ended(run[d], ok).stage = "dump" /\ Ended(run[d], ok).ok = ok
<1>1. run[d].place \in Place
  BY DEF TypeOK, Run
<1> QED
  BY <1>1 DEF Ended, Begun, Run, Content, Stages

\* A run that has ended is coherent, and nothing is asked of it.
LEMMA OffIsFine ==
  ASSUME NEW d \in Compiler, run'[d].at = "off", run'[d].stage = "dump"
  PROVE  At(d)' = "off" /\ Coherent(d)' /\ OneRun(d)' /\ Makes(d)' = {} /\ Reads(d)' = {}
<1>1. At(d)' = "off"
  BY DEF At
<1>2. Makes(d)' = {} /\ Reads(d)' = {}
  BY <1>1, NoNames
<1>3. Coherent(d)'
  BY <1>1 DEF Coherent, Busy, NativeSteps, BackEndSteps, StagesAt, Stages
<1> QED
  BY <1>1, <1>2, <1>3 DEF OneRun, WritesAlone, ReadsIntact, ModulesSound

\* Whatever d is at is given up, and whoever is at work may be disturbed by it.
LEMMA AbandonStep ==
  ASSUME IInv, NEW d \in Compiler, Stop(d, FALSE), Abandon(d), UNCHANGED profile
  PROVE  IInv'
<1> DEFINE r == Ended(run[d], FALSE)
<1>1. r \in Run /\ r.at = "off" /\ r.stage = "dump"
  BY EndedRun DEF IInv
<1>2. /\ run' = [run EXCEPT ![d] = r]
      /\ files' = [f \in Paths |-> IF files[f].there THEN [files[f] EXCEPT !.open = @ \ {d}]
                                                     ELSE files[f]]
      /\ disturbed' = disturbed \cup {c \in Compiler \ {d} : At(c) # "off"}
  BY DEF Stop, Abandon
<1> HIDE DEF r
<1>3. /\ run' \in [Compiler -> Run] /\ run'[d] = r
      /\ \A c \in Compiler : c # d => run'[c] = run[c]
  BY <1>1, <1>2 DEF IInv, TypeOK
<1>4. \A c \in Compiler \ {d} : SameWork(c)
  BY <1>3, SameNames
<1>5. ASSUME NEW f \in Paths
      PROVE  /\ files'[f] \in {Absent} \cup FileOf
             /\ files'[f].there = files[f].there /\ Writers(f)' = Writers(f) \ {d}
             /\ files[f].there => files'[f].clash = files[f].clash /\ files'[f].odd = files[f].odd
  <2>1. CASE files[f] = Absent
    <3>1. files'[f] = Absent /\ ~Absent.there
      BY <1>2, <2>1 DEF Absent
    <3> QED
      BY <2>1, <3>1 DEF Writers
  <2>2. CASE files[f] \in FileOf
    <3>1. files[f].there /\ files'[f] = [files[f] EXCEPT !.open = @ \ {d}]
      BY <1>2, <2>2 DEF FileOf
    <3>2. files'[f] \in FileOf /\ files'[f].open = files[f].open \ {d}
      BY <2>2, <3>1 DEF FileOf
    <3>3. files'[f].clash = files[f].clash /\ files'[f].odd = files[f].odd
      BY <2>2, <3>1 DEF FileOf
    <3>4. files'[f].there
      BY <3>2 DEF FileOf
    <3> QED
      BY <3>1, <3>2, <3>3, <3>4 DEF Writers
  <2> QED
    BY <2>1, <2>2 DEF IInv, TypeOK
<1>6. files' \in [Paths -> {Absent} \cup FileOf]
  BY <1>2, <1>5
<1>7. disturbed' \subseteq Compiler
  BY <1>2 DEF IInv, TypeOK
<1>8. ClashIsOdd'
  BY <1>5 DEF IInv, ClashIsOdd
<1>9. \A g \in Paths : \A c \in Writers(g)' :
        (c = d /\ g \in Makes(d)') \/ (c # d /\ c \in Writers(g))
  BY <1>5
<1>10. Coherent(d)' /\ OneRun(d)'
  BY <1>1, <1>3, OffIsFine
<1>11. \A c \in Compiler \ {d} : c \notin disturbed' => At(c) = "off"
  BY <1>2
<1> QED
  BY <1>3, <1>4, <1>6, <1>7, <1>8, <1>9, <1>10, <1>11, Frame

-----------------------------------------------------------------------------
(* The steps. *)

\* A run that ends while it is writing nothing.
LEMMA StopStep ==
  ASSUME IInv, NEW d \in Compiler, NEW ok \in BOOLEAN, Stop(d, ok),
         UNCHANGED <<profile, files, disturbed>>, Makes(d) = {}
  PROVE  IInv'
<1> DEFINE r == Ended(run[d], ok)
<1>1. r \in Run /\ r.at = "off" /\ r.stage = "dump"
  BY EndedRun DEF IInv
<1>2. run' = [run EXCEPT ![d] = r]
  BY DEF Stop
<1>3. disturbed' \subseteq Compiler /\ disturbed \subseteq disturbed' \cup {d}
  BY DEF IInv, TypeOK
<1> HIDE DEF r
<1>4. run'[d] = r
  BY <1>2 DEF IInv, TypeOK
<1>5. Coherent(d)' /\ OneRun(d)'
  BY <1>1, <1>4, OffIsFine
<1> QED
  BY <1>1, <1>2, <1>3, <1>5, QuietStep

LEMMA StartStep ==
  ASSUME IInv, NEW d \in Compiler, Start(d)
  PROVE  IInv'
<1>1. PICK s \in profile.stages, place \in profile.places :
        run' = [run EXCEPT ![d] = [Begun(s, place) EXCEPT
                                     !.todo = {f \in NativeFiles : files[f].there}]]
  BY DEF Start
<1> DEFINE r == [Begun(s, place) EXCEPT !.todo = {f \in NativeFiles : files[f].there}]
<1>2. s \in Stages /\ place \in Place
  BY <1>1, ProfilesAssumption DEF IInv, TypeOK, Profile
<1>3. r \in Run /\ r.at = "clean" /\ r.stage \in Stages /\ r.todo = {f \in NativeFiles : files[f].there}
  BY <1>2 DEF Begun, Run, Content
<1>4. run' = [run EXCEPT ![d] = r]
  BY <1>1
<1> HIDE DEF r
<1>5. run'[d] = r
  BY <1>4 DEF IInv, TypeOK
<1>6. At(d) = "off" /\ At(d)' = "clean"
  BY <1>3, <1>5 DEF Start, MayStart, At
<1>7. UNCHANGED <<profile, files>> /\ disturbed' = disturbed \ {d}
  BY DEF Start
<1>8. Coherent(d)'
  BY <1>3, <1>5, <1>6 DEF Coherent, Busy, NativeSteps, BackEndSteps, StagesAt
<1>9. Makes(d) = {} /\ Makes(d)' = {} /\ Reads(d)' = {}
  BY <1>6, NoNames
<1>10. OneRun(d)'
  <2>1. ASSUME NEW t \in Text
        PROVE  Sound(t)' \/ <<t, "so">> \in run'[d].todo
    <3>1. <<t, "so">> \in NativeFiles
      BY DEF NativeFiles
    <3> QED
      BY <1>3, <1>5, <1>7, <3>1 DEF Sound
  <2> QED
    BY <1>6, <1>9, <2>1 DEF OneRun, WritesAlone, ReadsIntact, ModulesSound
<1>11. disturbed' \subseteq Compiler /\ disturbed \subseteq disturbed' \cup {d}
  BY <1>7 DEF IInv, TypeOK
<1> QED
  BY <1>3, <1>4, <1>7, <1>8, <1>9, <1>10, <1>11, QuietStep

LEMMA RemoveStep ==
  ASSUME IInv, NEW d \in Compiler, Remove(d)
  PROVE  IInv'
<1>1. PICK f \in run[d].todo : Unlink(d, f, [run[d] EXCEPT !.todo = @ \ {f}])
  BY DEF Remove
<1> DEFINE r == [run[d] EXCEPT !.todo = @ \ {f}]
<1>2. At(d) = "clean" /\ UNCHANGED profile
  BY DEF Remove, Elsewhere
<1>3. f \in Paths
  BY DEF IInv, TypeOK, Run, Paths
<1>4. r \in Run /\ r.at = "clean" /\ r.stage = run[d].stage /\ r.todo = run[d].todo \ {f}
  BY <1>2 DEF IInv, TypeOK, Run, At
<1>5. Unlink(d, f, r)
  BY <1>1
<1> HIDE DEF r
<1>6. run'[d] = r
  BY <1>5, <1>4, StartledRuns DEF Unlink, IInv
<1>7. Coherent(d)'
  <2>1. At(d)' = At(d) /\ run'[d].stage = run[d].stage
    BY <1>2, <1>4, <1>6 DEF At
  <2> QED
    BY <1>2, <2>1 DEF IInv, TypeOK, Coherent, Busy, NativeSteps, BackEndSteps
<1>8. Makes(d) = {}
  BY <1>2, NoNames
<1> QED
  BY <1>2, <1>3, <1>4, <1>5, <1>7, <1>8, UnlinkStep

\* The compiler alone is killed, or nobody is left.
LEMMA KillStep ==
  ASSUME IInv, NEW d \in Compiler, Kill(d)
  PROVE  IInv'
<1>1. CASE /\ At(d) \in Tooling /\ run' = [run EXCEPT ![d].killed = TRUE]
           /\ UNCHANGED <<profile, files, disturbed>>
  <2> DEFINE r == [run[d] EXCEPT !.killed = TRUE]
  <2>1. /\ r \in Run /\ r.at = run[d].at /\ r.text = run[d].text /\ r.stage = run[d].stage
        /\ r.place = run[d].place /\ r.buf = run[d].buf /\ r.todo = run[d].todo
    BY DEF IInv, TypeOK, Run
  <2>2. run' = [run EXCEPT ![d] = r]
    BY <1>1
  <2> HIDE DEF r
  <2>3. run'[d] = r
    BY <2>2 DEF IInv, TypeOK
  <2>4. SameWork(d)
    BY <2>1, <2>3, SameNames
  <2>5. Coherent(d)'
    BY <2>1, <2>3, <2>4 DEF IInv, TypeOK, Coherent, SameWork
  <2>6. d \notin disturbed' => OneRun(d)'
    <3>1. d \notin disturbed' => OneRun(d)
      BY <1>1 DEF IInv
    <3>2. WritesAlone(d) => WritesAlone(d)'
      BY <1>1, <2>1, <2>3, <2>4 DEF SameWork, WritesAlone, Writers
    <3>3. ReadsIntact(d) => ReadsIntact(d)'
      BY <1>1, <2>1, <2>3, <2>4 DEF SameWork, ReadsIntact, Writers
    <3>4. ModulesSound(d) => ModulesSound(d)'
      BY <1>1, <2>1, <2>3, <2>4 DEF SameWork, ModulesSound, Sound, Writers
    <3> QED
      BY <3>1, <3>2, <3>3, <3>4 DEF OneRun
  <2>7. disturbed' \subseteq Compiler /\ disturbed \subseteq disturbed' \cup {d}
    BY <1>1 DEF IInv, TypeOK
  <2>8. Makes(d) \subseteq Makes(d)'
    BY <2>4 DEF SameWork
  <2> QED
    BY <1>1, <2>1, <2>2, <2>5, <2>6, <2>7, <2>8, QuietStep
<1>2. CASE Stop(d, FALSE) /\ Abandon(d) /\ UNCHANGED profile
  BY <1>2, AbandonStep
<1> QED
  BY <1>1, <1>2 DEF Kill, Elsewhere


LEMMA RunIsRun == IInv => \A d \in Compiler : run[d] \in Run
BY DEF IInv, TypeOK

\* The run d at another step, with its text.
LEMMA GoneOnFine ==
  ASSUME TypeOK, NEW d \in Compiler, NEW next \in Busy \cup {"front"},
         run'[d].at = next, run'[d].text = run[d].text, run'[d].stage = run[d].stage,
         At(d) \in Busy \/ next = "front", run[d].stage \in StagesAt(next)
  PROVE  At(d)' = next /\ Coherent(d)'
<1>1. "front" \notin Busy
  BY DEF Busy, NativeSteps, BackEndSteps
<1> QED
  BY <1>1 DEF At, Coherent, TypeOK

\* A step onward that touches no file.
LEMMA GotoStep ==
  ASSUME IInv, NEW d \in Compiler, NEW next \in Busy \cup {"front"}, Goto(d, next),
         UNCHANGED <<profile, files>>, disturbed \subseteq disturbed', disturbed' \subseteq Compiler,
         At(d) \in Busy \/ next = "front", run[d].stage \in StagesAt(next),
         At(d) # "off", At(d) = "clean" => run[d].todo = {},
         Makes(d) = {},
         run'[d].text = run[d].text /\ run'[d].stage = run[d].stage
           /\ run'[d].place = run[d].place /\ At(d)' = next
           => /\ Makes(d)' = {}
              /\ d \notin disturbed' => \A f \in Reads(d)' : Holds(files[f], run[d].text) /\ Writers(f) = {}
  PROVE  IInv'
<1> DEFINE r == [run[d] EXCEPT !.at = next, !.buf = {}]
<1>1. /\ r \in Run /\ r.at = next /\ r.text = run[d].text
      /\ r.stage = run[d].stage /\ r.place = run[d].place
  <2>1. {} \in SUBSET Content
    OBVIOUS
  <2> QED
    BY <2>1, RunIsRun DEF Run, Busy, NativeSteps, BackEndSteps
<1>2. run' = [run EXCEPT ![d] = r]
  BY DEF Goto, IInv, TypeOK, Run
<1> HIDE DEF r
<1>3. run'[d] = r
  BY <1>2 DEF IInv, TypeOK
<1>4. At(d)' = next /\ Coherent(d)'
  BY <1>1, <1>3, GoneOnFine DEF IInv
<1>5. Makes(d)' = {} /\ (d \notin disturbed' =>
        \A f \in Reads(d)' : Holds(files[f], run[d].text) /\ Writers(f) = {})
  BY <1>1, <1>3, <1>4
<1>6. ASSUME d \notin disturbed'
      PROVE  OneRun(d)'
  <2>1. WritesAlone(d)'
    BY <1>5 DEF WritesAlone
  <2>2. ReadsIntact(d)'
    BY <1>1, <1>3, <1>5, <1>6 DEF ReadsIntact, Writers
  <2>3. ModulesSound(d)'
    <3>1. ModulesSound(d)
      BY <1>6 DEF IInv, OneRun
    <3>2. \A t \in Text : Sound(t) => Sound(t)'
      BY DEF Sound, Writers
    <3> QED
      BY <3>1, <3>2, StillSound
  <2> QED
    BY <2>1, <2>2, <2>3 DEF OneRun
<1>7. Makes(d) \subseteq Makes(d)' /\ disturbed \subseteq disturbed' \cup {d}
  OBVIOUS
<1> QED
  BY <1>1, <1>2, <1>4, <1>6, <1>7, QuietStep

LEMMA CleanedStep ==
  ASSUME IInv, NEW d \in Compiler, Cleaned(d)
  PROVE  IInv'
<1>1. /\ At(d) = "clean" /\ run[d].todo = {} /\ Goto(d, "front")
      /\ UNCHANGED <<profile, files, disturbed>>
  BY DEF Cleaned, Elsewhere
<1>2. run[d].stage \in StagesAt("front") /\ disturbed' \subseteq Compiler
  BY <1>1 DEF IInv, TypeOK, Run, StagesAt
<1>3. Makes(d) = {} /\ (At(d)' = "front" => Makes(d)' = {} /\ Reads(d)' = {})
  BY <1>1, NoNames
<1> QED
  BY <1>1, <1>2, <1>3, GotoStep

LEMMA ToolStep ==
  ASSUME IInv, NEW d \in Compiler, NEW here \in Busy, NEW next \in Busy,
         NEW from \in Paths, NEW to \in Paths, Tool(d, here, from, to, next),
         Makes(d) = {}, Reads(d) = {from}, from # to, run[d].stage \in StagesAt(next),
         run'[d].text = run[d].text /\ run'[d].stage = run[d].stage
           /\ run'[d].place = run[d].place /\ At(d)' = next
           => Makes(d)' = {to} /\ Reads(d)' = {from}
  PROVE  IInv'
<1>1. At(d) = here /\ At(d) \notin {"off", "clean"} /\ UNCHANGED profile
  BY DEF Tool, Elsewhere, Busy, NativeSteps, BackEndSteps
<1>2. CASE Stop(d, FALSE) /\ UNCHANGED <<files, disturbed>>
  BY <1>1, <1>2, StopStep
<1>3. CASE /\ files[from].there
           /\ Create(d, to, [run[d] EXCEPT !.at = next, !.buf = MadeOf(from)])
  <2> DEFINE r == [run[d] EXCEPT !.at = next, !.buf = MadeOf(from)]
  <2>1. files[from] \in FileOf
    BY <1>3 DEF Absent, IInv, TypeOK
  <2>2. MadeOf(from) \in SUBSET Content
    BY <2>1 DEF MadeOf, FileOf
  <2>3. /\ r \in Run /\ r.at = next /\ r.text = run[d].text
        /\ r.stage = run[d].stage /\ r.place = run[d].place /\ r.buf = MadeOf(from)
    BY <2>2, RunIsRun DEF Run, Busy, NativeSteps, BackEndSteps
  <2>4. Create(d, to, r)
    BY <1>3
  <2> HIDE DEF r
  <2>5. run'[d] = r
    BY <2>3, <2>4, StartledRuns DEF Create, IInv
  <2>6. At(d)' = next /\ Coherent(d)'
    BY <1>1, <2>3, <2>5, GoneOnFine DEF IInv
  <2>7. Makes(d)' = {to} /\ Reads(d)' = {from}
    BY <2>3, <2>5, <2>6
  <2>8. ASSUME d \notin disturbed
        PROVE  r.buf = {r.text}
    <3>1. Holds(files[from], run[d].text) /\ Writers(from) = {}
      BY <2>8 DEF IInv, OneRun, ReadsIntact
    <3> QED
      BY <2>3, <3>1 DEF MadeOf, Holds
  <2> QED
    BY <1>1, <2>3, <2>4, <2>6, <2>7, <2>8, CreateStep
<1> QED
  BY <1>2, <1>3 DEF Tool

\* The file is finished, and the run goes on to read it or ends with its stage.
LEMMA FinishStep ==
  ASSUME IInv, NEW d \in Compiler, NEW f \in Paths, NEW next \in Busy, NEW ok \in BOOLEAN,
         Close(d, f), Stop(d, ok) \/ Goto(d, next), UNCHANGED <<profile, disturbed>>,
         At(d) \in Busy, Makes(d) = {f}, Goto(d, next) => run[d].stage \in StagesAt(next),
         run'[d].text = run[d].text /\ run'[d].stage = run[d].stage
           /\ run'[d].place = run[d].place /\ At(d)' = next
           => Makes(d)' = {} /\ Reads(d)' = {f}
  PROVE  IInv' /\ (d \notin disturbed => Holds(files'[f], run[d].text))
<1>1. At(d) \notin {"off", "clean"}
  BY DEF Busy, NativeSteps, BackEndSteps
<1>2. CASE Stop(d, ok)
  <2> DEFINE r == Ended(run[d], ok)
  <2>1. r \in Run /\ r.at = "off" /\ r.stage = "dump"
    BY EndedRun DEF IInv
  <2>2. run' = [run EXCEPT ![d] = r]
    BY <1>2 DEF Stop
  <2> HIDE DEF r
  <2>3. run'[d] = r
    BY <2>2 DEF IInv, TypeOK
  <2>4. Coherent(d)' /\ Makes(d)' = {} /\ Reads(d)' = {}
    BY <2>1, <2>3, OffIsFine
  <2> QED
    BY <1>1, <2>1, <2>2, <2>4, CloseStep
<1>3. CASE Goto(d, next)
  <2> DEFINE r == [run[d] EXCEPT !.at = next, !.buf = {}]
  <2>1. /\ r \in Run /\ r.at = next /\ r.text = run[d].text
        /\ r.stage = run[d].stage /\ r.place = run[d].place
    <3>1. {} \in SUBSET Content
      OBVIOUS
    <3> QED
      BY <3>1, RunIsRun DEF Run, Busy, NativeSteps, BackEndSteps
  <2>2. run' = [run EXCEPT ![d] = r]
    BY <1>3 DEF Goto, IInv, TypeOK, Run
  <2> HIDE DEF r
  <2>3. run'[d] = r
    BY <2>2 DEF IInv, TypeOK
  <2>4. At(d)' = next /\ Coherent(d)'
    BY <1>3, <2>1, <2>3, GoneOnFine DEF IInv
  <2>5. Makes(d)' = {} /\ Reads(d)' = {f}
    BY <2>1, <2>3, <2>4
  <2> QED
    BY <1>1, <2>1, <2>2, <2>4, <2>5, CloseStep
<1> QED
  BY <1>2, <1>3

\* With what a run that ends well there leaves, for SuccessIsReal.
LEMMA WrittenStep ==
  ASSUME IInv, NEW d \in Compiler, NEW here \in Busy, NEW f \in Paths, NEW last,
         NEW next \in Busy, Written(d, here, f, last, next), Makes(d) = {f},
         run[d].stage # last => run[d].stage \in StagesAt(next),
         run'[d].text = run[d].text /\ run'[d].stage = run[d].stage
           /\ run'[d].place = run[d].place /\ At(d)' = next
           => Makes(d)' = {} /\ Reads(d)' = {f}
  PROVE  /\ IInv'
         /\ run'[d].at = "off" => run[d].stage = last
         /\ d \notin disturbed => Holds(files'[f], run[d].text)
<1>1. At(d) = here /\ Close(d, f) /\ UNCHANGED <<profile, disturbed>>
  BY DEF Written, Elsewhere
<1>2. Goto(d, next) => run'[d].at # "off"
  BY DEF Goto, IInv, TypeOK, Run, Busy, NativeSteps, BackEndSteps
<1>3. CASE run[d].stage = last
  <2>1. Stop(d, TRUE)
    BY <1>3 DEF Written
  <2>2. ~Goto(d, next)
    BY <1>2, <2>1, EndedRun DEF Stop, IInv, TypeOK
  <2> QED
    BY <1>1, <1>3, <2>1, <2>2, FinishStep
<1>4. CASE run[d].stage # last
  <2>1. Goto(d, next)
    BY <1>4 DEF Written
  <2> QED
    BY <1>1, <1>2, <1>4, <2>1, FinishStep
<1> QED
  BY <1>3, <1>4

LEMMA ToolDoneStep ==
  ASSUME IInv, NEW d \in Compiler, NEW here \in Busy, NEW f \in Paths, NEW last,
         NEW next \in Busy, ToolDone(d, here, f, last, next), Makes(d) = {f},
         run[d].stage # last => run[d].stage \in StagesAt(next),
         run'[d].text = run[d].text /\ run'[d].stage = run[d].stage
           /\ run'[d].place = run[d].place /\ At(d)' = next
           => Makes(d)' = {} /\ Reads(d)' = {f}
  PROVE  /\ IInv'
         /\ run'[d].at = "off" /\ run'[d].ok => run[d].stage = last
         /\ run'[d].at = "off" /\ run'[d].ok /\ d \notin disturbed =>
              Holds(files'[f], run[d].text)
<1>1. At(d) = here /\ UNCHANGED profile
  BY DEF ToolDone, Elsewhere
<1>2. Goto(d, next) => run'[d].at # "off"
  BY DEF Goto, IInv, TypeOK, Run, Busy, NativeSteps, BackEndSteps
<1>3. \A ok \in BOOLEAN : Stop(d, ok) => run'[d] = Ended(run[d], ok) /\ run'[d].at = "off" /\ run'[d].ok = ok
  BY EndedRun DEF Stop, IInv, TypeOK
<1>4. CASE /\ Close(d, f) /\ UNCHANGED disturbed
           /\ IF run[d].killed THEN Stop(d, FALSE)
              ELSE IF run[d].stage = last THEN Stop(d, TRUE) ELSE Goto(d, next)
  <2>1. CASE Stop(d, FALSE)
    <3>1. ~Goto(d, next) /\ ~run'[d].ok
      BY <1>2, <1>3, <2>1
    <3> QED
      BY <1>1, <1>4, <2>1, <3>1, FinishStep
  <2>2. CASE run[d].stage = last /\ Stop(d, TRUE)
    <3>1. ~Goto(d, next)
      BY <1>2, <1>3, <2>2
    <3> QED
      BY <1>1, <1>4, <2>2, <3>1, FinishStep
  <2>3. CASE run[d].stage # last /\ Goto(d, next)
    BY <1>1, <1>2, <1>4, <2>3, FinishStep
  <2> QED
    BY <1>4, <2>1, <2>2, <2>3
<1>5. CASE Unlink(d, f, Ended(run[d], FALSE))
  <2> DEFINE r == Ended(run[d], FALSE)
  <2>1. r \in Run /\ r.at = "off" /\ r.stage = "dump" /\ r.ok = FALSE
    BY EndedRun DEF IInv
  <2>2. Unlink(d, f, r)
    BY <1>5
  <2> HIDE DEF r
  <2>3. run'[d] = r
    BY <2>1, <2>2, StartledRuns DEF Unlink, IInv
  <2>4. Coherent(d)'
    BY <2>1, <2>3, OffIsFine
  <2> QED
    BY <1>1, <2>1, <2>2, <2>3, <2>4, UnlinkStep
<1>6. CASE Stop(d, FALSE) /\ Abandon(d)
  BY <1>1, <1>3, <1>6, AbandonStep
<1> QED
  BY <1>4, <1>5, <1>6 DEF ToolDone


LEMMA FrontEndStep ==
  ASSUME IInv, NEW d \in Compiler, FrontEnd(d)
  PROVE  IInv'
<1>1. At(d) = "front" /\ UNCHANGED profile
  BY DEF FrontEnd, Elsewhere
<1>2. /\ At(d) \notin {"off", "clean"} /\ Makes(d) = {} /\ Reads(d) = {}
      /\ "look" \in Busy /\ "write asm" \in Busy /\ StagesAt("look") = Stages
  BY <1>1, NoNames DEF Busy, NativeSteps, BackEndSteps, StagesAt
<1>3. run[d] \in Run /\ disturbed \subseteq Compiler
  BY DEF IInv, TypeOK
<1>4. CASE Stop(d, FALSE) /\ UNCHANGED <<files, disturbed>>
  BY <1>1, <1>2, <1>4, StopStep
<1>5. CASE Stop(d, TRUE) /\ UNCHANGED <<files, disturbed>>
  BY <1>1, <1>2, <1>5, StopStep
<1>6. CASE /\ \E t \in Text :
                run' = [run EXCEPT ![d].at = "look", ![d].text = t, ![d].modules = @ + 1]
           /\ UNCHANGED <<files, disturbed>>
  <2>1. PICK t \in Text : run' = [run EXCEPT ![d].at = "look", ![d].text = t, ![d].modules = @ + 1]
    BY <1>6
  <2> DEFINE r == [run[d] EXCEPT !.at = "look", !.text = t, !.modules = @ + 1]
  <2>2. r \in Run /\ r.at = "look" /\ r.text = t /\ r.stage \in Stages
    <3>1. run[d].modules \in Nat
      BY <1>3 DEF Run
    <3>2. run[d].modules + 1 \in Nat
      BY <3>1
    <3>3. t \in Content
      BY DEF Content
    <3> QED
      BY <1>3, <3>2, <3>3 DEF Run
  <2>3. run' = [run EXCEPT ![d] = r]
    BY <2>1 DEF IInv, TypeOK, Run
  <2> HIDE DEF r
  <2>4. run'[d] = r
    BY <2>3 DEF IInv, TypeOK
  <2>5. At(d)' = "look" /\ Coherent(d)'
    BY <1>2, <2>2, <2>4 DEF At, Coherent
  <2>6. Makes(d)' = {} /\ Reads(d)' = {}
    BY <2>5, NoNames
  <2>7. ASSUME d \notin disturbed'
        PROVE  OneRun(d)'
    <3>1. ModulesSound(d)
      BY <1>6, <2>7 DEF IInv, OneRun
    <3>2. \A x \in Text : Sound(x) => Sound(x)'
      BY <1>6 DEF Sound, Writers
    <3> QED
      BY <1>2, <2>6, <3>1, <3>2, StillSound DEF OneRun, WritesAlone, ReadsIntact
  <2> QED
    BY <1>1, <1>2, <1>3, <1>6, <2>2, <2>3, <2>5, <2>7, QuietStep
<1>7. CASE /\ run[d].stage # "dump"
           /\ \E t \in Text :
                Create(d, AsmPath(d), [run[d] EXCEPT !.at = "write asm", !.text = t, !.buf = {t}])
  <2>1. PICK t \in Text :
          Create(d, AsmPath(d), [run[d] EXCEPT !.at = "write asm", !.text = t, !.buf = {t}])
    BY <1>7
  <2> DEFINE r == [run[d] EXCEPT !.at = "write asm", !.text = t, !.buf = {t}]
  <2>2. /\ r \in Run /\ r.at = "write asm" /\ r.text = t /\ r.stage = run[d].stage
        /\ r.place = run[d].place /\ r.buf = {t}
    <3>1. t \in Content /\ {t} \in SUBSET Content
      BY DEF Content
    <3> QED
      BY <1>3, <3>1 DEF Run
  <2>3. Create(d, AsmPath(d), r)
    BY <2>1
  <2> HIDE DEF r
  <2>4. run'[d] = r
    BY <2>2, <2>3, StartledRuns DEF Create, IInv
  <2>5. At(d)' = "write asm" /\ AsmPath(d)' = AsmPath(d)
    BY <2>2, <2>4 DEF At, AsmPath
  <2>6. Makes(d)' = {AsmPath(d)} /\ Reads(d)' = {}
    BY <2>5 DEF Makes, Reads
  <2>7. Coherent(d)'
    <3>1. run[d].stage \in StagesAt("write asm")
      BY <1>3, <1>7 DEF Run, Stages, StagesAt
    <3> QED
      BY <2>2, <2>4, <2>5, <3>1 DEF Coherent
  <2>8. AsmPath(d) \in Paths
    BY PathsOf DEF IInv
  <2> QED
    BY <1>1, <1>2, <2>2, <2>3, <2>6, <2>7, <2>8, CreateStep
<1> QED
  BY <1>4, <1>5, <1>6, <1>7 DEF FrontEnd

LEMMA FindStep ==
  ASSUME IInv, NEW d \in Compiler, Find(d)
  PROVE  IInv'
<1> DEFINE so == Native(d, "so")
<1>1. At(d) = "look" /\ UNCHANGED profile /\ Makes(d) = {} /\ Reads(d) = {}
  BY NoNames DEF Find, Elsewhere
<1>2. /\ "look" \in Busy /\ "open" \in Busy /\ "write s" \in Busy
      /\ StagesAt("open") = Stages /\ StagesAt("write s") = Stages
  BY DEF Busy, NativeSteps, StagesAt
<1>3. /\ run[d] \in Run /\ run[d].text \in Text /\ disturbed \subseteq Compiler
      /\ run[d].stage \in Stages
  BY <1>1, <1>2 DEF IInv, TypeOK, Coherent, Run
<1>4. so \in Paths /\ Native(d, "s") \in Paths
  BY <1>1, <1>2, PathsOf DEF IInv
<1>5. CASE files[so].there
  <2>1. /\ Goto(d, "open") /\ UNCHANGED files
        /\ disturbed' = disturbed \cup {e \in {d} : files[so].open # {} \/ files[so].odd}
    BY <1>5 DEF Find
  <2>2. disturbed \subseteq disturbed' /\ disturbed' \subseteq Compiler
    BY <1>3, <2>1
  <2>3. ASSUME d \notin disturbed'
        PROVE  Holds(files[so], run[d].text) /\ Writers(so) = {}
    <3>1. d \notin disturbed /\ files[so].open = {} /\ ~files[so].odd
      BY <2>1, <2>3
    <3>2. Sound(run[d].text)
      BY <1>1, <1>3, <3>1 DEF IInv, OneRun, ModulesSound
    <3> QED
      BY <1>5, <3>1, <3>2 DEF Sound, Native, Writers
  <2>4. run'[d].text = run[d].text /\ run'[d].stage = run[d].stage
          /\ run'[d].place = run[d].place /\ At(d)' = "open"
          => Makes(d)' = {} /\ Reads(d)' = {so}
    BY NamesNext
  <2> HIDE DEF so
  <2> QED
    BY <1>1, <1>2, <1>3, <2>1, <2>2, <2>3, <2>4, GotoStep
<1>6. CASE ~files[so].there
  <2> DEFINE r == [run[d] EXCEPT !.at = "write s", !.buf = {run[d].text}]
  <2>1. Create(d, Native(d, "s"), r)
    BY <1>6 DEF Find
  <2>2. /\ r \in Run /\ r.at = "write s" /\ r.text = run[d].text /\ r.stage = run[d].stage
        /\ r.place = run[d].place /\ r.buf = {run[d].text}
    <3>1. {run[d].text} \in SUBSET Content
      BY <1>3 DEF Content
    <3> QED
      BY <1>3, <3>1 DEF Run
  <2> HIDE DEF r
  <2>3. run'[d] = r
    BY <2>1, <2>2, StartledRuns DEF Create, IInv
  <2>4. At(d)' = "write s" /\ Coherent(d)'
    BY <1>1, <1>2, <1>3, <2>2, <2>3, GoneOnFine DEF IInv
  <2>5. Makes(d)' = {Native(d, "s")} /\ Reads(d)' = {}
    BY <2>2, <2>3, <2>4, NamesNext
  <2> QED
    BY <1>1, <1>4, <2>1, <2>2, <2>4, <2>5, CreateStep
<1> QED
  BY <1>5, <1>6

LEMMA DlopenStep ==
  ASSUME IInv, NEW d \in Compiler,
         NEW here \in {"open", "call"}, NEW next \in {"call", "front"}, Dlopen(d, here, next)
  PROVE  IInv'
<1>1. At(d) = here /\ UNCHANGED <<profile, files, disturbed>>
  BY DEF Dlopen, Elsewhere
<1>2. Makes(d) = {} /\ Reads(d) = {Native(d, "so")}
  BY <1>1, Names
<1>3. /\ here \in Busy /\ next \in Busy \cup {"front"} /\ StagesAt(next) = Stages
      /\ At(d) \notin {"off", "clean"}
  BY <1>1 DEF Busy, NativeSteps, StagesAt
<1>4. CASE Stop(d, FALSE)
  BY <1>1, <1>2, <1>4, StopStep
<1>5. CASE Goto(d, next)
  <2>1. run[d].stage \in Stages /\ disturbed' \subseteq Compiler
    BY <1>1 DEF IInv, TypeOK, Run
  <2>2. ASSUME run'[d].text = run[d].text, run'[d].stage = run[d].stage,
               run'[d].place = run[d].place, At(d)' = next
        PROVE  Makes(d)' = {} /\ Reads(d)' \subseteq Reads(d)
    <3>1. CASE next = "call"
      BY <1>2, <2>2, <3>1, NamesNext
    <3>2. CASE next = "front"
      BY <2>2, <3>2, NoNames
    <3> QED
      BY <3>1, <3>2
  <2>3. d \notin disturbed' => \A f \in Reads(d) : Holds(files[f], run[d].text) /\ Writers(f) = {}
    BY <1>1 DEF IInv, OneRun, ReadsIntact
  <2> QED
    BY <1>1, <1>2, <1>3, <1>5, <2>1, <2>2, <2>3, GotoStep
<1> QED
  BY <1>4, <1>5 DEF Dlopen

LEMMA RunProgramStep ==
  ASSUME IInv, NEW d \in Compiler, RunProgram(d)
  PROVE  IInv'
<1>1. PICK ok \in BOOLEAN : Stop(d, ok)
  BY DEF RunProgram
<1>2. UNCHANGED <<profile, files, disturbed>> /\ Makes(d) = {}
  BY Names DEF RunProgram, Elsewhere
<1> QED
  BY <1>1, <1>2, StopStep

\* No run ends well by starting a tool.
LEMMA ToolIsNoEnd ==
  ASSUME IInv, NEW d \in Compiler, NEW here, NEW from, NEW to, NEW next \in Busy,
         Tool(d, here, from, to, next)
  PROVE  ~(run'[d].at = "off" /\ run'[d].ok)
<1>1. CASE Create(d, to, [run[d] EXCEPT !.at = next, !.buf = MadeOf(from)])
  <2>1. run'[d] = [run[d] EXCEPT !.at = next, !.buf = MadeOf(from)]
    BY <1>1 DEF Create, Startled
  <2>2. run'[d].at = next
    <3>1. run[d] \in Run
      BY DEF IInv, TypeOK
    <3> QED
      BY <2>1, <3>1 DEF Run
  <2> QED
    BY <2>2 DEF Busy, NativeSteps, BackEndSteps
<1>2. CASE Stop(d, FALSE)
  BY <1>2, EndedRun DEF Stop, IInv, TypeOK
<1> QED
  BY <1>1, <1>2 DEF Tool

\* The steps on the way to a native module; none of them ends a run well.
LEMMA NativeStep ==
  ASSUME IInv, NEW d \in Compiler,
         WriteNative(d) \/ Nasm(d) \/ NasmDone(d) \/ Ld(d) \/ LdDone(d)
  PROVE  IInv' /\ ~(run'[d].at = "off" /\ run'[d].ok)
<1>1. run[d] \in Run /\ run[d].stage \in Stages /\ run[d].stage # ""
  BY DEF IInv, TypeOK, Run, Stages
<1>2. \A at \in {"write s", "nasm", "write o", "ld", "write so", "open"} :
         at \in Busy /\ StagesAt(at) = Stages
  BY DEF StagesAt, Busy, NativeSteps
<1>3. At(d) \in Busy => \A ext \in {"s", "o", "so"} : Native(d, ext) \in Paths
  BY PathsOf DEF IInv
<1>4. Native(d, "s") # Native(d, "o") /\ Native(d, "o") # Native(d, "so")
  BY DEF Native
<1>5. CASE WriteNative(d)
  <2>1. Written(d, "write s", Native(d, "s"), "", "nasm")
    BY <1>5 DEF WriteNative
  <2>2. At(d) = "write s"
    BY <2>1 DEF Written
  <2>3. Makes(d) = {Native(d, "s")} /\ Native(d, "s") \in Paths
    BY <1>2, <1>3, <2>2, Names
  <2>4. run'[d].text = run[d].text /\ run'[d].stage = run[d].stage
          /\ run'[d].place = run[d].place /\ At(d)' = "nasm"
          => Makes(d)' = {} /\ Reads(d)' = {Native(d, "s")}
    BY NamesNext
  <2> QED
    BY <1>1, <1>2, <2>1, <2>3, <2>4, WrittenStep
<1>6. CASE Nasm(d)
  <2>1. Tool(d, "nasm", Native(d, "s"), Native(d, "o"), "write o")
    BY <1>6 DEF Nasm
  <2>2. At(d) = "nasm"
    BY <2>1 DEF Tool
  <2>3. Makes(d) = {} /\ Reads(d) = {Native(d, "s")} /\ Native(d, "s") \in Paths /\ Native(d, "o") \in Paths
    BY <1>2, <1>3, <2>2, Names
  <2>4. run'[d].text = run[d].text /\ run'[d].stage = run[d].stage
          /\ run'[d].place = run[d].place /\ At(d)' = "write o"
          => Makes(d)' = {Native(d, "o")} /\ Reads(d)' = {Native(d, "s")}
    BY NamesNext
  <2> QED
    BY <1>1, <1>2, <1>4, <2>1, <2>3, <2>4, ToolStep, ToolIsNoEnd
<1>7. CASE NasmDone(d)
  <2>1. ToolDone(d, "write o", Native(d, "o"), "", "ld")
    BY <1>7 DEF NasmDone
  <2>2. At(d) = "write o"
    BY <2>1 DEF ToolDone
  <2>3. Makes(d) = {Native(d, "o")} /\ Native(d, "o") \in Paths
    BY <1>2, <1>3, <2>2, Names
  <2>4. run'[d].text = run[d].text /\ run'[d].stage = run[d].stage
          /\ run'[d].place = run[d].place /\ At(d)' = "ld"
          => Makes(d)' = {} /\ Reads(d)' = {Native(d, "o")}
    BY NamesNext
  <2> QED
    BY <1>1, <1>2, <2>1, <2>3, <2>4, ToolDoneStep
<1>8. CASE Ld(d)
  <2>1. Tool(d, "ld", Native(d, "o"), Native(d, "so"), "write so")
    BY <1>8 DEF Ld
  <2>2. At(d) = "ld"
    BY <2>1 DEF Tool
  <2>3. Makes(d) = {} /\ Reads(d) = {Native(d, "o")} /\ Native(d, "o") \in Paths /\ Native(d, "so") \in Paths
    BY <1>2, <1>3, <2>2, Names
  <2>4. run'[d].text = run[d].text /\ run'[d].stage = run[d].stage
          /\ run'[d].place = run[d].place /\ At(d)' = "write so"
          => Makes(d)' = {Native(d, "so")} /\ Reads(d)' = {Native(d, "o")}
    BY NamesNext
  <2> QED
    BY <1>1, <1>2, <1>4, <2>1, <2>3, <2>4, ToolStep, ToolIsNoEnd
<1>9. CASE LdDone(d)
  <2>1. ToolDone(d, "write so", Native(d, "so"), "", "open")
    BY <1>9 DEF LdDone
  <2>2. At(d) = "write so"
    BY <2>1 DEF ToolDone
  <2>3. Makes(d) = {Native(d, "so")} /\ Native(d, "so") \in Paths
    BY <1>2, <1>3, <2>2, Names
  <2>4. run'[d].text = run[d].text /\ run'[d].stage = run[d].stage
          /\ run'[d].place = run[d].place /\ At(d)' = "open"
          => Makes(d)' = {} /\ Reads(d)' = {Native(d, "so")}
    BY NamesNext
  <2> QED
    BY <1>1, <1>2, <2>1, <2>3, <2>4, ToolDoneStep
<1> QED
  BY <1>5, <1>6, <1>7, <1>8, <1>9

\* The back end: a run that ends well has made its output there.
LEMMA BackEndStep ==
  ASSUME IInv, NEW d \in Compiler,
         WriteAsm(d) \/ Assemble(d) \/ Assembled(d) \/ Link(d) \/ Linked(d)
  PROVE  /\ IInv'
         /\ run'[d].at = "off" /\ run'[d].ok /\ d \notin disturbed =>
              Holds(files'[Output(d)], run[d].text)
<1>1. run[d].stage \in StagesAt(At(d)) /\ run[d] \in Run
  BY DEF IInv, TypeOK, Coherent
<1>2. AsmPath(d) \in Paths /\ ObjPath(d) \in Paths /\ ExePath(d) \in Paths
  BY PathsOf DEF IInv
<1>3. AsmPath(d) # ObjPath(d) /\ ObjPath(d) # ExePath(d)
  BY DEF AsmPath, ObjPath, ExePath
<1>4. {"write asm", "assemble", "write obj", "link", "write exe", "run"} \subseteq Busy
  BY DEF Busy, BackEndSteps
<1>5. CASE WriteAsm(d)
  <2>1. Written(d, "write asm", AsmPath(d), "asm", "assemble")
    BY <1>5 DEF WriteAsm
  <2>2. At(d) = "write asm"
    BY <2>1 DEF Written
  <2>3. Makes(d) = {AsmPath(d)}
    BY <2>2, Names
  <2>4. run[d].stage # "asm" => run[d].stage \in StagesAt("assemble")
    BY <1>1, <2>2 DEF StagesAt
  <2>5. run'[d].text = run[d].text /\ run'[d].stage = run[d].stage
          /\ run'[d].place = run[d].place /\ At(d)' = "assemble"
          => Makes(d)' = {} /\ Reads(d)' = {AsmPath(d)}
    BY NamesNext
  <2>6. /\ IInv' /\ (run'[d].at = "off" => run[d].stage = "asm")
        /\ d \notin disturbed => Holds(files'[AsmPath(d)], run[d].text)
    BY <1>2, <1>4, <2>1, <2>3, <2>4, <2>5, WrittenStep
  <2> QED
    BY <2>6 DEF Output
<1>6. CASE Assemble(d)
  <2>1. Tool(d, "assemble", AsmPath(d), ObjPath(d), "write obj")
    BY <1>6 DEF Assemble
  <2>2. At(d) = "assemble"
    BY <2>1 DEF Tool
  <2>3. Makes(d) = {} /\ Reads(d) = {AsmPath(d)} /\ run[d].stage \in StagesAt("write obj")
    BY <1>1, <2>2, Names DEF StagesAt
  <2>4. run'[d].text = run[d].text /\ run'[d].stage = run[d].stage
          /\ run'[d].place = run[d].place /\ At(d)' = "write obj"
          => Makes(d)' = {ObjPath(d)} /\ Reads(d)' = {AsmPath(d)}
    BY NamesNext
  <2>5. IInv'
    BY <1>2, <1>3, <1>4, <2>1, <2>3, <2>4, ToolStep
  <2>6. ~(run'[d].at = "off" /\ run'[d].ok)
    BY <1>4, <2>1, ToolIsNoEnd
  <2> QED
    BY <2>5, <2>6
<1>7. CASE Assembled(d)
  <2>1. ToolDone(d, "write obj", ObjPath(d), "obj", "link")
    BY <1>7 DEF Assembled
  <2>2. At(d) = "write obj"
    BY <2>1 DEF ToolDone
  <2>3. Makes(d) = {ObjPath(d)}
    BY <2>2, Names
  <2>4. run[d].stage # "obj" => run[d].stage \in StagesAt("link")
    BY <1>1, <2>2 DEF StagesAt
  <2>5. run'[d].text = run[d].text /\ run'[d].stage = run[d].stage
          /\ run'[d].place = run[d].place /\ At(d)' = "link"
          => Makes(d)' = {} /\ Reads(d)' = {ObjPath(d)}
    BY NamesNext
  <2>6. /\ IInv' /\ (run'[d].at = "off" /\ run'[d].ok => run[d].stage = "obj")
        /\ run'[d].at = "off" /\ run'[d].ok /\ d \notin disturbed =>
             Holds(files'[ObjPath(d)], run[d].text)
    BY <1>2, <1>4, <2>1, <2>3, <2>4, <2>5, ToolDoneStep
  <2> QED
    BY <2>6 DEF Output
<1>8. CASE Link(d)
  <2>1. Tool(d, "link", ObjPath(d), ExePath(d), "write exe")
    BY <1>8 DEF Link
  <2>2. At(d) = "link"
    BY <2>1 DEF Tool
  <2>3. Makes(d) = {} /\ Reads(d) = {ObjPath(d)} /\ run[d].stage \in StagesAt("write exe")
    BY <1>1, <2>2, Names DEF StagesAt
  <2>4. run'[d].text = run[d].text /\ run'[d].stage = run[d].stage
          /\ run'[d].place = run[d].place /\ At(d)' = "write exe"
          => Makes(d)' = {ExePath(d)} /\ Reads(d)' = {ObjPath(d)}
    BY NamesNext
  <2>5. IInv'
    BY <1>2, <1>3, <1>4, <2>1, <2>3, <2>4, ToolStep
  <2>6. ~(run'[d].at = "off" /\ run'[d].ok)
    BY <1>4, <2>1, ToolIsNoEnd
  <2> QED
    BY <2>5, <2>6
<1>9. CASE Linked(d)
  <2>1. ToolDone(d, "write exe", ExePath(d), "exe", "run")
    BY <1>9 DEF Linked
  <2>2. At(d) = "write exe"
    BY <2>1 DEF ToolDone
  <2>3. Makes(d) = {ExePath(d)}
    BY <2>2, Names
  <2>4. run[d].stage # "exe" => run[d].stage \in StagesAt("run")
    BY <1>1, <2>2 DEF StagesAt
  <2>5. run'[d].text = run[d].text /\ run'[d].stage = run[d].stage
          /\ run'[d].place = run[d].place /\ At(d)' = "run"
          => Makes(d)' = {} /\ Reads(d)' = {ExePath(d)}
    BY NamesNext
  <2>6. /\ IInv' /\ (run'[d].at = "off" /\ run'[d].ok => run[d].stage = "exe")
        /\ run'[d].at = "off" /\ run'[d].ok /\ d \notin disturbed =>
             Holds(files'[ExePath(d)], run[d].text)
    BY <1>2, <1>4, <2>1, <2>3, <2>4, <2>5, ToolDoneStep
  <2> QED
    BY <2>6 DEF Output
<1> QED
  BY <1>5, <1>6, <1>7, <1>8, <1>9


-----------------------------------------------------------------------------
(* The theorems. *)

LEMMA InitIInv == Init => IInv
<1> SUFFICES ASSUME Init PROVE IInv
  OBVIOUS
<1>1. PICK place \in profile.places :
        run = [c \in Compiler |-> [Begun("dump", place) EXCEPT !.at = "off"]]
  BY DEF Init
<1>2. place \in Place
  BY <1>1, ProfilesAssumption DEF Init, Profile
<1>3. \A c \in Compiler : run[c] \in Run /\ At(c) = "off" /\ run[c].stage = "dump"
  BY <1>1, <1>2 DEF At, Begun, Run, Content, Stages
<1>4. \A f \in Paths : files[f] = Absent /\ ~files[f].there
  BY DEF Init, Absent
<1>5. \A c \in Compiler : Coherent(c)
  BY <1>3 DEF Coherent, Busy, NativeSteps, BackEndSteps, StagesAt, Stages
<1>6. TypeOK
  BY <1>1, <1>3, <1>5 DEF Init, TypeOK
<1>7. WritersWrite /\ ClashIsOdd
  BY <1>4 DEF WritersWrite, ClashIsOdd, Writers
<1>8. \A c \in Compiler : OneRun(c)
  BY <1>3, NoNames DEF OneRun, WritesAlone, ReadsIntact, ModulesSound
<1> QED
  BY <1>6, <1>7, <1>8 DEF IInv

LEMMA StepIInv == IInv /\ [Next]_vars => IInv'
<1> SUFFICES ASSUME IInv, [Next]_vars
             PROVE  IInv'
  OBVIOUS
<1>1. ASSUME NEW d \in Compiler, Start(d)
      PROVE  IInv'
  BY <1>1, StartStep
<1>2. ASSUME NEW d \in Compiler, Kill(d)
      PROVE  IInv'
  BY <1>2, KillStep
<1>3. ASSUME NEW d \in Compiler, Work(d)
      PROVE  IInv'
  <2>1. CASE Remove(d)
    BY <2>1, RemoveStep
  <2>2. CASE Cleaned(d)
    BY <2>2, CleanedStep
  <2>3. CASE FrontEnd(d)
    BY <2>3, FrontEndStep
  <2>4. CASE Find(d)
    BY <2>4, FindStep
  <2>5. CASE TryModule(d)
    BY <2>5, DlopenStep DEF TryModule
  <2>6. CASE CallNative(d)
    BY <2>6, DlopenStep DEF CallNative
  <2>7. CASE RunProgram(d)
    BY <2>7, RunProgramStep
  <2>8. CASE WriteNative(d) \/ Nasm(d) \/ NasmDone(d) \/ Ld(d) \/ LdDone(d)
    BY <2>8, NativeStep
  <2> QED
    BY <1>3, <2>1, <2>2, <2>3, <2>4, <2>5, <2>6, <2>7, <2>8, BackEndStep DEF Work
<1>4. CASE UNCHANGED vars
  <2>1. UNCHANGED <<profile, run, files, disturbed>>
    BY <1>4 DEF vars
  <2>2. \A c \in Compiler : SameWork(c)
    BY <2>1, SameNames
  <2>3. \A f \in Paths : Writers(f)' = Writers(f)
    BY <2>1 DEF Writers
  <2>4. TypeOK'
    BY <2>1, <2>2 DEF IInv, TypeOK, Coherent, SameWork
  <2>5. WritersWrite'
    <3> SUFFICES ASSUME NEW f \in Paths, NEW c \in Writers(f)
                 PROVE  f \in Makes(c)'
      BY <2>3 DEF WritersWrite
    <3>1. c \in Compiler /\ f \in Makes(c)
      BY WritersAreRuns DEF IInv, WritersWrite
    <3> QED
      BY <2>2, <3>1 DEF SameWork
  <2>6. ClashIsOdd'
    BY <2>1 DEF IInv, ClashIsOdd
  <2>7. ASSUME NEW c \in Compiler, c \notin disturbed'
        PROVE  OneRun(c)'
    <3>1. OneRun(c)
      BY <2>1, <2>7 DEF IInv
    <3>2. WritesAlone(c)' /\ ReadsIntact(c)'
      BY <2>1, <2>2, <3>1 DEF OneRun, WritesAlone, ReadsIntact, SameWork, Writers
    <3>3. ModulesSound(c)'
      BY <2>1, <2>2, <3>1 DEF OneRun, ModulesSound, Sound, SameWork, Writers
    <3> QED
      BY <3>2, <3>3 DEF OneRun
  <2> QED
    BY <2>4, <2>5, <2>6, <2>7 DEF IInv
<1> QED
  BY <1>1, <1>2, <1>3, <1>4 DEF Next

\* The invariant of the runs of the compiler.
THEOREM Invariance == Spec => []IInv
BY InitIInv, StepIInv, PTL DEF Spec

\* Every file a run is about to read, or its tool is reading, is there, complete
\* and of the run's own text, unless another has meddled with it: no path from
\* what a killed run or the tool it left behind has made into a later run gets
\* past st_clean_comptime_cache and the waiting for every tool in st_compile.
THEOREM InputsAreIntact == Spec => []InputsIntact
<1>1. IInv => InputsIntact
  BY DEF IInv, OneRun, ReadsIntact, InputsIntact
<1> QED
  BY <1>1, Invariance, PTL

LEMMA SuccessStep ==
  ASSUME IInv, [Next]_vars, NEW c \in Compiler, c \notin disturbed, Succeeds(c)
  PROVE  Holds(files'[Output(c)], run[c].text)
<1>1. At(c) \notin {"off", "front"} /\ run'[c].at = "off" /\ run'[c].ok
  BY DEF Succeeds
<1>2. run \in [Compiler -> Run] /\ run[c] \in Run
  BY DEF IInv, TypeOK
<1>3. ASSUME NEW d \in Compiler, d # c, Start(d) \/ Work(d) \/ Kill(d)
      PROVE  FALSE
  <2>1. \/ \E r : run' = [run EXCEPT ![d] = r]
        \/ \E f, r : run' = [Startled(d, f) EXCEPT ![d] = r]
    BY <1>3 DEF Start, Kill, Work, Remove, Cleaned, FrontEnd, Find, WriteNative, Nasm, NasmDone,
           Ld, LdDone, TryModule, CallNative, WriteAsm, Assemble, Assembled, Link, Linked,
           RunProgram, Written, ToolDone, Tool, Dlopen, Create, Unlink, Goto, Stop
  <2>2. CASE \E r : run' = [run EXCEPT ![d] = r]
    BY <1>1, <1>2, <1>3, <2>2 DEF At
  <2>3. CASE \E f, r : run' = [Startled(d, f) EXCEPT ![d] = r]
    <3>1. PICK f, r : run' = [Startled(d, f) EXCEPT ![d] = r]
      BY <2>3
    <3>2. run'[c] = run[c] \/ run'[c] = [run[c] EXCEPT !.buf = Content]
      BY <1>3, <3>1 DEF Startled
    <3>3. run'[c].at = run[c].at
      BY <1>2, <3>2 DEF Run
    <3> QED
      BY <1>1, <3>3 DEF At
  <2> QED
    BY <2>1, <2>2, <2>3
<1>4. \A ok \in BOOLEAN : Stop(c, ok) => ok = TRUE
  BY <1>1, EndedRun DEF Stop, IInv, TypeOK
<1>5. ~Kill(c) /\ ~Start(c)
  <2>1. ~Kill(c)
    <3>1. run' # [run EXCEPT ![c].killed = TRUE]
      <4>1. [run[c] EXCEPT !.killed = TRUE].at = run[c].at
        BY <1>2 DEF Run
      <4> QED
        BY <1>1, <1>2, <4>1 DEF At
    <3> QED
      BY <1>4, <3>1 DEF Kill
  <2> QED
    BY <1>1, <2>1 DEF Start, MayStart
<1>6. \A next \in Busy \cup {"front"} : ~Goto(c, next)
  <2>1. ASSUME NEW next, Goto(c, next)
        PROVE  run'[c].at = next
    <3>1. run'[c] = [run[c] EXCEPT !.at = next, !.buf = {}]
      BY <1>2, <2>1 DEF Goto, Run
    <3> QED
      BY <1>2, <3>1 DEF Run
  <2> QED
    BY <1>1, <2>1 DEF Busy, NativeSteps, BackEndSteps
<1>7. ~Remove(c) /\ ~Cleaned(c) /\ ~FrontEnd(c) /\ ~Find(c) /\ ~TryModule(c) /\ ~CallNative(c)
  <2>1. ~Remove(c)
    <3> SUFFICES ASSUME Remove(c) PROVE FALSE
      OBVIOUS
    <3>1. PICK f : run' = [Startled(c, f) EXCEPT ![c] = [run[c] EXCEPT !.todo = @ \ {f}]]
      BY DEF Remove, Unlink
    <3>2. run'[c] = [run[c] EXCEPT !.todo = @ \ {f}]
      BY <3>1 DEF Startled
    <3>3. run'[c].at = run[c].at
      BY <1>2, <3>2 DEF Run
    <3> QED
      BY <1>1, <3>3 DEF At
  <2>2. ~Find(c)
    <3> SUFFICES ASSUME Find(c) PROVE FALSE
      OBVIOUS
    <3>1. run'[c] = [run[c] EXCEPT !.at = "write s", !.buf = {run[c].text}]
      BY <1>6 DEF Find, Create, Startled, Busy, NativeSteps
    <3>2. run'[c].at = "write s"
      BY <1>2, <3>1 DEF Run
    <3> QED
      BY <1>1, <3>2
  <2>3. ~TryModule(c) /\ ~CallNative(c)
    BY <1>4, <1>6 DEF TryModule, CallNative, Dlopen, Busy, NativeSteps
  <2>4. ~Cleaned(c) /\ ~FrontEnd(c)
    BY <1>1, <1>6 DEF Cleaned, FrontEnd
  <2> QED
    BY <2>1, <2>2, <2>3, <2>4
<1>8. CASE RunProgram(c)
  <2>1. At(c) = "run" /\ UNCHANGED files
    BY <1>8 DEF RunProgram
  <2>2. run[c].stage = "run" /\ Output(c) = ExePath(c)
    BY <2>1 DEF IInv, TypeOK, Coherent, StagesAt, Output
  <2>3. Reads(c) = {ExePath(c)}
    BY <2>1, Names
  <2> QED
    BY <2>1, <2>2, <2>3 DEF IInv, OneRun, ReadsIntact
<1>9. CASE UNCHANGED vars
  BY <1>1, <1>9 DEF vars, At
<1>10. CASE WriteNative(c) \/ Nasm(c) \/ NasmDone(c) \/ Ld(c) \/ LdDone(c)
  BY <1>1, <1>10, NativeStep
<1>11. CASE WriteAsm(c) \/ Assemble(c) \/ Assembled(c) \/ Link(c) \/ Linked(c)
  BY <1>1, <1>11, BackEndStep
<1> QED
  BY <1>3, <1>5, <1>7, <1>8, <1>9, <1>10, <1>11 DEF Next, Work

\* A run that ends well in the back end leaves the file it was asked for,
\* complete and of its own text: st_compile looks at the result of every tool
\* before it goes on, and nobody goes on after a compiler that was killed.
THEOREM SuccessLeavesOutput == Spec => SuccessIsReal
<1>1. IInv /\ [Next]_vars =>
        [\A c \in Compiler \ disturbed : Succeeds(c) => Holds(files'[Output(c)], run[c].text)]_vars
  BY SuccessStep
<1> QED
  BY <1>1, Invariance, PTL DEF Spec, SuccessIsReal
=============================================================================
