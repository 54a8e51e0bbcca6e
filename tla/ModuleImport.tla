---------------------------- MODULE ModuleImport ----------------------------
(***************************************************************************)
(* From the file on the command line to one list of declarations:          *)
(* st_compile loads and parses the root file (ST_load_file, ST_parse) and  *)
(* ST_modules_process visits the modules it imports, each once, depth      *)
(* first, gives their declarations a prefix and rewrites the names that    *)
(* stand for them (st_load.c, st_module.c).                                *)
(*                                                                         *)
(* A file is a sequence of items: a #load of another file, an #import of a *)
(* module under an alias, or a declaration with the names it uses.  A path *)
(* is a directory and a name; the module m of a directory is <<dir, m>>.   *)
(* A use is `name` (via = <<>>) or `via.name`, in an expression, as a type *)
(* or as a generic type with its arguments.                                *)
(*                                                                         *)
(* A name is the sequence of its parts between double underscores: b__x is *)
(* <<"b", "x">>.  A prefix is put in front with a double underscore, so    *)
(* that a symbol is a name as well, and two symbols are the same if they   *)
(* are spelt the same.                                                     *)
(***************************************************************************)
EXTENDS Integers, Sequences, FiniteSets

CONSTANTS
  Families,    \* sets of source trees, whose members are compiled
  Directories  \* where a module is looked for, in order; the root's is one

Name == Seq(STRING) \ {<<>>}
Path == STRING \X Name
Nowhere == <<"", <<>>>>
Uses  == [via : Seq(STRING), name : Name, kind : {"value", "type", "generic"}]
Decls == [kind : {"decl"}, name : Name, pub : BOOLEAN, extern : BOOLEAN, uses : Seq(Uses)]
Items == Decls \union [kind : {"load"}, path : Path]
              \union [kind : {"import"}, of : Name, as : Name]

IsTree(t) ==
  /\ IsFiniteSet(DOMAIN t.file) /\ DOMAIN t.file \subseteq Path \ {Nowhere}
  /\ \A f \in DOMAIN t.file : t.file[f] \in Seq(Items)

ASSUME TreesAreTrees ==
  /\ \A programs \in Families : \A t \in programs : IsTree(t)
  /\ Directories \in Seq(STRING)

VARIABLES
  p,        \* the program: file, a function from paths to items;
            \* garbled and unparsable, sets of paths
  entries,  \* ctx->modules: path -> what is known of the module
  stack,    \* one frame for every file at work, the root's first
  merged,   \* the declarations of the program, rewritten
  errors,   \* diag->n_errors > 0
  verdict   \* "none" until the pass returns "ok" or "failed"

vars == <<p, entries, stack, merged, errors, verdict>>

Root == <<"root", <<"main">>>>
Ambiguous == [by |-> Nowhere, sym |-> <<>>]
Empty == [x \in {} |-> x]
Put(f, k, v) == [x \in DOMAIN f \union {k} |-> IF x = k THEN v ELSE f[x]]
Paths == DOMAIN p.file

-----------------------------------------------------------------------------
(* Loading *)

Opened(path, seen) ==
  [ok |-> path \notin p.garbled, seen |-> seen \union {path}, items |-> <<>>]

\* One item of a file: a file met before adds nothing, and one that cannot be
\* loaded gives up all that is around it.  nested loads a file within this one.
LoadItem(got, item, nested) ==
  IF ~got.ok THEN got
  ELSE IF item.kind # "load" THEN [got EXCEPT !.items = Append(@, item)]
  ELSE IF item.path \in got.seen THEN got
  ELSE IF item.path \notin Paths THEN [got EXCEPT !.ok = FALSE]
  ELSE LET in == nested[item.path][got.seen] IN [in EXCEPT !.items = got.items \o @]

Expanded(path, seen, nested) ==
  LET got[i \in 0..Len(p.file[path])] ==
        IF i = 0 THEN Opened(path, seen) ELSE LoadItem(got[i - 1], p.file[path][i], nested)
  IN  got[Len(p.file[path])]

Failed == [ok |-> FALSE, seen |-> {}, items |-> <<>>]

\* ST_load_expand, for files that load each other n deep at most.  It counts a
\* file as met before it reads it, so that it never goes deeper than the
\* number of files.
Expand[n \in Nat] ==
  [path \in Paths |-> [seen \in SUBSET Paths |->
     IF n = 0 THEN Failed ELSE Expanded(path, seen, Expand[n - 1])]]

\* ST_load_file, with a set of seen files of its own.
Load(path) == IF path \in Paths THEN Expand[Cardinality(Paths)][path][{}] ELSE Failed

Parses(got) == got.seen \intersect p.unparsable = {}

\* ST_mod_resolve: the first directory that has the module.
Resolve(m) ==
  LET has == {i \in DOMAIN Directories : <<Directories[i], m>> \in Paths}
  IN  IF has = {} THEN Nowhere
      ELSE <<Directories[CHOOSE i \in has : \A j \in has : i <= j], m>>

-----------------------------------------------------------------------------
(* Names *)

\* ST_mangle; an extern declaration keeps its name.
Mangled(prefix, d) == IF d.extern THEN d.name ELSE prefix \o d.name

\* As a slip would have it: the import that comes last offers the name.
MergedLast(exposed, exports) ==
  [x \in DOMAIN exposed \union DOMAIN exports |->
     IF x \in DOMAIN exports THEN exports[x] ELSE exposed[x]]

\* ST_mod_merge_exports: a name two modules offer is nobody's, for good.
Merged(exposed, exports) ==
  [x \in DOMAIN exposed \union DOMAIN exports |->
     IF x \notin DOMAIN exports THEN exposed[x]
     ELSE IF x \in DOMAIN exposed /\ exposed[x] # exports[x] THEN Ambiguous
     ELSE exports[x]]

\* A name on its own: this file's, else one an import offers, else as it is.
Bare(frame, x) ==
  IF x \in DOMAIN frame.self THEN frame.self[x]
  ELSE IF x \in DOMAIN frame.exposed /\ frame.exposed[x] # Ambiguous THEN frame.exposed[x].sym
  ELSE x

Exports(frame, alias) == entries[frame.aliases[alias]].exports

\* ST_modrw_tyexpr and ST_modrw_expr report this use.
Refused(frame, u) ==
  /\ u.via # <<>>
  /\ IF u.via \in DOMAIN frame.aliases
     THEN u.name \notin DOMAIN Exports(frame, u.via)
     ELSE u.kind # "value"

\* The name that is looked up: the variable's, if `via.name` is a field of one.
AsWritten(u) == IF u.via = <<>> THEN u.name ELSE u.via

\* The symbol a use is replaced by.  A generic type on its own is left as it is.
Rewritten(frame, u) ==
  IF Refused(frame, u) \/ (u.via = <<>> /\ u.kind = "generic") THEN AsWritten(u)
  ELSE IF u.via = <<>> THEN Bare(frame, u.name)
  ELSE IF u.via \notin DOMAIN frame.aliases THEN Bare(frame, u.via)
  ELSE Exports(frame, u.via)[u.name].sym

\* ST_modrw_decl for the declarations of a file; of, at and decl are for the
\* reader: the file, the place in what was loaded for it, and what is there.
Declarations(frame) ==
  LET sym(d) == IF d.name \in DOMAIN frame.self THEN frame.self[d.name] ELSE d.name
      one(i, d) == [sym |-> sym(d), uses |-> [u \in DOMAIN d.uses |-> Rewritten(frame, d.uses[u])],
                    of |-> frame.path, at |-> i, decl |-> d]
  IN  [n \in DOMAIN frame.decls |-> one(frame.decls[n], frame.items[frame.decls[n]])]

Refusals(frame) ==
  \E n \in DOMAIN frame.decls :
    LET d == frame.items[frame.decls[n]] IN \E i \in DOMAIN d.uses : Refused(frame, d.uses[i])

-----------------------------------------------------------------------------
(* The pass *)

Frame(path, prefix, items) ==
  [path |-> path, prefix |-> prefix, items |-> items, at |-> 1, ok |-> TRUE,
   decls |-> <<>>, self |-> Empty, aliases |-> Empty, exposed |-> Empty]

Init ==
  /\ \E programs \in Families : p \in programs
  /\ entries = Empty /\ stack = <<>> /\ merged = <<>> /\ errors = FALSE /\ verdict = "none"

Top == stack[Len(stack)]
Below == SubSeq(stack, 1, Len(stack) - 1)
AtRoot == Len(stack) = 1
AtItem(kind) == stack # <<>> /\ Top.at <= Len(Top.items) /\ Top.items[Top.at].kind = kind
Item == Top.items[Top.at]
Target == Resolve(Item.of)

\* As a slip would have it: the importer forgets that an import failed.
WithoutBlame(frame) == [frame EXCEPT !.at = @ + 1]

\* The frame after an import that did not work out.
Without(frame) == [frame EXCEPT !.at = @ + 1, !.ok = FALSE]

\* The frame after an import of the module at path, which is done.
With(frame, path, entry) ==
  IF ~entry.ok THEN Without(frame)
  ELSE [frame EXCEPT !.at = @ + 1,
                     !.aliases = Put(@, frame.items[frame.at].as, path),
                     !.exposed = Merged(@, entry.exports)]

Replace(frame) == stack' = [stack EXCEPT ![Len(stack)] = frame]

\* st_compile: the root file, and the pass if it imports anything.
Start ==
  /\ stack = <<>> /\ verdict = "none"
  /\ LET got == Load(Root)
         frame == Frame(Root, <<>>, got.items)
     IN  IF ~got.ok \/ ~Parses(got)
         THEN verdict' = "failed" /\ UNCHANGED <<stack, merged>>
         ELSE IF \A i \in DOMAIN got.items : got.items[i].kind # "import"
         THEN /\ verdict' = "ok" /\ UNCHANGED stack
              /\ merged' = [i \in DOMAIN got.items |->
                   [sym |-> got.items[i].name, of |-> Root, at |-> i, decl |-> got.items[i],
                    uses |-> [j \in DOMAIN got.items[i].uses |-> AsWritten(got.items[i].uses[j])]]]
         ELSE stack' = <<frame>> /\ UNCHANGED <<verdict, merged>>
  /\ UNCHANGED <<p, entries, errors>>

\* An import that cannot be found, or of a module that is at work.
Missing ==
  /\ AtItem("import")
  /\ Target \notin Paths \/ (Target \in DOMAIN entries /\ entries[Target].open)
  /\ errors' = TRUE
  /\ Replace(Without(Top))
  /\ UNCHANGED <<p, entries, merged, verdict>>

\* An import of a module that has been visited.
Again ==
  /\ AtItem("import")
  /\ Target \in DOMAIN entries /\ ~entries[Target].open
  /\ Replace(With(Top, Target, entries[Target]))
  /\ UNCHANGED <<p, entries, merged, errors, verdict>>

\* The entry of a module that has been loaded, or could not be.
Entry(loaded) == [open |-> loaded, ok |-> FALSE, exports |-> Empty]

\* An import of a module not met before (ST_module_load_file).
Visit ==
  /\ AtItem("import")
  /\ Target \in Paths \ DOMAIN entries
  /\ LET got == Load(Target)
         good == got.ok /\ Parses(got)
     IN  /\ entries' = Put(entries, Target, Entry(good))
         /\ errors' = (errors \/ ~got.ok)
         /\ IF good THEN stack' = Append(stack, Frame(Target, Item.of, got.items))
                    ELSE Replace(Without(Top))
  /\ UNCHANGED <<p, merged, verdict>>

\* A declaration: the root's are left as they are.
Declare ==
  /\ AtItem("decl")
  /\ LET sym == Mangled(Top.prefix, Item)
         next == [Top EXCEPT !.at = @ + 1, !.decls = Append(@, Top.at)]
     IN  IF AtRoot
         THEN Replace(next) /\ UNCHANGED entries
         ELSE /\ Replace([next EXCEPT !.self = Put(@, Item.name, sym)])
              /\ entries' = IF Item.pub
                            THEN [entries EXCEPT ![Top.path].exports =
                                    Put(@, Item.name, [by |-> Top.path, sym |-> sym])]
                            ELSE entries
  /\ UNCHANGED <<p, merged, errors, verdict>>

\* As a slip would have it: a file's declarations go in front of those before it.
JoinedInFront(frame) == Declarations(frame) \o merged

Joined(frame) == merged \o Declarations(frame)

\* The end of a file: its declarations are rewritten and join the others, and
\* whoever imported it takes up its import.
Finish ==
  /\ stack # <<>> /\ Top.at > Len(Top.items)
  /\ merged' = Joined(Top)
  /\ errors' = (errors \/ Refusals(Top))
  /\ LET ok == Top.ok /\ ~errors'
         entry == [entries[Top.path] EXCEPT !.open = FALSE, !.ok = ok]
         importer == stack[Len(stack) - 1]
     IN  IF AtRoot
         THEN /\ verdict' = IF ok THEN "ok" ELSE "failed"
              /\ stack' = <<>> /\ UNCHANGED entries
         ELSE /\ entries' = [entries EXCEPT ![Top.path] = entry]
              /\ stack' = [Below EXCEPT ![Len(stack) - 1] = With(importer, Top.path, entry)]
              /\ UNCHANGED verdict
  /\ UNCHANGED p

Done == verdict # "none" /\ UNCHANGED vars

Next == Start \/ Missing \/ Again \/ Visit \/ Declare \/ Finish \/ Done

Spec == Init /\ [][Next]_vars

-----------------------------------------------------------------------------
(* What the pass should do, said of the program alone *)

Has(path, kind) == {i \in {p.file[path][n] : n \in DOMAIN p.file[path]} : i.kind = kind}

\* What can be reached from the files in S along next.
Closed(T, next) == \A x \in T : next[x] \subseteq T
Reach(S, next) ==
  {x \in Paths : \A T \in SUBSET Paths : S \subseteq T /\ Closed(T, next) => x \in T}

\* The files #load brings together, from path on.
Parts(path) ==
  Reach({path}, [f \in Paths |-> {i.path : i \in Has(f, "load")} \intersect Paths])

\* All of its parts can be read and parsed.
Readable(path) ==
  \A f \in Parts(path) :
    /\ f \notin p.garbled \union p.unparsable
    /\ \A i \in Has(f, "load") : i.path \in Paths

All(path, kind) == UNION {Has(f, kind) : f \in Parts(path)}

ImportsOf(path) == {Resolve(i.of) : i \in All(path, "import")}
Beneath(path) ==
  Reach(ImportsOf(path) \ {Nowhere}, [f \in Paths |-> ImportsOf(f) \ {Nowhere}])

Needed == {Root} \union Beneath(Root)

\* The public names of a module, and of those the file at path imports the one
\* an alias stands for: the last it was given to.
Public(path) == {d.name : d \in {i \in All(path, "decl") : i.pub}}
Aliased(path, alias) ==
  LET is == Load(path).items
      given == {i \in DOMAIN is : is[i].kind = "import" /\ is[i].as = alias}
  IN  IF given = {} THEN Nowhere
      ELSE Resolve(is[CHOOSE i \in given : \A j \in given : j <= i].of)

Legitimate(path, u) ==
  \/ u.via = <<>>
  \/ Aliased(path, u.via) = Nowhere /\ u.kind = "value"
  \/ Aliased(path, u.via) # Nowhere /\ u.name \in Public(Aliased(path, u.via))

Sound ==
  /\ Root \in Paths /\ Readable(Root)
  /\ ImportsOf(Root) # {} => \A f \in Needed :
       /\ Readable(f) /\ f \notin Beneath(f)
       /\ Nowhere \notin ImportsOf(f)
       /\ \A d \in All(f, "decl") : \A i \in DOMAIN d.uses : Legitimate(f, d.uses[i])

-----------------------------------------------------------------------------
(* Properties *)

\* The pass accepts just the programs whose modules all can be found, read and
\* parsed, import each other in no circle and use of each other what is public:
\* no failure is lost on the way up, however many files it was met through, and
\* none is left over from a module that two others share.
Verdict == verdict # "none" => (verdict = "ok" <=> Sound)

\* A program that is accepted has every declaration of every module it needs
\* once and in the order of its file, however many imports lead there, and no
\* file before one it imports.
OnceAndInOrder ==
  verdict = "ok" =>
    /\ \A f \in Needed : LET is == Load(f).items IN
         \A i \in DOMAIN is : is[i].kind = "decl" =>
           \E k \in DOMAIN merged : merged[k].of = f /\ merged[k].at = i
    /\ \A k \in DOMAIN merged :
         /\ merged[k].of \in Needed /\ merged[k].decl = Load(merged[k].of).items[merged[k].at]
         /\ \A j \in 1..(k - 1) :
              /\ merged[j].of = merged[k].of => merged[j].at < merged[k].at
              /\ merged[k].of \notin Beneath(merged[j].of)

Offering(path, x) == {f \in ImportsOf(path) : x \in Public(f)}

\* The name to be looked for: the member's, or the one on its own.
Wanted(path, u) == IF Aliased(path, u.via) # Nowhere THEN u.name ELSE AsWritten(u)

\* The files whose declaration of the name the use means: the module's it is
\* asked of, else the file's own, or of the modules it imports itself the one
\* that offers it.
Meant(path, u) ==
  IF Aliased(path, u.via) # Nowhere THEN {Aliased(path, u.via)}
  ELSE IF \E d \in All(path, "decl") : d.name = AsWritten(u) THEN {path}
  ELSE {f \in Offering(path, AsWritten(u)) : Offering(path, AsWritten(u)) = {f}}

\* The root file's declarations are not among the names that come first: one
\* that a single import offers as well hides them.
Hidden(path, u) ==
  /\ path = Root /\ Aliased(path, u.via) = Nowhere
  /\ \E d \in All(Root, "decl") : d.name = AsWritten(u)
  /\ \E f \in Paths : Offering(Root, AsWritten(u)) = {f}

\* A generic type a module declares is renamed, its uses on their own are not:
\* neither the module's nor those of who imports it.
Stranded(path, u) == u.via = <<>> /\ u.kind = "generic" /\ Meant(path, u) \ {Root} # {}

\* A name is declared by a file as an extern or not, but not as both: the
\* semantic analysis refuses the pair as a redefinition.
OneLinkage(path) ==
  \A c, d \in All(path, "decl") : c.name = d.name => c.extern = d.extern

\* In an accepted program a use that means a declaration has been given the
\* symbol of that declaration, and another file's declaration has the same
\* symbol only if one of the two is extern, a name for the whole program, or if
\* it is spelt the same with the end of the module's name elsewhere.  What is
\* meant by no import is left as written.
NamesRight ==
  verdict = "ok" /\ (\A f \in Needed : OneLinkage(f)) =>
    \A k \in DOMAIN merged : \A i \in DOMAIN merged[k].uses :
      LET u == merged[k].decl.uses[i]
          sym == merged[k].uses[i]
          x == Wanted(merged[k].of, u)
          meant == Meant(merged[k].of, u)
          bearers == {j \in DOMAIN merged : merged[j].sym = sym}
      IN  Hidden(merged[k].of, u) \/ Stranded(merged[k].of, u) \/
          IF meant = {} THEN sym = x
          ELSE \E j \in bearers :
                 /\ merged[j].of \in meant /\ merged[j].decl.name = x
                 /\ merged[j].decl.extern \/ \A h \in bearers :
                      \/ merged[h].of \in meant \/ merged[h].decl.extern
                      \/ Len(merged[h].decl.name) # Len(x)
=============================================================================
