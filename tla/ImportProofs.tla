---------------------------- MODULE ImportProofs ----------------------------
(***************************************************************************)
(* Proofs about ModuleImport for every source tree, of any size: what a    *)
(* load gives (LoadTakes), and the three properties of the pass.           *)
(*                                                                         *)
(* The inductive invariant IInv says of each file at work what of its      *)
(* items so far has become of the frame (FrameRight), of the stack that it *)
(* is a path of imports on which no module comes twice (StackRight), of    *)
(* each module that was accepted that all beneath it was (Finished), that  *)
(* a sound program has met with no failure (NoFault), and that the         *)
(* declarations so far are those of the accepted modules, each once, in    *)
(* order and rewritten as it should be (MergedOf).                         *)
(***************************************************************************)
EXTENDS ModuleImport, FiniteSetTheorems, SequenceTheorems, WellFoundedInduction, TLAPS

-----------------------------------------------------------------------------
(* Recursion: what a function defined over an initial segment of the       *)
(* naturals is, for the proofs that need to unfold one.                     *)

\* Every nonempty set of naturals has a least element.
LEMMA LeastOf ==
  ASSUME NEW T, T \subseteq Nat, T # {}
  PROVE  \E m \in T : \A k \in T : m <= k
<1>1. IsWellFoundedOn(OpToRel(<, Nat), Nat)
  BY NatLessThanWellFounded
<1>2. PICK m \in T : \A k \in T : ~ (<<k, m>> \in OpToRel(<, Nat))
  BY <1>1, WFMin
<1>3. \A x, y \in Nat : x < y => <<x, y>> \in OpToRel(<, Nat)
  BY DEF OpToRel
<1>4. \A k \in T : k \in Nat /\ m \in Nat /\ ~ (k < m)
  BY <1>2, <1>3
<1> QED
  BY <1>4

\* Every nonempty set of numbers up to n has a greatest element.
LEMMA GreatestOf ==
  ASSUME NEW n \in Nat, NEW T, T \subseteq 1..n, T # {}
  PROVE  \E m \in T : \A k \in T : k <= m
<1> DEFINE U == {n - k : k \in T}
<1>1. U \subseteq Nat /\ U # {}
  <2>1. \A k \in T : n - k \in Nat
    OBVIOUS
  <2> QED
    BY <2>1
<1>2. PICK u \in U : \A v \in U : u <= v
  BY <1>1, LeastOf
<1>3. PICK m \in T : u = n - m
  OBVIOUS
<1>4. \A k \in T : k \in Int /\ n - k \in U
  OBVIOUS
<1>5. \A k \in T : n - m <= n - k
  BY <1>2, <1>3, <1>4
<1> HIDE DEF U
<1> QED
  BY <1>4, <1>5

Initial(D) == D \subseteq Nat /\ \A n \in D : n # 0 => n - 1 \in D

\* f runs through D: from a, each value the step F of the one before.
Runs(f, D, a, F) == f = [n \in D |-> IF n = 0 THEN a ELSE F[<<n, f[n - 1]>>]]

LEMMA RunsAgree ==
  ASSUME NEW D, NEW E, Initial(D), Initial(E), NEW a, NEW F, NEW g, NEW h,
         Runs(g, D, a, F), Runs(h, E, a, F), NEW m \in D \intersect E
  PROVE  g[m] = h[m]
<1> DEFINE Bad == {n \in D \intersect E : g[n] # h[n]}
<1>1. D \subseteq Nat /\ E \subseteq Nat
  BY DEF Initial
<1>2. SUFFICES ASSUME Bad # {} PROVE FALSE
  OBVIOUS
<1>3. PICK n \in Bad : \A k \in Bad : n <= k
  BY <1>1, <1>2, LeastOf
<1>4. n \in Nat /\ n \in D /\ n \in E
  BY <1>1
<1>5. CASE n = 0
  <2>1. g[n] = a /\ h[n] = a
    BY <1>4, <1>5 DEF Runs
  <2> QED
    BY <2>1
<1>6. CASE n # 0
  <2>1. n - 1 \in D /\ n - 1 \in E /\ n - 1 \in Nat
    BY <1>4, <1>6 DEF Initial
  <2>2. g[n - 1] = h[n - 1]
    BY <2>1, <1>3, <1>4
  <2>3. g[n] = F[<<n, g[n - 1]>>] /\ h[n] = F[<<n, h[n - 1]>>]
    BY <1>4, <1>6 DEF Runs
  <2> QED
    BY <2>2, <2>3
<1> QED
  BY <1>5, <1>6

LEMMA RunUpTo ==
  ASSUME NEW S, NEW a \in S, NEW F \in [Nat \X S -> S], NEW n \in Nat
  PROVE  \E g \in [0..n -> S] : Runs(g, 0..n, a, F)
<1> DEFINE Bad == {k \in Nat : \A g \in [0..k -> S] : ~Runs(g, 0..k, a, F)}
<1>1. SUFFICES ASSUME Bad # {} PROVE FALSE
  OBVIOUS
<1>2. PICK k \in Bad : \A j \in Bad : k <= j
  BY <1>1, LeastOf
<1> HIDE DEF Bad
<1>2a. k \in Nat /\ (\A g \in [0..k -> S] : ~Runs(g, 0..k, a, F))
  BY <1>2 DEF Bad
<1>2b. \A j \in Nat : j < k => \E g \in [0..j -> S] : Runs(g, 0..j, a, F)
  BY <1>2, <1>2a DEF Bad
<1>3. CASE k = 0
  <2>1. [i \in 0..0 |-> a] \in [0..k -> S] /\ Runs([i \in 0..0 |-> a], 0..k, a, F)
    BY <1>3 DEF Runs
  <2> QED
    BY <2>1, <1>2a
<1>4. CASE k # 0
  <2>1. k - 1 \in Nat /\ k - 1 < k /\ k \in Nat
    BY <1>2a, <1>4
  <2>2. PICK g \in [0..(k - 1) -> S] : Runs(g, 0..(k - 1), a, F)
    BY <2>1, <1>2b
  <2> DEFINE h == [i \in 0..k |-> IF i = k THEN F[<<k, g[k - 1]>>] ELSE g[i]]
  <2>3. g[k - 1] \in S /\ F[<<k, g[k - 1]>>] \in S
    BY <2>1
  <2>4. h \in [0..k -> S]
    BY <2>3, <2>1
  <2>5. ASSUME NEW i \in 0..k PROVE h[i] = IF i = 0 THEN a ELSE F[<<i, h[i - 1]>>]
    <3>1. CASE i = k
      <4>1. i - 1 \in 0..k /\ i - 1 # k /\ i # 0
        BY <3>1, <1>4, <2>1
      <4>2. h[i] = F[<<k, g[k - 1]>>] /\ h[i - 1] = g[i - 1]
        BY <4>1, <3>1
      <4> QED
        BY <4>1, <4>2, <3>1
    <3>2. CASE i # k
      <4>1. i \in 0..(k - 1)
        BY <3>2, <2>1
      <4>2. g[i] = IF i = 0 THEN a ELSE F[<<i, g[i - 1]>>]
        BY <4>1, <2>2 DEF Runs
      <4>3. i # 0 => i - 1 \in 0..k /\ i - 1 # k
        BY <4>1, <2>1
      <4> QED
        BY <4>1, <4>2, <4>3, <3>2
    <3> QED
      BY <3>1, <3>2
  <2>6. Runs(h, 0..k, a, F)
    <3> HIDE DEF h
    <3>1. h = [i \in 0..k |-> h[i]]
      BY <2>4
    <3> QED
      BY <2>5, <3>1 DEF Runs
  <2> QED
    BY <2>4, <2>6, <1>2a
<1> QED
  BY <1>3, <1>4

LEMMA RunExists ==
  ASSUME NEW D, Initial(D), NEW S, NEW a \in S, NEW F \in [Nat \X S -> S]
  PROVE  \E g \in [D -> S] : Runs(g, D, a, F)
<1>1. D \subseteq Nat
  BY DEF Initial
<1> DEFINE upTo(n) == CHOOSE g \in [0..n -> S] : Runs(g, 0..n, a, F)
           g == [n \in D |-> upTo(n)[n]]
<1>2. ASSUME NEW n \in Nat PROVE upTo(n) \in [0..n -> S] /\ Runs(upTo(n), 0..n, a, F)
  BY RunUpTo
<1> HIDE DEF upTo, g
<1>3. g \in [D -> S]
  BY <1>1, <1>2 DEF g
<1>4. ASSUME NEW n \in D PROVE g[n] = IF n = 0 THEN a ELSE F[<<n, g[n - 1]>>]
  <2>1. n \in Nat
    BY <1>1
  <2>2. upTo(n)[n] = IF n = 0 THEN a ELSE F[<<n, upTo(n)[n - 1]>>]
    BY <2>1, <1>2 DEF Runs
  <2>2a. g[n] = upTo(n)[n]
    BY DEF g
  <2>3. ASSUME n # 0 PROVE upTo(n)[n - 1] = upTo(n - 1)[n - 1]
    <3>1. n - 1 \in Nat /\ n - 1 \in 0..n /\ n - 1 \in 0..(n - 1)
      BY <2>1, <2>3
    <3>2. Runs(upTo(n), 0..n, a, F) /\ Runs(upTo(n - 1), 0..(n - 1), a, F)
      BY <1>2, <2>1, <3>1
    <3>3. Initial(0..n) /\ Initial(0..(n - 1))
      BY <2>1, <3>1 DEF Initial
    <3>4. n - 1 \in 0..n \intersect 0..(n - 1)
      BY <3>1
    <3>5. ASSUME NEW x, NEW y, Runs(x, 0..n, a, F), Runs(y, 0..(n - 1), a, F)
          PROVE  x[n - 1] = y[n - 1]
      <4> DEFINE U == 0..n
                 V == 0..(n - 1)
      <4>1. Initial(U) /\ Initial(V) /\ n - 1 \in U \intersect V /\ Runs(x, U, a, F) /\ Runs(y, V, a, F)
        BY <3>3, <3>4, <3>5
      <4> HIDE DEF U, V
      <4> QED
        BY <4>1, RunsAgree
    <3> QED
      BY <3>2, <3>5
  <2>4. n # 0 => n - 1 \in D
    BY DEF Initial
  <2>5. n # 0 => g[n - 1] = upTo(n - 1)[n - 1]
    BY <2>4 DEF g
  <2> QED
    BY <2>2, <2>2a, <2>3, <2>5
<1>5. Runs(g, D, a, F)
  <2>1. g = [n \in D |-> g[n]]
    BY <1>3
  <2> QED
    BY <1>4, <2>1 DEF Runs
<1> QED
  BY <1>3, <1>5

-----------------------------------------------------------------------------
(* What can be reached *)

\* The files that can be reached are the least set that has what one starts from
\* and goes on along next: the three facts by which the proofs use it.
LEMMA ReachStarts ==
  ASSUME NEW S, NEW next, NEW x \in S, x \in Paths
  PROVE  x \in Reach(S, next)
  BY DEF Reach

LEMMA ReachGoesOn ==
  ASSUME NEW S, NEW next, NEW x \in Reach(S, next), NEW y \in next[x], y \in Paths
  PROVE  y \in Reach(S, next)
  BY DEF Reach, Closed

LEMMA ReachStays ==
  ASSUME NEW S, NEW next, NEW T \in SUBSET Paths, S \subseteq T, Closed(T, next)
  PROVE  Reach(S, next) \subseteq T
  BY DEF Reach

-----------------------------------------------------------------------------
(* Loading *)

Loads(f) == {i.path : i \in Has(f, "load")}

\* The same three facts, for the files #load brings together.
LEMMA PartsStart ==
  ASSUME NEW f \in Paths
  PROVE  f \in Parts(f) /\ Parts(f) \subseteq Paths
<1>1. f \in Parts(f)
  BY ReachStarts DEF Parts
<1> QED
  BY <1>1 DEF Parts, Reach

LEMMA PartsGoOn ==
  ASSUME NEW f, NEW g \in Parts(f), NEW h \in Loads(g), h \in Paths
  PROVE  h \in Parts(f)
<1> DEFINE next == [x \in Paths |-> {i.path : i \in Has(x, "load")} \intersect Paths]
<1>1. g \in Paths
  BY DEF Parts, Reach
<1>2. h \in next[g]
  BY <1>1 DEF Loads
<1>3. g \in Reach({f}, next)
  BY DEF Parts
<1> HIDE DEF next
<1>4. h \in Reach({f}, next)
  BY <1>2, <1>3, ReachGoesOn
<1> QED
  BY <1>4 DEF Parts, next

LEMMA PartsStay ==
  ASSUME NEW f, NEW T \in SUBSET Paths, f \in T,
         \A g \in T : Loads(g) \intersect Paths \subseteq T
  PROVE  Parts(f) \subseteq T
<1> DEFINE next == [x \in Paths |-> {i.path : i \in Has(x, "load")} \intersect Paths]
<1>1. Closed(T, next)
  BY DEF Closed, Loads
<1> HIDE DEF next
<1>2. Reach({f}, next) \subseteq T
  BY <1>1, ReachStays
<1> QED
  BY <1>2 DEF Parts, next

LEMMA PartsWithin ==
  ASSUME NEW f, NEW g \in Parts(f)
  PROVE  Parts(g) \subseteq Parts(f)
<1>1. Parts(f) \subseteq Paths
  BY DEF Parts, Reach
<1>2. \A h \in Parts(f) : Loads(h) \intersect Paths \subseteq Parts(f)
  BY PartsGoOn
<1> QED
  BY <1>1, <1>2, PartsStay

Among(s) == {s[i] : i \in DOMAIN s}

LEMMA AmongAppended ==
  ASSUME NEW T, NEW s \in Seq(T), NEW x \in T
  PROVE  Append(s, x) \in Seq(T) /\ Among(Append(s, x)) = Among(s) \union {x}
<1> DEFINE t == Append(s, x)
<1>1. DOMAIN t = DOMAIN s \union {Len(s) + 1} /\ t[Len(s) + 1] = x /\ \A i \in DOMAIN s : t[i] = s[i]
  OBVIOUS
<1>2. t \in Seq(T)
  OBVIOUS
<1> HIDE DEF t
<1> QED
  BY <1>1, <1>2 DEF Among, t

LEMMA AmongJoined ==
  ASSUME NEW T, NEW s \in Seq(T), NEW t \in Seq(T)
  PROVE  s \o t \in Seq(T) /\ Among(s \o t) = Among(s) \union Among(t)
<1> DEFINE u == s \o t
<1>1. u \in Seq(T) /\ Len(u) = Len(s) + Len(t)
  OBVIOUS
<1>2. \A i \in DOMAIN s : i \in DOMAIN u /\ u[i] = s[i]
  OBVIOUS
<1>3. \A i \in DOMAIN t : i + Len(s) \in DOMAIN u /\ u[i + Len(s)] = t[i]
  OBVIOUS
<1>4. \A i \in DOMAIN u : i \in DOMAIN s \/ (i - Len(s) \in DOMAIN t /\ u[i] = t[i - Len(s)])
  OBVIOUS
<1> HIDE DEF u
<1>5. Among(u) \subseteq Among(s) \union Among(t)
  BY <1>2, <1>4 DEF Among
<1>6. Among(s) \union Among(t) \subseteq Among(u)
  BY <1>2, <1>3 DEF Among
<1> QED
  BY <1>1, <1>5, <1>6 DEF u

\* What loading a file gives, as far as types go.
Result == [ok : BOOLEAN, seen : SUBSET Paths, items : Seq(Items)]
Nested == [Paths -> [SUBSET Paths -> Result]]

\* One item of a file takes a result to a result.
LEMMA ItemLoaded ==
  ASSUME NEW got \in Result, NEW item \in Items, NEW nested \in Nested
  PROVE  LoadItem(got, item, nested) \in Result
<1>1. CASE got.ok /\ item.kind # "load"
  <2>1. Append(got.items, item) \in Seq(Items)
    BY DEF Result
  <2>2. LoadItem(got, item, nested) = [got EXCEPT !.items = Append(@, item)]
    BY <1>1 DEF LoadItem
  <2> QED
    BY <2>1, <2>2 DEF Result
<1>2. CASE got.ok /\ item.kind = "load" /\ item.path \notin got.seen /\ item.path \in Paths
  <2> DEFINE in == nested[item.path][got.seen]
  <2>1. in \in Result
    BY <1>2 DEF Nested, Result
  <2>2. LoadItem(got, item, nested) = [in EXCEPT !.items = got.items \o @]
    BY <1>2 DEF LoadItem
  <2> HIDE DEF in
  <2>3. got.items \o in.items \in Seq(Items)
    BY <2>1 DEF Result
  <2> QED
    BY <2>1, <2>2, <2>3 DEF Result
<1>3. CASE got.ok /\ item.kind = "load" /\ item.path \notin got.seen /\ item.path \notin Paths
  BY <1>3 DEF LoadItem, Result
<1>4. CASE ~got.ok \/ (got.ok /\ item.kind = "load" /\ item.path \in got.seen)
  BY <1>4 DEF LoadItem
<1> QED
  BY <1>1, <1>2, <1>3, <1>4 DEF Result

\* The steps a file's items are loaded by.
Steps(path, seen, nested, got) ==
  /\ got \in [0..Len(p.file[path]) -> Result]
  /\ got[0] = Opened(path, seen)
  /\ \A i \in 1..Len(p.file[path]) : got[i] = LoadItem(got[i - 1], p.file[path][i], nested)

LEMMA FileIsItems ==
  ASSUME IsTree(p), NEW path \in Paths
  PROVE  /\ p.file[path] \in Seq(Items) /\ Len(p.file[path]) \in Nat
         /\ DOMAIN p.file[path] = 1..Len(p.file[path])
         /\ \A i \in 1..Len(p.file[path]) : p.file[path][i] \in Items
  BY DEF IsTree, Paths

\* The expansion of a file as the sequence of results before each of its items.
LEMMA ExpandedInSteps ==
  ASSUME IsTree(p), NEW path \in Paths, NEW seen \in SUBSET Paths, NEW nested \in Nested
  PROVE  \E got : /\ Steps(path, seen, nested, got)
                  /\ Expanded(path, seen, nested) = got[Len(p.file[path])]
<1> DEFINE file == p.file[path]
           N == Len(file)
           a == Opened(path, seen)
           F == [m \in Nat \X Result |->
                   IF m[1] \in 1..N THEN LoadItem(m[2], file[m[1]], nested) ELSE m[2]]
           body(g) == [i \in 0..N |->
                         IF i = 0 THEN a ELSE LoadItem(g[i - 1], file[i], nested)]
<1>1. N \in Nat /\ \A i \in 1..N : file[i] \in Items
  BY FileIsItems
<1>2. a \in Result
  <2>1. <<>> \in Seq(Items)
    OBVIOUS
  <2> QED
    BY <2>1 DEF Result, Opened
<1>3. F \in [Nat \X Result -> Result]
  <2>1. \A m \in Nat \X Result :
          (IF m[1] \in 1..N THEN LoadItem(m[2], file[m[1]], nested) ELSE m[2]) \in Result
    BY <1>1, ItemLoaded
  <2> QED
    BY <2>1
<1>4. Initial(0..N)
  BY <1>1 DEF Initial
<1>5. PICK g \in [0..N -> Result] : Runs(g, 0..N, a, F)
  <2> DEFINE D == 0..N
  <2> HIDE DEF D, F, a
  <2>1. Initial(D)
    BY <1>4 DEF D
  <2>2. \E g \in [D -> Result] : Runs(g, D, a, F)
    BY <2>1, <1>2, <1>3, RunExists
  <2> QED
    BY <2>2 DEF D
<1>6. g = body(g)
  <2>1. ASSUME NEW i \in 0..N PROVE g[i] = body(g)[i]
    <3>1. g[i] = IF i = 0 THEN a ELSE F[<<i, g[i - 1]>>]
      BY <1>5 DEF Runs
    <3>2. CASE i = 0
      BY <3>1, <3>2
    <3>3. CASE i # 0
      <4>1. i \in 1..N /\ i \in Nat /\ i - 1 \in 0..N
        BY <3>3, <1>1
      <4>2. g[i - 1] \in Result
        BY <4>1
      <4>3. F[<<i, g[i - 1]>>] = LoadItem(g[i - 1], file[i], nested)
        BY <4>1, <4>2
      <4> QED
        BY <3>1, <3>3, <4>3
    <3> QED
      BY <3>2, <3>3
  <2> QED
    BY <2>1
<1> DEFINE c == CHOOSE got : got = body(got)
<1>7. c = body(c)
  BY <1>6
<1>8. Expanded(path, seen, nested) = c[N]
  BY DEF Expanded
<1> HIDE DEF c, F
<1>9. \A i \in 0..N : c[i] = IF i = 0 THEN a ELSE LoadItem(c[i - 1], file[i], nested)
  <2>1. \A i \in 0..N : body(c)[i] = IF i = 0 THEN a ELSE LoadItem(c[i - 1], file[i], nested)
    OBVIOUS
  <2> QED
    BY <1>7, <2>1
<1>10. \A i \in 0..N : c[i] \in Result
  <2> DEFINE Bad == {i \in 0..N : c[i] \notin Result}
  <2>1. SUFFICES ASSUME Bad # {} PROVE FALSE
    OBVIOUS
  <2>2. Bad \subseteq Nat
    BY <1>1
  <2>3. PICK i \in Bad : \A j \in Bad : i <= j
    BY <2>1, <2>2, LeastOf
  <2>4. i \in 0..N /\ c[i] \notin Result /\ \A j \in 0..N : j < i => c[j] \in Result
    BY <2>3, <1>1
  <2> HIDE DEF Bad
  <2>5. i # 0
    BY <2>4, <1>9, <1>2
  <2>6. i \in 1..N /\ i - 1 \in 0..N /\ i - 1 < i
    BY <2>4, <2>5, <1>1
  <2>7. c[i - 1] \in Result /\ file[i] \in Items
    BY <2>4, <2>6, <1>1
  <2>8. c[i] = LoadItem(c[i - 1], file[i], nested)
    BY <2>4, <2>5, <1>9
  <2> HIDE DEF file
  <2> QED
    BY <2>4, <2>7, <2>8, ItemLoaded
<1>11. DOMAIN c = 0..N /\ c \in [0..N -> Result]
  <2>1. DOMAIN body(c) = 0..N /\ body(c) = [i \in 0..N |-> body(c)[i]]
    OBVIOUS
  <2>2. c = [i \in 0..N |-> c[i]]
    BY <1>7, <2>1
  <2> QED
    BY <1>10, <2>2
<1>12. Steps(path, seen, nested, c)
  <2>1. 0 \in 0..N /\ \A i \in 1..N : i \in 0..N /\ i # 0
    BY <1>1
  <2> QED
    BY <1>9, <1>11, <2>1 DEF Steps
<1> QED
  BY <1>8, <1>12

LEMMA ExpandedTyped ==
  ASSUME IsTree(p), NEW path \in Paths, NEW seen \in SUBSET Paths, NEW nested \in Nested
  PROVE  Expanded(path, seen, nested) \in Result
<1>1. PICK got : /\ Steps(path, seen, nested, got)
                 /\ Expanded(path, seen, nested) = got[Len(p.file[path])]
  BY ExpandedInSteps
<1>2. Len(p.file[path]) \in Nat
  BY FileIsItems
<1>3. Len(p.file[path]) \in 0..Len(p.file[path])
  BY <1>2
<1> QED
  BY <1>1, <1>3 DEF Steps

\* Expand unfolds: it is defined by recursion on the depth.
LEMMA ExpandUnfolds ==
  ASSUME IsTree(p)
  PROVE  /\ Expand \in [Nat -> Nested]
         /\ \A n \in Nat : \A path \in Paths : \A seen \in SUBSET Paths :
              n # 0 => Expand[n][path][seen] = Expanded(path, seen, Expand[n - 1])
<1> DEFINE step(g) == [path \in Paths |-> [seen \in SUBSET Paths |-> Expanded(path, seen, g)]]
           a == [path \in Paths |-> [seen \in SUBSET Paths |-> Failed]]
           F == [m \in Nat \X Nested |-> step(m[2])]
           body(f) == [n \in Nat |-> [path \in Paths |-> [seen \in SUBSET Paths |->
                         IF n = 0 THEN Failed ELSE Expanded(path, seen, f[n - 1])]]]
<1>1. ASSUME NEW g \in Nested PROVE step(g) \in Nested
  <2>1. \A path \in Paths : \A seen \in SUBSET Paths : Expanded(path, seen, g) \in Result
    BY ExpandedTyped
  <2> QED
    BY <2>1 DEF Nested
<1>2. a \in Nested
  <2>1. Failed \in Result
    <3>1. <<>> \in Seq(Items)
      OBVIOUS
    <3> QED
      BY <3>1 DEF Result, Failed
  <2> QED
    BY <2>1 DEF Nested
<1>3. F \in [Nat \X Nested -> Nested]
  BY <1>1
<1>4. Initial(Nat)
  BY DEF Initial
<1>5. PICK g \in [Nat -> Nested] : Runs(g, Nat, a, F)
  <2> HIDE DEF a, F
  <2> QED
    BY <1>2, <1>3, <1>4, RunExists
<1>6. g = body(g)
  <2>1. ASSUME NEW n \in Nat PROVE g[n] = body(g)[n]
    <3>1. g[n] = IF n = 0 THEN a ELSE F[<<n, g[n - 1]>>]
      BY <1>5 DEF Runs
    <3>2. CASE n = 0
      BY <3>1, <3>2
    <3>3. CASE n # 0
      <4>1. n - 1 \in Nat
        BY <3>3
      <4>2. g[n - 1] \in Nested
        BY <4>1
      <4>3. F[<<n, g[n - 1]>>] = step(g[n - 1])
        BY <4>2
      <4> QED
        BY <3>1, <3>3, <4>3
    <3> QED
      BY <3>2, <3>3
  <2> QED
    BY <2>1
<1>7. Expand = body(Expand)
  BY <1>6 DEF Expand
<1>8. \A n \in Nat : Expand[n] = IF n = 0 THEN a ELSE step(Expand[n - 1])
  <2>1. \A n \in Nat : body(Expand)[n] = IF n = 0 THEN a ELSE step(Expand[n - 1])
    OBVIOUS
  <2> QED
    BY <1>7, <2>1
<1>9. \A n \in Nat : Expand[n] \in Nested
  <2> DEFINE Bad == {n \in Nat : Expand[n] \notin Nested}
  <2>1. SUFFICES ASSUME Bad # {} PROVE FALSE
    OBVIOUS
  <2>2. PICK n \in Bad : \A j \in Bad : n <= j
    BY <2>1, LeastOf
  <2>3. n \in Nat /\ Expand[n] \notin Nested /\ \A j \in Nat : j < n => Expand[j] \in Nested
    BY <2>2
  <2> HIDE DEF Bad, step, a
  <2>4. n # 0
    BY <2>3, <1>8, <1>2
  <2>5. n - 1 \in Nat /\ n - 1 < n
    BY <2>3, <2>4
  <2>6. Expand[n - 1] \in Nested /\ Expand[n] = step(Expand[n - 1])
    BY <2>3, <2>4, <2>5, <1>8
  <2> QED
    BY <2>3, <2>6, <1>1
<1>10. Expand = [n \in Nat |-> Expand[n]]
  <2>1. body(Expand) = [n \in Nat |-> body(Expand)[n]]
    OBVIOUS
  <2> HIDE DEF body
  <2> QED
    BY <1>7, <2>1
<1>11. ASSUME NEW n \in Nat, NEW path \in Paths, NEW seen \in SUBSET Paths, n # 0
       PROVE  Expand[n][path][seen] = Expanded(path, seen, Expand[n - 1])
  <2>1. Expand[n] = step(Expand[n - 1])
    BY <1>8, <1>11
  <2>2. step(Expand[n - 1])[path] = [s \in SUBSET Paths |-> Expanded(path, s, Expand[n - 1])]
    OBVIOUS
  <2>3. step(Expand[n - 1])[path][seen] = Expanded(path, seen, Expand[n - 1])
    BY <2>2
  <2> QED
    BY <2>1, <2>3
<1> QED
  BY <1>9, <1>10, <1>11

-----------------------------------------------------------------------------
(* What a load gives *)

Others(f) == {p.file[f][n] : n \in {m \in DOMAIN p.file[f] : p.file[f][m].kind # "load"}}

OthersOf(S) == UNION {Others(f) : f \in S}

Broken(f) == f \in p.garbled \/ ~(Loads(f) \subseteq Paths)

\* The files a load has taken in since those in seen.
Taken(path, seen, got) ==
  /\ got \in Result
  /\ seen \union {path} \subseteq got.seen
  /\ got.seen \ seen \subseteq Parts(path)
  /\ got.ok => /\ \A f \in got.seen \ seen : f \notin p.garbled /\ Loads(f) \subseteq got.seen
               /\ Among(got.items) = OthersOf(got.seen \ seen)
  /\ ~got.ok => \E f \in Parts(path) : Broken(f)

\* The same in the middle of a file, before its item number i + 1.
TakenSoFar(path, seen, i, got) ==
  LET file == p.file[path] IN
  /\ got \in Result
  /\ seen \union {path} \subseteq got.seen
  /\ got.seen \ seen \subseteq Parts(path)
  /\ got.ok =>
       /\ path \notin p.garbled
       /\ \A j \in 1..i : file[j].kind = "load" => file[j].path \in got.seen
       /\ \A f \in got.seen \ (seen \union {path}) : f \notin p.garbled /\ Loads(f) \subseteq got.seen
       /\ Among(got.items) = OthersOf(got.seen \ (seen \union {path}))
                             \union {file[j] : j \in {m \in 1..i : file[m].kind # "load"}}
  /\ ~got.ok => \E f \in Parts(path) : Broken(f)

\* What nested gives for the files that are not in seen.
NestedTakes(seen, nested) ==
  \A f \in Paths \ seen : \A s \in SUBSET Paths :
    seen \subseteq s /\ f \notin s => Taken(f, s, nested[f][s])

LEMMA OpenedTaken ==
  ASSUME IsTree(p), NEW path \in Paths, NEW seen \in SUBSET Paths, path \notin seen
  PROVE  TakenSoFar(path, seen, 0, Opened(path, seen))
<1> DEFINE got == Opened(path, seen)
<1>1. <<>> \in Seq(Items) /\ Among(<<>>) = {}
  BY DEF Among
<1>2. got = [ok |-> path \notin p.garbled, seen |-> seen \union {path}, items |-> <<>>]
  BY DEF Opened
<1> HIDE DEF got
<1>3. got \in Result /\ got.seen = seen \union {path} /\ got.items = <<>> /\ got.ok = (path \notin p.garbled)
  BY <1>1, <1>2 DEF Result
<1>4. path \in Parts(path)
  BY PartsStart
<1>5. ~got.ok => Broken(path)
  BY <1>3 DEF Broken
<1>6. got.seen \ (seen \union {path}) = {} /\ OthersOf({}) = {}
  BY <1>3 DEF OthersOf
<1>7. 1..0 = {} /\ {p.file[path][j] : j \in {m \in 1..0 : p.file[path][m].kind # "load"}} = {}
  OBVIOUS
<1>8. Among(got.items) = OthersOf(got.seen \ (seen \union {path}))
                         \union {p.file[path][j] : j \in {m \in 1..0 : p.file[path][m].kind # "load"}}
  BY <1>1, <1>3, <1>6, <1>7
<1>9. TakenSoFar(path, seen, 0, got)
  BY <1>3, <1>4, <1>5, <1>6, <1>7, <1>8 DEF TakenSoFar
<1> QED
  BY <1>9 DEF got

\* One item of a file takes in what it should, if the files within do.
LEMMA ItemTaken ==
  ASSUME IsTree(p), NEW path \in Paths, NEW seen \in SUBSET Paths, path \notin seen,
         NEW nested \in Nested, NestedTakes(seen \union {path}, nested),
         NEW i \in 1..Len(p.file[path]), NEW got, TakenSoFar(path, seen, i - 1, got)
  PROVE  TakenSoFar(path, seen, i, LoadItem(got, p.file[path][i], nested))
<1> DEFINE file == p.file[path]
           item == file[i]
           new == LoadItem(got, item, nested)
<1>1. file \in Seq(Items) /\ item \in Items /\ DOMAIN file = 1..Len(file) /\ Len(file) \in Nat
  BY FileIsItems
<1>2. i \in Nat /\ i - 1 \in Nat /\ 1..i = (1..(i - 1)) \union {i}
  BY <1>1
<1>3. got \in Result
  BY DEF TakenSoFar
<1>4. new \in Result
  BY <1>1, <1>3, ItemLoaded
<1> HIDE DEF file
<1>5. CASE ~got.ok
  <2>1. new = got
    BY <1>5 DEF LoadItem
  <2> QED
    BY <2>1, <1>5 DEF TakenSoFar, file
<1>6. CASE got.ok /\ item.kind # "load"
  <2> DEFINE mine(n) == {file[j] : j \in {m \in 1..n : file[m].kind # "load"}}
  <2>1. new = [got EXCEPT !.items = Append(@, item)]
    BY <1>6 DEF LoadItem
  <2>2. got.items \in Seq(Items)
    BY <1>3 DEF Result
  <2>3. new.ok = got.ok /\ new.seen = got.seen /\ new.items = Append(got.items, item)
    BY <2>1, <1>3 DEF Result
  <2>4. Among(new.items) = Among(got.items) \union {item}
    BY <2>2, <2>3, <1>1, AmongAppended
  <2>5. mine(i) = mine(i - 1) \union {item}
    BY <1>2, <1>6
  <2>6. \A j \in 1..i : file[j].kind = "load" => j \in 1..(i - 1)
    BY <1>2, <1>6
  <2> HIDE DEF item, new, mine
  <2>7. TakenSoFar(path, seen, i, new)
    BY <1>6, <1>4, <2>3, <2>4, <2>5, <2>6 DEF TakenSoFar, file, mine
  <2> QED
    BY <2>7 DEF new, item, file
<1>7. ASSUME got.ok, item.kind = "load" PROVE item.path \in Loads(path)
  BY <1>1, <1>7 DEF Loads, Has, file
<1>8. ASSUME item.kind = "load" PROVE \A n \in {i} : {file[j] : j \in {m \in 1..i : file[m].kind # "load"}}
                                     = {file[j] : j \in {m \in 1..(i - 1) : file[m].kind # "load"}}
  BY <1>2, <1>8
<1>9. CASE got.ok /\ item.kind = "load" /\ item.path \in got.seen
  <2>1. new = got
    BY <1>9 DEF LoadItem
  <2> QED
    BY <2>1, <1>2, <1>8, <1>9 DEF TakenSoFar, file
<1>10. CASE got.ok /\ item.kind = "load" /\ item.path \notin got.seen /\ item.path \notin Paths
  <2>1. new = [got EXCEPT !.ok = FALSE]
    BY <1>10 DEF LoadItem
  <2>2. ~new.ok /\ new.seen = got.seen
    BY <2>1, <1>3 DEF Result
  <2>3. Broken(path)
    BY <1>7, <1>10 DEF Broken
  <2>4. path \in Parts(path)
    BY PartsStart
  <2> HIDE DEF item, new
  <2>5. TakenSoFar(path, seen, i, new)
    BY <1>4, <2>2, <2>3, <2>4 DEF TakenSoFar
  <2> QED
    BY <2>5 DEF new, item, file
<1>11. CASE got.ok /\ item.kind = "load" /\ item.path \notin got.seen /\ item.path \in Paths
  <2> DEFINE in == nested[item.path][got.seen]
  <2>1. new = [in EXCEPT !.items = got.items \o @]
    BY <1>11 DEF LoadItem
  <2>2. seen \union {path} \subseteq got.seen /\ got.seen \in SUBSET Paths
    BY <1>3 DEF TakenSoFar, Result
  <2>3. Taken(item.path, got.seen, in)
    BY <2>2, <1>11 DEF NestedTakes
  <2>4. in \in Result /\ got.items \in Seq(Items) /\ in.items \in Seq(Items)
    BY <2>3, <1>3 DEF Taken, Result
  <2> HIDE DEF in
  <2>5. new.ok = in.ok /\ new.seen = in.seen /\ new.items = got.items \o in.items
    BY <2>1, <2>4 DEF Result
  <2>6. Among(new.items) = Among(got.items) \union Among(in.items)
    BY <2>4, <2>5, AmongJoined
  <2>7. item.path \in Parts(path)
    <3>1. path \in Parts(path)
      BY PartsStart
    <3> QED
      BY <3>1, <1>7, <1>11, PartsGoOn
  <2>8. Parts(item.path) \subseteq Parts(path)
    BY <2>7, PartsWithin
  <2> DEFINE x == item.path
  <2>9. x \in in.seen /\ got.seen \subseteq in.seen /\ in.seen \ got.seen \subseteq Parts(path)
    BY <2>3, <2>8 DEF Taken
  <2>10. /\ got.seen \ seen \subseteq Parts(path)
         /\ path \notin p.garbled
         /\ \A j \in 1..(i - 1) : file[j].kind = "load" => file[j].path \in got.seen
         /\ \A f \in got.seen \ (seen \union {path}) : f \notin p.garbled /\ Loads(f) \subseteq got.seen
         /\ Among(got.items) = OthersOf(got.seen \ (seen \union {path}))
                               \union {file[j] : j \in {m \in 1..(i - 1) : file[m].kind # "load"}}
    BY <1>11 DEF TakenSoFar, file
  <2>11. /\ in.ok => /\ \A f \in in.seen \ got.seen : f \notin p.garbled /\ Loads(f) \subseteq in.seen
                     /\ Among(in.items) = OthersOf(in.seen \ got.seen)
         /\ ~in.ok => \E f \in Parts(path) : Broken(f)
    BY <2>3, <2>8 DEF Taken
  <2>12. \A j \in 1..i : file[j].kind = "load" => file[j].path \in in.seen
    BY <1>2, <2>9, <2>10
  <2>13. in.seen \ (seen \union {path}) = (in.seen \ got.seen) \union (got.seen \ (seen \union {path}))
    BY <2>2, <2>9
  <2>14. in.ok => \A f \in in.seen \ (seen \union {path}) : f \notin p.garbled /\ Loads(f) \subseteq in.seen
    BY <2>9, <2>10, <2>11, <2>13
  <2>15. in.ok => Among(new.items) = OthersOf(in.seen \ (seen \union {path}))
                                     \union {file[j] : j \in {m \in 1..i : file[m].kind # "load"}}
    <3> DEFINE mine(n) == {file[j] : j \in {m \in 1..n : file[m].kind # "load"}}
    <3>1. mine(i) = mine(i - 1)
      BY <1>8, <1>11
    <3>2. OthersOf(in.seen \ (seen \union {path}))
            = OthersOf(in.seen \ got.seen) \union OthersOf(got.seen \ (seen \union {path}))
      BY <2>13 DEF OthersOf
    <3> HIDE DEF mine
    <3>3. SUFFICES ASSUME in.ok
                   PROVE  Among(new.items) = OthersOf(in.seen \ (seen \union {path})) \union mine(i)
      BY DEF mine
    <3>4. Among(got.items) = OthersOf(got.seen \ (seen \union {path})) \union mine(i - 1)
      BY <2>10 DEF mine
    <3> QED
      BY <2>6, <2>11, <3>1, <3>2, <3>3, <3>4
  <2>16. in.seen \ seen \subseteq Parts(path) /\ seen \union {path} \subseteq in.seen
    BY <2>2, <2>9, <2>10
  <2> HIDE DEF item, new, x
  <2>17. TakenSoFar(path, seen, i, new)
    BY <1>4, <2>5, <2>10, <2>11, <2>12, <2>14, <2>15, <2>16 DEF TakenSoFar, file
  <2> QED
    BY <2>17 DEF new, item, file
<1> QED
  BY <1>5, <1>6, <1>9, <1>10, <1>11

LEMMA FileTaken ==
  ASSUME IsTree(p), NEW path \in Paths, NEW seen \in SUBSET Paths, path \notin seen,
         NEW nested \in Nested, NestedTakes(seen \union {path}, nested)
  PROVE  Taken(path, seen, Expanded(path, seen, nested))
<1> DEFINE file == p.file[path]
           N == Len(file)
<1>1. PICK got : Steps(path, seen, nested, got) /\ Expanded(path, seen, nested) = got[N]
  BY ExpandedInSteps
<1>2. N \in Nat /\ DOMAIN file = 1..N
  BY FileIsItems
<1>3. \A i \in 0..N : TakenSoFar(path, seen, i, got[i])
  <2> DEFINE Bad == {i \in 0..N : ~TakenSoFar(path, seen, i, got[i])}
  <2>1. SUFFICES ASSUME Bad # {} PROVE FALSE
    OBVIOUS
  <2>2. Bad \subseteq Nat
    BY <1>2
  <2>3. PICK i \in Bad : \A j \in Bad : i <= j
    BY <2>1, <2>2, LeastOf
  <2>4. /\ i \in 0..N /\ ~TakenSoFar(path, seen, i, got[i])
        /\ \A j \in 0..N : j < i => TakenSoFar(path, seen, j, got[j])
    BY <2>3, <1>2
  <2> HIDE DEF Bad
  <2>5. i # 0
    <3>1. got[0] = Opened(path, seen)
      BY <1>1 DEF Steps
    <3> QED
      BY <3>1, <2>4, OpenedTaken
  <2>6. i \in 1..N /\ i - 1 \in 0..N /\ i - 1 < i
    BY <2>4, <2>5, <1>2
  <2>7. TakenSoFar(path, seen, i - 1, got[i - 1])
    BY <2>4, <2>6
  <2>8. got[i] = LoadItem(got[i - 1], file[i], nested)
    BY <1>1, <2>6 DEF Steps
  <2> QED
    BY <2>4, <2>6, <2>7, <2>8, ItemTaken
<1>4. TakenSoFar(path, seen, N, got[N])
  BY <1>2, <1>3
<1> DEFINE end == got[N]
<1>5. Others(path) = {file[j] : j \in {m \in 1..N : file[m].kind # "load"}}
  BY <1>2 DEF Others
<1>6. (\A j \in 1..N : file[j].kind = "load" => file[j].path \in end.seen) => Loads(path) \subseteq end.seen
  BY <1>2 DEF Loads, Has
<1> HIDE DEF end, file, N
<1>7. end \in Result /\ seen \union {path} \subseteq end.seen /\ end.seen \ seen \subseteq Parts(path)
  BY <1>4 DEF TakenSoFar, end
<1>8. end.seen \ seen = (end.seen \ (seen \union {path})) \union {path}
  BY <1>7
<1>9. OthersOf(end.seen \ seen) = OthersOf(end.seen \ (seen \union {path})) \union Others(path)
  BY <1>8 DEF OthersOf
<1>10. Taken(path, seen, end)
  BY <1>4, <1>5, <1>6, <1>7, <1>8, <1>9 DEF Taken, TakenSoFar, end, file, N
<1> QED
  BY <1>1, <1>10 DEF end

Deep(n, seen) == IsFiniteSet(Paths \ seen) /\ Cardinality(Paths \ seen) <= n

\* A load as deep as there are files not yet met takes in what it should: with
\* each file it goes into there is one less.
LEMMA DeepEnough ==
  ASSUME IsTree(p), NEW n \in Nat, NEW path \in Paths, NEW seen \in SUBSET Paths,
         path \notin seen, Deep(n, seen)
  PROVE  Taken(path, seen, Expand[n][path][seen])
<1> DEFINE Good(k) == \A f \in Paths : \A s \in SUBSET Paths :
                        f \notin s /\ Deep(k, s) => Taken(f, s, Expand[k][f][s])
           Bad == {k \in Nat : ~Good(k)}
<1>1. SUFFICES Bad = {}
  OBVIOUS
<1>2. SUFFICES ASSUME Bad # {} PROVE FALSE
  OBVIOUS
<1>3. PICK k \in Bad : \A j \in Bad : k <= j
  BY <1>2, LeastOf
<1>4. k \in Nat /\ ~Good(k) /\ \A j \in Nat : j < k => Good(j)
  BY <1>3
<1> HIDE DEF Bad
<1>5. PICK f \in Paths, s \in SUBSET Paths : f \notin s /\ Deep(k, s) /\ ~Taken(f, s, Expand[k][f][s])
  BY <1>4
<1>6. f \in Paths \ s /\ IsFiniteSet(Paths \ s) /\ Cardinality(Paths \ s) <= k
  BY <1>5 DEF Deep
<1>7. /\ IsFiniteSet((Paths \ s) \ {f})
      /\ Cardinality((Paths \ s) \ {f}) = Cardinality(Paths \ s) - 1
      /\ Cardinality(Paths \ s) \in Nat
  BY <1>6, FS_RemoveElement, FS_CardinalityType
<1>8. k # 0
  <2>1. Paths \ s # {}
    BY <1>6
  <2>2. Cardinality(Paths \ s) # 0
    BY <2>1, <1>6, FS_EmptySet
  <2> QED
    BY <2>2, <1>6, <1>7
<1>9. k - 1 \in Nat /\ k - 1 < k
  BY <1>4, <1>8
<1>10. Good(k - 1)
  BY <1>4, <1>9
<1>11. NestedTakes(s \union {f}, Expand[k - 1])
  <2> SUFFICES ASSUME NEW g \in Paths \ (s \union {f}), NEW t \in SUBSET Paths,
                      s \union {f} \subseteq t, g \notin t
               PROVE  Taken(g, t, Expand[k - 1][g][t])
    BY DEF NestedTakes
  <2> DEFINE A == (Paths \ s) \ {f}
             B == Paths \ t
  <2>1. B \subseteq A /\ IsFiniteSet(A)
    BY <1>7
  <2> HIDE DEF A, B
  <2>2. IsFiniteSet(B) /\ Cardinality(B) <= Cardinality(A)
    BY <2>1, FS_Subset
  <2>3. Cardinality(B) \in Nat /\ Cardinality(A) <= k - 1
    BY <2>2, <1>6, <1>7, <1>4, FS_CardinalityType DEF A
  <2>4. Cardinality(A) \in Nat
    BY <2>1, FS_CardinalityType
  <2>5. Deep(k - 1, t)
    BY <2>2, <2>3, <2>4, <1>9 DEF Deep, B
  <2> QED
    BY <2>5, <1>10
<1>12. Expand[k - 1] \in Nested /\ Expand[k][f][s] = Expanded(f, s, Expand[k - 1])
  BY <1>4, <1>8, <1>9, ExpandUnfolds
<1> QED
  BY <1>5, <1>11, <1>12, FileTaken

\* What ST_load_file gives: it fails just for a file some part of which cannot
\* be read, and otherwise has all that its parts hold.
THEOREM LoadTakes ==
  ASSUME IsTree(p), NEW path \in Paths
  PROVE  /\ Load(path) \in Result
         /\ Load(path).ok <=> \A f \in Parts(path) : ~Broken(f)
         /\ Load(path).ok => /\ Load(path).seen = Parts(path)
                             /\ Among(Load(path).items) = OthersOf(Parts(path))
<1> DEFINE got == Load(path)
<1>1. IsFiniteSet(Paths)
  BY DEF IsTree, Paths
<1>2. Cardinality(Paths) \in Nat
  BY <1>1, FS_CardinalityType
<1>3. Deep(Cardinality(Paths), {})
  <2>1. Paths \ {} = Paths
    OBVIOUS
  <2> QED
    BY <2>1, <1>1, <1>2 DEF Deep
<1>4. got = Expand[Cardinality(Paths)][path][{}]
  BY DEF Load
<1> HIDE DEF got
<1>5. Taken(path, {}, got)
  <2>1. {} \in SUBSET Paths /\ path \notin {}
    OBVIOUS
  <2> QED
    BY <2>1, <1>2, <1>3, <1>4, DeepEnough
<1>6. got.seen \ {} = got.seen /\ {} \union {path} = {path}
  OBVIOUS
<1>7. got \in Result /\ got.seen \in SUBSET Paths /\ path \in got.seen /\ got.seen \subseteq Parts(path)
  BY <1>5, <1>6 DEF Taken, Result
<1>8. ASSUME got.ok
      PROVE  /\ got.seen = Parts(path) /\ Among(got.items) = OthersOf(Parts(path))
             /\ \A f \in Parts(path) : ~Broken(f)
  <2>1. /\ \A f \in got.seen : f \notin p.garbled /\ Loads(f) \subseteq got.seen
        /\ Among(got.items) = OthersOf(got.seen)
    BY <1>5, <1>6, <1>8 DEF Taken
  <2>2. Parts(path) \subseteq got.seen
    BY <1>7, <2>1, PartsStay
  <2>3. got.seen = Parts(path)
    BY <1>7, <2>2
  <2> QED
    BY <1>7, <2>1, <2>3 DEF Broken
<1>9. ASSUME ~got.ok PROVE \E f \in Parts(path) : Broken(f)
  BY <1>5, <1>9 DEF Taken
<1> QED
  BY <1>7, <1>8, <1>9 DEF got

\* ST_load_file and ST_parse both succeed for just the files that are readable.
LEMMA GoodIsReadable ==
  ASSUME IsTree(p), NEW path \in Paths
  PROVE  Load(path).ok /\ Parses(Load(path)) <=> Readable(path)
<1>1. \A f \in Parts(path) : Broken(f) <=> f \in p.garbled \/ \E i \in Has(f, "load") : i.path \notin Paths
  BY DEF Broken, Loads
<1>2. /\ Load(path).ok <=> \A f \in Parts(path) : ~Broken(f)
      /\ Load(path).ok => Load(path).seen = Parts(path)
  BY LoadTakes
<1>3. Load(path).ok => (Parses(Load(path)) <=> \A f \in Parts(path) : f \notin p.unparsable)
  BY <1>2 DEF Parses
<1> QED
  BY <1>1, <1>2, <1>3 DEF Readable

\* What was loaded for a readable file is its imports and declarations.
LEMMA ItemsOfReadable ==
  ASSUME IsTree(p), NEW path \in Paths, Readable(path)
  PROVE  /\ Load(path).items \in Seq(Items)
         /\ \A i \in DOMAIN Load(path).items : Load(path).items[i].kind \in {"decl", "import"}
         /\ \A kind \in {"decl", "import"} :
              All(path, kind) = {i \in Among(Load(path).items) : i.kind = kind}
<1> DEFINE is == Load(path).items
<1>1. Load(path).ok
  BY GoodIsReadable
<1>2. is \in Seq(Items) /\ Among(is) = OthersOf(Parts(path))
  BY <1>1, LoadTakes DEF Result
<1> HIDE DEF is
<1>3. Parts(path) \subseteq Paths
  BY PartsStart
<1>4. \A f \in Parts(path) : p.file[f] \in Seq(Items)
  BY <1>3 DEF IsTree, Paths
<1>5. \A i \in DOMAIN is : is[i] \in Items /\ is[i].kind # "load"
  <2> SUFFICES ASSUME NEW i \in DOMAIN is PROVE is[i] \in Items /\ is[i].kind # "load"
    OBVIOUS
  <2>1. is[i] \in Items
    BY <1>2
  <2>2. is[i] \in OthersOf(Parts(path))
    BY <1>2 DEF Among
  <2> QED
    BY <2>1, <2>2 DEF OthersOf, Others
<1>6. \A i \in DOMAIN is : is[i].kind \in {"decl", "import"}
  BY <1>5 DEF Items, Decls
<1>7. ASSUME NEW kind \in {"decl", "import"} PROVE All(path, kind) = {i \in Among(is) : i.kind = kind}
  <2>1. \A f \in Parts(path) : Has(f, kind) = {i \in Others(f) : i.kind = kind}
    BY DEF Has, Others
  <2>2. All(path, kind) = {i \in OthersOf(Parts(path)) : i.kind = kind}
    BY <2>1 DEF All, OthersOf
  <2> QED
    BY <2>2, <1>2
<1> QED
  BY <1>2, <1>6, <1>7 DEF is
Is(f) == Load(f).items
ImportAt(f, i) == i \in DOMAIN Is(f) /\ Is(f)[i].kind = "import"
DeclAt(f, i) == i \in DOMAIN Is(f) /\ Is(f)[i].kind = "decl"

\* What the items of f before number n are: its imports, the modules they name,
\* the imports under the alias x, the declarations, and those of the name x.
ImportsTo(f, n) == {i \in DOMAIN Is(f) : i < n /\ Is(f)[i].kind = "import"}
Imported(f, n) == {Resolve(Is(f)[i].of) : i \in ImportsTo(f, n)}
Given(f, x, n) == {i \in ImportsTo(f, n) : Is(f)[i].as = x}
DeclsTo(f, n) == {i \in DOMAIN Is(f) : i < n /\ Is(f)[i].kind = "decl"}
Named(f, x, n) == {i \in DeclsTo(f, n) : Is(f)[i].name = x}
End(f) == Len(Is(f)) + 1

-----------------------------------------------------------------------------
(* Modules and what is beneath them *)

\* No file is at the path that stands for none.
LEMMA PathsAreSomewhere ==
  ASSUME IsTree(p)
  PROVE  Nowhere \notin Paths /\ IsFiniteSet(Paths)
  BY DEF IsTree, Paths

\* A module is found at a path that ends in its name, or nowhere.
LEMMA ResolveFacts ==
  ASSUME IsTree(p), NEW m
  PROVE  /\ Resolve(m) \in Paths \union {Nowhere}
         /\ Resolve(m) # Nowhere => Resolve(m)[2] = m
<1> DEFINE has == {i \in DOMAIN Directories : <<Directories[i], m>> \in Paths}
           c == CHOOSE i \in has : \A j \in has : i <= j
<1>1. CASE has = {}
  BY <1>1 DEF Resolve
<1>2. CASE has # {}
  <2>1. has \subseteq Nat
    BY TreesAreTrees
  <2>2. c \in has
    <3> HIDE DEF has
    <3> QED
      BY <1>2, <2>1, LeastOf
  <2>3. Resolve(m) = <<Directories[c], m>>
    BY <1>2 DEF Resolve
  <2> QED
    BY <2>2, <2>3
<1> QED
  BY <1>1, <1>2

\* The imports and declarations of a readable file are those in what was loaded.
LEMMA ImportsRead ==
  ASSUME IsTree(p), NEW f \in Paths, Readable(f)
  PROVE  /\ Is(f) \in Seq(Items) /\ Len(Is(f)) \in Nat /\ DOMAIN Is(f) = 1..Len(Is(f))
         /\ \A i \in DOMAIN Is(f) : Is(f)[i].kind \in {"decl", "import"}
         /\ ImportsOf(f) = Imported(f, End(f))
         /\ All(f, "decl") = {Is(f)[i] : i \in DeclsTo(f, End(f))}
<1>1. /\ Is(f) \in Seq(Items)
      /\ \A i \in DOMAIN Is(f) : Is(f)[i].kind \in {"decl", "import"}
      /\ All(f, "import") = {i \in Among(Is(f)) : i.kind = "import"}
      /\ All(f, "decl") = {i \in Among(Is(f)) : i.kind = "decl"}
  BY ItemsOfReadable DEF Is
<1>2. Len(Is(f)) \in Nat /\ DOMAIN Is(f) = 1..Len(Is(f))
  BY <1>1
<1>3. \A i \in DOMAIN Is(f) : i < End(f)
  BY <1>2 DEF End
<1>4. ImportsOf(f) = Imported(f, End(f))
  BY <1>1, <1>3 DEF ImportsOf, Imported, ImportsTo, Among
<1>5. All(f, "decl") = {Is(f)[i] : i \in DeclsTo(f, End(f))}
  BY <1>1, <1>3 DEF DeclsTo, Among
<1> QED
  BY <1>1, <1>2, <1>4, <1>5

LEMMA ImportsInPaths ==
  ASSUME IsTree(p), NEW f
  PROVE  ImportsOf(f) \ {Nowhere} \subseteq Paths
  BY ResolveFacts DEF ImportsOf

\* The facts about reaching again, for the modules beneath a file.
LEMMA BeneathInPaths ==
  ASSUME NEW f
  PROVE  Beneath(f) \subseteq Paths
  BY DEF Beneath, Reach

LEMMA BeneathStarts ==
  ASSUME IsTree(p), NEW f, NEW g \in ImportsOf(f), g # Nowhere
  PROVE  g \in Beneath(f)
<1>1. g \in Paths
  BY ImportsInPaths
<1> QED
  BY <1>1, ReachStarts DEF Beneath

LEMMA BeneathGoesOn ==
  ASSUME IsTree(p), NEW f, NEW g \in Beneath(f), NEW h \in ImportsOf(g), h # Nowhere
  PROVE  h \in Beneath(f)
<1> DEFINE next == [x \in Paths |-> ImportsOf(x) \ {Nowhere}]
           S == ImportsOf(f) \ {Nowhere}
<1>1. g \in Paths /\ h \in Paths
  BY ImportsInPaths, BeneathInPaths
<1>2. h \in next[g]
  BY <1>1
<1>3. g \in Reach(S, next)
  BY DEF Beneath
<1> HIDE DEF next, S
<1>4. h \in Reach(S, next)
  BY <1>1, <1>2, <1>3, ReachGoesOn
<1> QED
  BY <1>4 DEF Beneath, next, S

LEMMA BeneathStays ==
  ASSUME NEW f, NEW T \in SUBSET Paths, ImportsOf(f) \ {Nowhere} \subseteq T,
         \A g \in T : ImportsOf(g) \ {Nowhere} \subseteq T
  PROVE  Beneath(f) \subseteq T
<1> DEFINE next == [x \in Paths |-> ImportsOf(x) \ {Nowhere}]
           S == ImportsOf(f) \ {Nowhere}
<1>1. Closed(T, next) /\ S \subseteq T
  BY DEF Closed
<1> HIDE DEF next, S
<1>2. Reach(S, next) \subseteq T
  BY <1>1, ReachStays
<1> QED
  BY <1>2 DEF Beneath, next, S

LEMMA BeneathWithin ==
  ASSUME IsTree(p), NEW f, NEW g \in Beneath(f)
  PROVE  Beneath(g) \subseteq Beneath(f)
<1>1. ImportsOf(g) \ {Nowhere} \subseteq Beneath(f)
  BY BeneathGoesOn
<1>2. \A h \in Beneath(f) : ImportsOf(h) \ {Nowhere} \subseteq Beneath(f)
  BY BeneathGoesOn
<1> QED
  BY <1>1, <1>2, BeneathInPaths, BeneathStays

\* The module an alias of f stands for is that of the last import under it.
LEMMA AliasedIs ==
  ASSUME IsTree(p), NEW f \in Paths, Readable(f), NEW x
  PROVE  /\ Given(f, x, End(f)) = {} => Aliased(f, x) = Nowhere
         /\ \A i \in Given(f, x, End(f)) :
              (\A j \in Given(f, x, End(f)) : j <= i) => Aliased(f, x) = Resolve(Is(f)[i].of)
<1> DEFINE given == {i \in DOMAIN Is(f) : Is(f)[i].kind = "import" /\ Is(f)[i].as = x}
           c == CHOOSE i \in given : \A j \in given : j <= i
<1>1. Len(Is(f)) \in Nat /\ DOMAIN Is(f) = 1..Len(Is(f))
  BY ImportsRead
<1>2. given = Given(f, x, End(f)) /\ given \subseteq Nat
  <2>1. \A i \in DOMAIN Is(f) : i < End(f) /\ i \in Nat
    BY <1>1 DEF End
  <2> QED
    BY <2>1 DEF Given, ImportsTo
<1>3. Aliased(f, x) = IF given = {} THEN Nowhere ELSE Resolve(Is(f)[c].of)
  BY DEF Aliased, Is
<1> HIDE DEF given
<1>4. ASSUME NEW i \in given, \A j \in given : j <= i
      PROVE  c = i
  <2>1. c \in given /\ \A j \in given : j <= c
    BY <1>4
  <2>2. c <= i /\ i <= c /\ c \in Nat /\ i \in Nat
    BY <2>1, <1>4, <1>2
  <2> QED
    BY <2>2
<1> QED
  BY <1>2, <1>3, <1>4

-----------------------------------------------------------------------------
(* What holds of a file at work and of the entries *)

ClosedOk(E) == {f \in DOMAIN E : ~E[f].open /\ E[f].ok}

\* The symbols a declaration of x in the module f may be given: one, if the
\* declarations of that name agree on extern.
Symbols(f, x) == {Mangled(f[2], Is(f)[i]) : i \in Named(f, x, End(f))}

PublicTo(f, n) == {i \in DeclsTo(f, n) : Is(f)[i].pub}

ExportsTo(e, f, n) ==
  /\ DOMAIN e = {Is(f)[i].name : i \in PublicTo(f, n)}
  /\ \A x \in DOMAIN e : \E s \in Symbols(f, x) : e[x] = [by |-> f, sym |-> s]

SelfTo(self, f, n) ==
  /\ DOMAIN self = {Is(f)[i].name : i \in DeclsTo(f, n)}
  /\ \A x \in DOMAIN self : self[x] \in Symbols(f, x)

IsFrame(fr) ==
  fr = [path |-> fr.path, prefix |-> fr.prefix, items |-> fr.items, at |-> fr.at, ok |-> fr.ok,
        decls |-> fr.decls, self |-> fr.self, aliases |-> fr.aliases, exposed |-> fr.exposed]

IsEntry(e) == e = [open |-> e.open, ok |-> e.ok, exports |-> e.exports] /\ e.open \in BOOLEAN /\ e.ok \in BOOLEAN

Placed(fr) ==
  /\ IsFrame(fr)
  /\ fr.path \in Paths /\ Readable(fr.path) /\ fr.items = Is(fr.path)
  /\ fr.at \in 1..End(fr.path) /\ fr.ok \in BOOLEAN

\* decls are the places of the declarations so far, in order.
Declared(fr) ==
  /\ fr.decls \in Seq(Nat)
  /\ \A n \in DOMAIN fr.decls : fr.decls[n] \in DeclsTo(fr.path, fr.at)
  /\ \A i \in DeclsTo(fr.path, fr.at) : \E n \in DOMAIN fr.decls : fr.decls[n] = i
  /\ \A m, n \in DOMAIN fr.decls : m < n => fr.decls[m] < fr.decls[n]

AliasesTo(aliases, f, n) ==
  /\ DOMAIN aliases = {Is(f)[i].as : i \in ImportsTo(f, n)}
  /\ \A x \in DOMAIN aliases : \E i \in Given(f, x, n) :
       /\ \A j \in Given(f, x, n) : j <= i
       /\ aliases[x] = Resolve(Is(f)[i].of)

\* Those of the modules in S that offer x.
Offer(S, x, E) == {g \in S : x \in DOMAIN E[g].exports}

ExposedOf(exposed, S, E) ==
  /\ DOMAIN exposed = UNION {DOMAIN E[g].exports : g \in S}
  /\ \A x \in DOMAIN exposed :
       \/ exposed[x] = Ambiguous /\ \E g, h \in Offer(S, x, E) : g # h
       \/ /\ exposed[x] # Ambiguous
          /\ \E g \in S : Offer(S, x, E) = {g} /\ exposed[x] = E[g].exports[x]

Accepted(fr, E) ==
  fr.ok => LET S == Imported(fr.path, fr.at) IN
             /\ S \subseteq ClosedOk(E)
             /\ AliasesTo(fr.aliases, fr.path, fr.at)
             /\ ExposedOf(fr.exposed, S, E)

ModuleFrame(fr, E) ==
  /\ fr.path \in DOMAIN E /\ E[fr.path].open
  /\ fr.prefix = fr.path[2] /\ fr.path = Resolve(fr.prefix)
  /\ ExportsTo(E[fr.path].exports, fr.path, fr.at)
  /\ SelfTo(fr.self, fr.path, fr.at)

RootFrame(fr) == fr.path = Root /\ fr.self = Empty /\ ImportsOf(Root) # {}

\* The frame number k.
FrameRight(k, fr, E) ==
  /\ Placed(fr) /\ Declared(fr) /\ Accepted(fr, E)
  /\ IF k = 1 THEN RootFrame(fr) ELSE ModuleFrame(fr, E)

\* What has been accepted stays as it is.
Grows(E, E2) == \A f \in ClosedOk(E) : f \in DOMAIN E2 /\ E2[f] = E[f]

LEMMA GrownClosed ==
  ASSUME NEW E, NEW E2, Grows(E, E2)
  PROVE  ClosedOk(E) \subseteq ClosedOk(E2)
  BY DEF Grows, ClosedOk

\* What is said of a frame holds as long as accepted modules stay as they are.
LEMMA FrameKept ==
  ASSUME NEW E, NEW E2, Grows(E, E2), NEW k, NEW fr, FrameRight(k, fr, E),
         k # 1 => fr.path \in DOMAIN E2 /\ E2[fr.path] = E[fr.path]
  PROVE  FrameRight(k, fr, E2)
<1>1. ClosedOk(E) \subseteq ClosedOk(E2)
  BY GrownClosed
<1>2. Accepted(fr, E2)
  <2>1. SUFFICES ASSUME fr.ok PROVE Accepted(fr, E2)
    BY DEF Accepted
  <2> DEFINE S == Imported(fr.path, fr.at)
  <2>2. S \subseteq ClosedOk(E) /\ AliasesTo(fr.aliases, fr.path, fr.at) /\ ExposedOf(fr.exposed, S, E)
    BY <2>1 DEF FrameRight, Accepted
  <2> HIDE DEF S
  <2>3. \A g \in S : E2[g] = E[g]
    BY <2>2 DEF Grows
  <2>4. \A x : Offer(S, x, E2) = Offer(S, x, E)
    BY <2>3 DEF Offer
  <2>5. UNION {DOMAIN E[g].exports : g \in S} = UNION {DOMAIN E2[g].exports : g \in S}
    BY <2>3
  <2>6. ExposedOf(fr.exposed, S, E2)
    BY <2>2, <2>3, <2>4, <2>5 DEF ExposedOf
  <2> QED
    BY <2>2, <2>6, <1>1 DEF Accepted, S
<1>3. k # 1 => ModuleFrame(fr, E2)
  BY DEF FrameRight, ModuleFrame
<1> QED
  BY <1>2, <1>3 DEF FrameRight

\* What passing one item does to the sets above.
LEMMA ImportPassed ==
  ASSUME IsTree(p), NEW f \in Paths, Readable(f), NEW n \in Nat, ImportAt(f, n)
  PROVE  /\ n + 1 \in 1..End(f)
         /\ DeclsTo(f, n + 1) = DeclsTo(f, n) /\ PublicTo(f, n + 1) = PublicTo(f, n)
         /\ ImportsTo(f, n + 1) = ImportsTo(f, n) \union {n}
         /\ Imported(f, n + 1) = Imported(f, n) \union {Resolve(Is(f)[n].of)}
         /\ Resolve(Is(f)[n].of) \in ImportsOf(f)
<1>1. Len(Is(f)) \in Nat /\ DOMAIN Is(f) = 1..Len(Is(f)) /\ ImportsOf(f) = Imported(f, End(f))
  BY ImportsRead
<1>2. n \in 1..Len(Is(f)) /\ Is(f)[n].kind = "import"
  BY <1>1 DEF ImportAt
<1>3. n + 1 \in 1..End(f)
  BY <1>1, <1>2 DEF End
<1>4. DeclsTo(f, n + 1) = DeclsTo(f, n)
  BY <1>1, <1>2 DEF DeclsTo
<1>5. ImportsTo(f, n + 1) = ImportsTo(f, n) \union {n}
  BY <1>1, <1>2 DEF ImportsTo
<1>6. Imported(f, n + 1) = Imported(f, n) \union {Resolve(Is(f)[n].of)}
  BY <1>5 DEF Imported
<1>7. n \in ImportsTo(f, End(f))
  BY <1>1, <1>2 DEF ImportsTo, End
<1> QED
  BY <1>1, <1>3, <1>4, <1>5, <1>6, <1>7 DEF PublicTo, Imported

\* The same for a declaration.
LEMMA DeclPassed ==
  ASSUME IsTree(p), NEW f \in Paths, Readable(f), NEW n \in Nat, DeclAt(f, n)
  PROVE  /\ n + 1 \in 1..End(f)
         /\ DeclsTo(f, n + 1) = DeclsTo(f, n) \union {n}
         /\ PublicTo(f, n + 1) = PublicTo(f, n) \union (IF Is(f)[n].pub THEN {n} ELSE {})
         /\ ImportsTo(f, n + 1) = ImportsTo(f, n)
         /\ n \in Named(f, Is(f)[n].name, End(f))
<1>1. Len(Is(f)) \in Nat /\ DOMAIN Is(f) = 1..Len(Is(f))
  BY ImportsRead
<1>2. n \in 1..Len(Is(f)) /\ Is(f)[n].kind = "decl"
  BY <1>1 DEF DeclAt
<1>3. n + 1 \in 1..End(f)
  BY <1>1, <1>2 DEF End
<1>4. DeclsTo(f, n + 1) = DeclsTo(f, n) \union {n}
  BY <1>1, <1>2 DEF DeclsTo
<1>5. ImportsTo(f, n + 1) = ImportsTo(f, n)
  BY <1>1, <1>2 DEF ImportsTo
<1>6. n \in Named(f, Is(f)[n].name, End(f))
  BY <1>1, <1>2 DEF Named, DeclsTo, End
<1> QED
  BY <1>3, <1>4, <1>5, <1>6 DEF PublicTo

\* A frame after an import: all but its at, ok, aliases and exposed is as before.
LEMMA AfterImport ==
  ASSUME IsTree(p), NEW E, NEW k, NEW fr, FrameRight(k, fr, E), ImportAt(fr.path, fr.at),
         NEW g, IsFrame(g), g.path = fr.path, g.prefix = fr.prefix, g.items = fr.items,
         g.decls = fr.decls, g.self = fr.self, g.at = fr.at + 1, g.ok \in BOOLEAN, Accepted(g, E)
  PROVE  FrameRight(k, g, E)
<1> DEFINE f == fr.path
           n == fr.at
<1>1. /\ f \in Paths /\ Readable(f) /\ fr.items = Is(f) /\ n \in 1..End(f)
      /\ Declared(fr) /\ (k = 1 => RootFrame(fr)) /\ (k # 1 => ModuleFrame(fr, E))
  BY DEF FrameRight, Placed
<1>2. n \in Nat
  BY <1>1, ImportsRead DEF End
<1>3. /\ n + 1 \in 1..End(f)
      /\ DeclsTo(f, n + 1) = DeclsTo(f, n) /\ PublicTo(f, n + 1) = PublicTo(f, n)
  BY <1>1, <1>2, ImportPassed
<1>4. Placed(g)
  BY <1>1, <1>3 DEF Placed
<1>5. Declared(g)
  BY <1>1, <1>3 DEF Declared
<1>6. k = 1 => RootFrame(g)
  BY <1>1 DEF RootFrame
<1>7. k # 1 => ModuleFrame(g, E)
  BY <1>1, <1>3 DEF ModuleFrame, ExportsTo, SelfTo
<1> QED
  BY <1>4, <1>5, <1>6, <1>7 DEF FrameRight

\* An import that failed leaves the frame as it should be.
LEMMA WithoutRight ==
  ASSUME IsTree(p), NEW E, NEW k, NEW fr, FrameRight(k, fr, E), ImportAt(fr.path, fr.at)
  PROVE  FrameRight(k, Without(fr), E)
<1> DEFINE g == Without(fr)
<1>1. IsFrame(fr)
  BY DEF FrameRight, Placed
<1>1a. g = [path |-> fr.path, prefix |-> fr.prefix, items |-> fr.items, at |-> fr.at + 1, ok |-> FALSE,
            decls |-> fr.decls, self |-> fr.self, aliases |-> fr.aliases, exposed |-> fr.exposed]
  <2>1. DOMAIN fr = {"path", "prefix", "items", "at", "ok", "decls", "self", "aliases", "exposed"}
    BY <1>1 DEF IsFrame
  <2>2. DOMAIN g = DOMAIN fr
    BY DEF Without
  <2>3. g.ok = FALSE /\ g.at = fr.at + 1
    BY <2>1 DEF Without
  <2>4. /\ g.path = fr.path /\ g.prefix = fr.prefix /\ g.items = fr.items
        /\ g.decls = fr.decls /\ g.self = fr.self /\ g.aliases = fr.aliases /\ g.exposed = fr.exposed
    BY <2>1 DEF Without
  <2>5. g = [x \in DOMAIN g |-> g[x]]
    BY DEF Without
  <2> HIDE DEF g
  <2> QED
    BY <2>1, <2>2, <2>3, <2>4, <2>5
<1> HIDE DEF g
<1>2. /\ IsFrame(g) /\ g.path = fr.path /\ g.prefix = fr.prefix /\ g.items = fr.items
      /\ g.decls = fr.decls /\ g.self = fr.self /\ g.at = fr.at + 1 /\ ~g.ok /\ g.ok \in BOOLEAN
  BY <1>1a DEF IsFrame
<1>3. Accepted(g, E)
  BY <1>2 DEF Accepted
<1> QED
  BY <1>2, <1>3, AfterImport DEF g

\* The entries of the modules that have been accepted offer what they should.
ClosedRight(E) ==
  \A f \in ClosedOk(E) : f \in Paths /\ Readable(f) /\ ExportsTo(E[f].exports, f, End(f))

\* A name is offered by one module, or it is nobody's.
LEMMA MergeRight ==
  ASSUME IsTree(p), NEW E, ClosedRight(E), NEW S \in SUBSET ClosedOk(E), NEW t \in ClosedOk(E),
         NEW exposed, ExposedOf(exposed, S, E)
  PROVE  ExposedOf(Merged(exposed, E[t].exports), S \union {t}, E)
<1> DEFINE exports == E[t].exports
           new == Merged(exposed, exports)
           T == S \union {t}
<1>1. \A g \in ClosedOk(E) : g # Nowhere /\ \A x \in DOMAIN E[g].exports : E[g].exports[x].by = g
  <2>1. Nowhere \notin Paths
    BY PathsAreSomewhere
  <2>2. ASSUME NEW g \in ClosedOk(E), NEW x \in DOMAIN E[g].exports
        PROVE  E[g].exports[x].by = g
    <3>1. PICK s : E[g].exports[x] = [by |-> g, sym |-> s]
      BY DEF ClosedRight, ExportsTo
    <3> QED
      BY <3>1
  <2> QED
    BY <2>1, <2>2 DEF ClosedRight
<1>2. Ambiguous.by = Nowhere
  BY DEF Ambiguous
<1>3. /\ DOMAIN exposed = UNION {DOMAIN E[g].exports : g \in S}
      /\ \A x \in DOMAIN exposed :
           \/ exposed[x] = Ambiguous /\ \E g, h \in Offer(S, x, E) : g # h
           \/ /\ exposed[x] # Ambiguous
              /\ \E g \in S : Offer(S, x, E) = {g} /\ exposed[x] = E[g].exports[x]
  BY DEF ExposedOf
<1>4. DOMAIN new = DOMAIN exposed \union DOMAIN exports
  BY DEF Merged
<1>5. DOMAIN new = UNION {DOMAIN E[g].exports : g \in T}
  <2>1. UNION {DOMAIN E[g].exports : g \in T} = (UNION {DOMAIN E[g].exports : g \in S}) \union DOMAIN exports
    OBVIOUS
  <2> QED
    BY <1>3, <1>4, <2>1
<1>6. \A x : Offer(T, x, E) = Offer(S, x, E) \union (IF x \in DOMAIN exports THEN {t} ELSE {})
  BY DEF Offer
<1>7. \A x \in DOMAIN new :
        new[x] = IF x \notin DOMAIN exports THEN exposed[x]
                 ELSE IF x \in DOMAIN exposed /\ exposed[x] # exports[x] THEN Ambiguous
                 ELSE exports[x]
  BY <1>4 DEF Merged
<1>8. \A x : x \notin DOMAIN exposed => Offer(S, x, E) = {}
  BY <1>3 DEF Offer
<1> HIDE DEF new, exports
<1>9. \A x \in DOMAIN exports : exports[x].by = t /\ exports[x] # Ambiguous
  BY <1>1, <1>2 DEF exports
<1>10. ASSUME NEW x \in DOMAIN new
       PROVE  \/ new[x] = Ambiguous /\ \E g, h \in Offer(T, x, E) : g # h
              \/ /\ new[x] # Ambiguous
                 /\ \E g \in T : Offer(T, x, E) = {g} /\ new[x] = E[g].exports[x]
  <2>1. CASE x \notin DOMAIN exports
    <3>1. Offer(T, x, E) = Offer(S, x, E) /\ new[x] = exposed[x] /\ x \in DOMAIN exposed
      BY <2>1, <1>4, <1>6, <1>7
    <3>2. CASE exposed[x] = Ambiguous
      <4>1. PICK g, h \in Offer(S, x, E) : g # h
        BY <3>1, <3>2, <1>3
      <4> QED
        BY <3>1, <3>2, <4>1
    <3>3. CASE exposed[x] # Ambiguous
      <4>1. PICK g \in S : Offer(S, x, E) = {g} /\ exposed[x] = E[g].exports[x]
        BY <3>1, <3>3, <1>3
      <4> QED
        BY <3>1, <3>3, <4>1
    <3> QED
      BY <3>2, <3>3
  <2>2. CASE x \in DOMAIN exports /\ x \notin DOMAIN exposed
    <3>1. Offer(T, x, E) = {t} /\ new[x] = exports[x]
      BY <2>2, <1>6, <1>7, <1>8
    <3> QED
      BY <3>1, <2>2, <1>9 DEF exports
  <2>3. CASE x \in DOMAIN exports /\ x \in DOMAIN exposed /\ exposed[x] = Ambiguous
    <3>1. new[x] = Ambiguous
      BY <2>3, <1>7, <1>9
    <3>2. PICK g, h \in Offer(S, x, E) : g # h
      BY <2>3, <1>3
    <3> QED
      BY <3>1, <3>2, <1>6
  <2>4. CASE x \in DOMAIN exports /\ x \in DOMAIN exposed /\ exposed[x] # Ambiguous
    <3>1. PICK g \in S : Offer(S, x, E) = {g} /\ exposed[x] = E[g].exports[x]
      BY <2>4, <1>3
    <3>2. exposed[x].by = g
      BY <3>1, <1>1 DEF Offer
    <3>3. Offer(T, x, E) = {g, t}
      BY <3>1, <2>4, <1>6
    <3>4. CASE g = t
      <4>1. exposed[x] = exports[x] /\ new[x] = exports[x]
        BY <3>1, <3>4, <2>4, <1>7 DEF exports
      <4> QED
        BY <4>1, <3>1, <3>3, <3>4, <2>4
    <3>5. CASE g # t
      <4>1. exposed[x] # exports[x]
        BY <3>2, <3>5, <2>4, <1>9
      <4>2. new[x] = Ambiguous
        BY <4>1, <2>4, <1>7
      <4> QED
        BY <4>2, <3>3, <3>5
    <3> QED
      BY <3>4, <3>5
  <2> QED
    BY <2>1, <2>2, <2>3, <2>4
<1>11. ExposedOf(new, T, E)
  BY <1>5, <1>10 DEF ExposedOf
<1> QED
  BY <1>11 DEF new, exports

\* The last import under an alias is the one it stands for.
LEMMA AliasRight ==
  ASSUME IsTree(p), NEW f \in Paths, Readable(f), NEW n \in Nat, ImportAt(f, n),
         NEW aliases, AliasesTo(aliases, f, n)
  PROVE  AliasesTo(Put(aliases, Is(f)[n].as, Resolve(Is(f)[n].of)), f, n + 1)
<1> DEFINE a == Is(f)[n].as
           new == Put(aliases, a, Resolve(Is(f)[n].of))
<1>1. ImportsTo(f, n + 1) = ImportsTo(f, n) \union {n}
  BY ImportPassed
<1>2. \A i \in ImportsTo(f, n) : i < n /\ i \in Nat
  BY ImportsRead DEF ImportsTo
<1>3. DOMAIN new = {Is(f)[i].as : i \in ImportsTo(f, n + 1)}
  BY <1>1 DEF Put, AliasesTo
<1>4. ASSUME NEW x \in DOMAIN new
      PROVE  \E i \in Given(f, x, n + 1) :
               /\ \A j \in Given(f, x, n + 1) : j <= i
               /\ new[x] = Resolve(Is(f)[i].of)
  <2>1. CASE x = a
    <3>1. n \in Given(f, x, n + 1)
      BY <1>1, <2>1 DEF Given
    <3>2. \A j \in Given(f, x, n + 1) : j <= n
      BY <1>1, <1>2 DEF Given
    <3>3. new[x] = Resolve(Is(f)[n].of)
      BY <2>1 DEF Put
    <3> QED
      BY <3>1, <3>2, <3>3
  <2>2. CASE x # a
    <3>1. x \in DOMAIN aliases /\ new[x] = aliases[x]
      BY <2>2 DEF Put
    <3>2. Given(f, x, n + 1) = Given(f, x, n)
      BY <1>1, <2>2 DEF Given
    <3> QED
      BY <3>1, <3>2 DEF AliasesTo
  <2> QED
    BY <2>1, <2>2
<1> HIDE DEF new
<1>5. AliasesTo(new, f, n + 1)
  BY <1>3, <1>4 DEF AliasesTo
<1> QED
  BY <1>5 DEF new

\* So does an import of a module that is done.
LEMMA WithRight ==
  ASSUME IsTree(p), NEW E, ClosedRight(E), NEW k, NEW fr, FrameRight(k, fr, E),
         ImportAt(fr.path, fr.at), NEW t \in DOMAIN E, t = Resolve(Is(fr.path)[fr.at].of),
         IsEntry(E[t]), ~E[t].open
  PROVE  FrameRight(k, With(fr, t, E[t]), E)
<1>1. CASE ~E[t].ok
  BY <1>1, WithoutRight DEF With
<1>2. CASE E[t].ok
  <2> DEFINE g == With(fr, t, E[t])
             f == fr.path
             n == fr.at
  <2>1. /\ IsFrame(fr) /\ f \in Paths /\ Readable(f) /\ fr.items = Is(f)
        /\ n \in 1..End(f) /\ fr.ok \in BOOLEAN
    BY DEF FrameRight, Placed
  <2>2. n \in Nat
    BY <2>1, ImportsRead DEF End
  <2>3. /\ IsFrame(g) /\ g.path = f /\ g.prefix = fr.prefix /\ g.items = fr.items
        /\ g.decls = fr.decls /\ g.self = fr.self /\ g.at = n + 1 /\ g.ok = fr.ok
        /\ g.aliases = Put(fr.aliases, fr.items[n].as, t)
        /\ g.exposed = Merged(fr.exposed, E[t].exports)
    BY <1>2, <2>1 DEF IsFrame, With
  <2> HIDE DEF g
  <2>4. t \in ClosedOk(E)
    BY <1>2 DEF ClosedOk
  <2>5. Imported(f, n + 1) = Imported(f, n) \union {t}
    BY <2>1, <2>2, ImportPassed
  <2>6. ASSUME g.ok
        PROVE  /\ Imported(f, n + 1) \subseteq ClosedOk(E)
               /\ AliasesTo(g.aliases, f, n + 1)
               /\ ExposedOf(g.exposed, Imported(f, n + 1), E)
    <3>1. /\ Imported(f, n) \subseteq ClosedOk(E)
          /\ AliasesTo(fr.aliases, f, n)
          /\ ExposedOf(fr.exposed, Imported(f, n), E)
      BY <2>3, <2>6 DEF FrameRight, Accepted
    <3>2. AliasesTo(g.aliases, f, n + 1)
      BY <3>1, <2>1, <2>2, <2>3, AliasRight
    <3>3. ExposedOf(g.exposed, Imported(f, n) \union {t}, E)
      <4> DEFINE S == Imported(f, n)
      <4>1. S \in SUBSET ClosedOk(E) /\ ExposedOf(fr.exposed, S, E)
        BY <3>1
      <4> HIDE DEF S
      <4> QED
        BY <4>1, <2>3, <2>4, MergeRight DEF S
    <3> QED
      BY <3>1, <3>2, <3>3, <2>4, <2>5
  <2>7. Accepted(g, E)
    BY <2>3, <2>6 DEF Accepted
  <2>8. FrameRight(k, g, E)
    BY <2>1, <2>3, <2>7, AfterImport
  <2> QED
    BY <2>8 DEF g
<1> QED
  BY <1>1, <1>2

\* A declaration is the next of the declarations so far.
LEMMA DeclaredOn ==
  ASSUME IsTree(p), NEW fr, Placed(fr), Declared(fr), DeclAt(fr.path, fr.at),
         NEW g, g.path = fr.path, g.at = fr.at + 1, g.decls = Append(fr.decls, fr.at)
  PROVE  Declared(g)
<1> DEFINE f == fr.path
           n == fr.at
           ds == fr.decls
<1>1. f \in Paths /\ Readable(f) /\ n \in 1..End(f)
  BY DEF Placed
<1>2. n \in Nat
  BY <1>1, ImportsRead DEF End
<1>3. DeclsTo(f, n + 1) = DeclsTo(f, n) \union {n} /\ \A i \in DeclsTo(f, n) : i < n /\ i \in Nat
  BY <1>1, <1>2, DeclPassed, ImportsRead DEF DeclsTo
<1>4. /\ ds \in Seq(Nat) /\ \A m \in DOMAIN ds : ds[m] \in DeclsTo(f, n)
      /\ \A i \in DeclsTo(f, n) : \E m \in DOMAIN ds : ds[m] = i
      /\ \A l, m \in DOMAIN ds : l < m => ds[l] < ds[m]
  BY DEF Declared
<1> DEFINE new == Append(ds, n)
           N == Len(ds)
<1> HIDE DEF f, n, ds
<1>5. /\ N \in Nat /\ DOMAIN ds = 1..N /\ new \in Seq(Nat) /\ DOMAIN new = 1..(N + 1)
      /\ new[N + 1] = n /\ \A m \in 1..N : new[m] = ds[m]
  BY <1>2, <1>4
<1> HIDE DEF new, N
<1>6. \A m \in DOMAIN new : m \in 1..N \/ m = N + 1
  BY <1>5
<1>7. \A m \in DOMAIN new : new[m] \in DeclsTo(f, n + 1)
  BY <1>3, <1>4, <1>5, <1>6
<1>8. \A i \in DeclsTo(f, n + 1) : \E m \in DOMAIN new : new[m] = i
  <2> SUFFICES ASSUME NEW i \in DeclsTo(f, n + 1) PROVE \E m \in DOMAIN new : new[m] = i
    OBVIOUS
  <2>1. CASE i = n
    <3>1. N + 1 \in DOMAIN new
      BY <1>5
    <3> QED
      BY <2>1, <3>1, <1>5
  <2>2. CASE i # n
    <3>1. PICK m \in 1..N : ds[m] = i
      BY <2>2, <1>3, <1>4, <1>5
    <3>2. m \in DOMAIN new
      BY <1>5
    <3> QED
      BY <3>1, <3>2, <1>5
  <2> QED
    BY <2>1, <2>2
<1>9. \A l, m \in DOMAIN new : l < m => new[l] < new[m]
  <2> SUFFICES ASSUME NEW l \in DOMAIN new, NEW m \in DOMAIN new, l < m PROVE new[l] < new[m]
    OBVIOUS
  <2>1. l \in 1..N
    BY <1>5, <1>6
  <2>2. new[l] = ds[l] /\ ds[l] < n
    BY <2>1, <1>3, <1>4, <1>5
  <2>3. CASE m = N + 1
    BY <2>2, <2>3, <1>5
  <2>4. CASE m \in 1..N
    BY <2>1, <2>4, <1>4, <1>5
  <2> QED
    BY <2>3, <2>4, <1>6
<1> QED
  BY <1>5, <1>7, <1>8, <1>9 DEF Declared, f, n, ds, new

LEMMA AcceptedOn ==
  ASSUME IsTree(p), NEW E, NEW fr, Placed(fr), Accepted(fr, E), DeclAt(fr.path, fr.at),
         NEW g, g.path = fr.path, g.at = fr.at + 1, g.ok = fr.ok,
         g.aliases = fr.aliases, g.exposed = fr.exposed
  PROVE  Accepted(g, E)
<1> DEFINE f == fr.path
           n == fr.at
<1>1. f \in Paths /\ Readable(f) /\ n \in 1..End(f)
  BY DEF Placed
<1>2. n \in Nat
  BY <1>1, ImportsRead DEF End
<1>3. ImportsTo(f, n + 1) = ImportsTo(f, n)
  BY <1>1, <1>2, DeclPassed
<1>4. Imported(f, n + 1) = Imported(f, n) /\ \A x : Given(f, x, n + 1) = Given(f, x, n)
  BY <1>3 DEF Imported, Given
<1> QED
  BY <1>3, <1>4 DEF Accepted, AliasesTo

\* The root's frame after a declaration, and a module's.
RootDeclared(fr) == [fr EXCEPT !.at = @ + 1, !.decls = Append(@, fr.at)]
SymbolAt(fr) == Mangled(fr.prefix, fr.items[fr.at])
ModuleDeclared(fr) ==
  [RootDeclared(fr) EXCEPT !.self = Put(@, fr.items[fr.at].name, SymbolAt(fr))]
Exported(fr, E) ==
  IF fr.items[fr.at].pub
  THEN [E EXCEPT ![fr.path].exports =
          Put(@, fr.items[fr.at].name, [by |-> fr.path, sym |-> SymbolAt(fr)])]
  ELSE E

LEMMA RootDeclaredIs ==
  ASSUME NEW fr, IsFrame(fr)
  PROVE  RootDeclared(fr) =
          [path |-> fr.path, prefix |-> fr.prefix, items |-> fr.items, at |-> fr.at + 1, ok |-> fr.ok,
           decls |-> Append(fr.decls, fr.at), self |-> fr.self, aliases |-> fr.aliases, exposed |-> fr.exposed]
<1> DEFINE g == RootDeclared(fr)
<1>1. DOMAIN fr = {"path", "prefix", "items", "at", "ok", "decls", "self", "aliases", "exposed"}
  BY DEF IsFrame
<1>2. DOMAIN g = DOMAIN fr /\ g.at = fr.at + 1 /\ g.decls = Append(fr.decls, fr.at)
  BY <1>1 DEF RootDeclared
<1>3. /\ g.path = fr.path /\ g.prefix = fr.prefix /\ g.items = fr.items /\ g.ok = fr.ok
      /\ g.self = fr.self /\ g.aliases = fr.aliases /\ g.exposed = fr.exposed
  BY <1>1 DEF RootDeclared
<1>4. g = [x \in DOMAIN g |-> g[x]]
  BY DEF RootDeclared
<1> HIDE DEF g
<1>5. g = [path |-> fr.path, prefix |-> fr.prefix, items |-> fr.items, at |-> fr.at + 1, ok |-> fr.ok,
           decls |-> Append(fr.decls, fr.at), self |-> fr.self, aliases |-> fr.aliases, exposed |-> fr.exposed]
  BY <1>1, <1>2, <1>3, <1>4
<1> QED
  BY <1>5 DEF g

LEMMA ModuleDeclaredIs ==
  ASSUME NEW fr, IsFrame(fr)
  PROVE  ModuleDeclared(fr) =
          [path |-> fr.path, prefix |-> fr.prefix, items |-> fr.items, at |-> fr.at + 1, ok |-> fr.ok,
           decls |-> Append(fr.decls, fr.at), self |-> Put(fr.self, fr.items[fr.at].name, SymbolAt(fr)),
           aliases |-> fr.aliases, exposed |-> fr.exposed]
<1> DEFINE r == RootDeclared(fr)
           g == ModuleDeclared(fr)
           self == Put(fr.self, fr.items[fr.at].name, SymbolAt(fr))
<1>1. r = [path |-> fr.path, prefix |-> fr.prefix, items |-> fr.items, at |-> fr.at + 1, ok |-> fr.ok,
           decls |-> Append(fr.decls, fr.at), self |-> fr.self, aliases |-> fr.aliases, exposed |-> fr.exposed]
  BY RootDeclaredIs
<1>2. g = [r EXCEPT !.self = Put(@, fr.items[fr.at].name, SymbolAt(fr))]
  BY DEF ModuleDeclared
<1> HIDE DEF r, g
<1>3. r.self = fr.self
  BY <1>1
<1>4. g = [r EXCEPT !.self = self]
  BY <1>2, <1>3
<1> HIDE DEF self
<1>5. g = [path |-> fr.path, prefix |-> fr.prefix, items |-> fr.items, at |-> fr.at + 1, ok |-> fr.ok,
           decls |-> Append(fr.decls, fr.at), self |-> self, aliases |-> fr.aliases, exposed |-> fr.exposed]
  BY <1>1, <1>4
<1> QED
  BY <1>5 DEF g, self

LEMMA RootDeclares ==
  ASSUME IsTree(p), NEW E, NEW fr, FrameRight(1, fr, E), DeclAt(fr.path, fr.at)
  PROVE  FrameRight(1, RootDeclared(fr), E)
<1> DEFINE g == RootDeclared(fr)
<1>1. Placed(fr) /\ Declared(fr) /\ Accepted(fr, E) /\ RootFrame(fr)
  BY DEF FrameRight
<1>2. /\ IsFrame(fr) /\ fr.path \in Paths /\ Readable(fr.path) /\ fr.items = Is(fr.path)
      /\ fr.at \in 1..End(fr.path) /\ fr.ok \in BOOLEAN
  BY <1>1 DEF Placed
<1>3. /\ IsFrame(g) /\ g.path = fr.path /\ g.items = fr.items /\ g.decls = Append(fr.decls, fr.at)
      /\ g.self = fr.self /\ g.at = fr.at + 1 /\ g.ok = fr.ok
      /\ g.aliases = fr.aliases /\ g.exposed = fr.exposed
  <2> HIDE DEF g
  <2>1. g = [path |-> fr.path, prefix |-> fr.prefix, items |-> fr.items, at |-> fr.at + 1, ok |-> fr.ok,
           decls |-> Append(fr.decls, fr.at), self |-> fr.self, aliases |-> fr.aliases, exposed |-> fr.exposed]
    BY <1>2, RootDeclaredIs DEF g
  <2> QED
    BY <2>1 DEF IsFrame
<1> HIDE DEF g
<1>4. fr.at \in Nat
  BY <1>2, ImportsRead DEF End
<1>5. fr.at + 1 \in 1..End(fr.path)
  BY <1>2, <1>4, DeclPassed
<1>6. Placed(g)
  BY <1>2, <1>3, <1>5 DEF Placed
<1>7. Declared(g)
  BY <1>1, <1>3, DeclaredOn
<1>8. Accepted(g, E)
  BY <1>1, <1>3, AcceptedOn
<1>9. RootFrame(g)
  BY <1>1, <1>3 DEF RootFrame
<1> QED
  BY <1>6, <1>7, <1>8, <1>9 DEF FrameRight, g

\* A declaration of a module: its symbol is entered, and exported if it is public.
LEMMA ModuleDeclares ==
  ASSUME IsTree(p), NEW E, NEW k, k # 1, NEW fr, FrameRight(k, fr, E), DeclAt(fr.path, fr.at),
         \A f \in DOMAIN E : IsEntry(E[f])
  PROVE  /\ FrameRight(k, ModuleDeclared(fr), Exported(fr, E))
         /\ Grows(E, Exported(fr, E)) /\ DOMAIN Exported(fr, E) = DOMAIN E
         /\ \A f \in DOMAIN E : /\ IsEntry(Exported(fr, E)[f])
                                /\ Exported(fr, E)[f].open = E[f].open
                                /\ Exported(fr, E)[f].ok = E[f].ok
                                /\ f # fr.path => Exported(fr, E)[f] = E[f]
<1> DEFINE g == ModuleDeclared(fr)
           E2 == Exported(fr, E)
           f == fr.path
           n == fr.at
           d == Is(f)[n]
           s == SymbolAt(fr)
<1>1. Placed(fr) /\ Declared(fr) /\ Accepted(fr, E) /\ ModuleFrame(fr, E)
  BY DEF FrameRight
<1>2. /\ IsFrame(fr) /\ f \in Paths /\ Readable(f) /\ fr.items = Is(f)
      /\ n \in 1..End(f) /\ fr.ok \in BOOLEAN
  BY <1>1 DEF Placed
<1>3. /\ f \in DOMAIN E /\ E[f].open /\ fr.prefix = f[2] /\ f = Resolve(fr.prefix)
      /\ ExportsTo(E[f].exports, f, n) /\ SelfTo(fr.self, f, n)
  BY <1>1 DEF ModuleFrame
<1>4. /\ IsFrame(g) /\ g.path = f /\ g.items = fr.items /\ g.decls = Append(fr.decls, n)
      /\ g.self = Put(fr.self, d.name, s) /\ g.at = n + 1 /\ g.ok = fr.ok /\ g.prefix = fr.prefix
      /\ g.aliases = fr.aliases /\ g.exposed = fr.exposed
  <2> HIDE DEF g
  <2>1. g = [path |-> fr.path, prefix |-> fr.prefix, items |-> fr.items, at |-> fr.at + 1, ok |-> fr.ok,
           decls |-> Append(fr.decls, fr.at), self |-> Put(fr.self, fr.items[fr.at].name, s),
           aliases |-> fr.aliases, exposed |-> fr.exposed]
    BY <1>2, ModuleDeclaredIs DEF g
  <2>2. fr.items[fr.at].name = d.name
    BY <1>2
  <2> HIDE DEF s, d
  <2> QED
    BY <2>1, <2>2 DEF IsFrame
<1>5. n \in Nat
  BY <1>2, ImportsRead DEF End
<1>6. /\ n + 1 \in 1..End(f) /\ DeclsTo(f, n + 1) = DeclsTo(f, n) \union {n}
      /\ PublicTo(f, n + 1) = PublicTo(f, n) \union (IF d.pub THEN {n} ELSE {})
      /\ n \in Named(f, d.name, End(f))
  BY <1>2, <1>5, DeclPassed
<1>7. s \in Symbols(f, d.name)
  BY <1>2, <1>3, <1>6 DEF Symbols, SymbolAt
<1>8. /\ DOMAIN E2 = DOMAIN E
      /\ \A x \in DOMAIN E : x # f => E2[x] = E[x]
      /\ ~d.pub => E2[f] = E[f]
      /\ d.pub => E2[f] = [E[f] EXCEPT !.exports = Put(@, d.name, [by |-> f, sym |-> s])]
  BY <1>2, <1>3 DEF Exported
<1> HIDE DEF g, E2, s
<1>9. /\ IsEntry(E2[f]) /\ E2[f].open = E[f].open /\ E2[f].ok = E[f].ok
      /\ E2[f].exports = IF d.pub THEN Put(E[f].exports, d.name, [by |-> f, sym |-> s]) ELSE E[f].exports
  <2> DEFINE e == E[f]
             x == Put(e.exports, d.name, [by |-> f, sym |-> s])
  <2>1. IsEntry(e)
    BY <1>3
  <2> HIDE DEF x
  <2>2. CASE d.pub
    <3>1. E2[f] = [e EXCEPT !.exports = x]
      BY <2>2, <1>8 DEF x
    <3> HIDE DEF e
    <3>2. E2[f] = [open |-> e.open, ok |-> e.ok, exports |-> x]
      BY <3>1, <2>1 DEF IsEntry
    <3>3. IsEntry(E2[f]) /\ E2[f].open = e.open /\ E2[f].ok = e.ok /\ E2[f].exports = x
      BY <3>2, <2>1 DEF IsEntry
    <3> QED
      BY <2>2, <3>3 DEF x, e
  <2>3. CASE ~d.pub
    BY <2>1, <2>3, <1>8
  <2> QED
    BY <2>2, <2>3
<1>10. Grows(E, E2)
  BY <1>3, <1>8 DEF Grows, ClosedOk
<1>11. Placed(g)
  BY <1>2, <1>4, <1>6 DEF Placed
<1>12. Declared(g)
  BY <1>1, <1>4, DeclaredOn
<1>13. Accepted(g, E2)
  <2>1. Accepted(g, E)
    BY <1>1, <1>4, AcceptedOn
  <2>2. FrameRight(k, fr, E) /\ Grows(E, E2)
    BY <1>10
  <2> DEFINE S == Imported(f, n + 1)
  <2>3. SUFFICES ASSUME g.ok PROVE Accepted(g, E2)
    BY DEF Accepted
  <2>4. S \subseteq ClosedOk(E) /\ AliasesTo(g.aliases, f, n + 1) /\ ExposedOf(g.exposed, S, E)
    BY <2>1, <2>3, <1>4 DEF Accepted
  <2> HIDE DEF S
  <2>5. \A h \in S : E2[h] = E[h]
    BY <2>4, <1>10 DEF Grows
  <2>6. \A x : Offer(S, x, E2) = Offer(S, x, E)
    BY <2>5 DEF Offer
  <2>7. UNION {DOMAIN E[h].exports : h \in S} = UNION {DOMAIN E2[h].exports : h \in S}
    BY <2>5
  <2>8. ExposedOf(g.exposed, S, E2)
    BY <2>4, <2>5, <2>6, <2>7 DEF ExposedOf
  <2> QED
    BY <2>4, <2>8, <1>4, <1>10, GrownClosed DEF Accepted, S
<1>14. SelfTo(g.self, f, n + 1)
  <2> DEFINE q == Put(fr.self, d.name, s)
             N(m) == {Is(f)[i].name : i \in DeclsTo(f, m)}
  <2>1. DOMAIN fr.self = N(n) /\ \A x \in DOMAIN fr.self : fr.self[x] \in Symbols(f, x)
    BY <1>3 DEF SelfTo
  <2>2. N(n + 1) = N(n) \union {d.name}
    BY <1>6
  <2>3. /\ DOMAIN q = DOMAIN fr.self \union {d.name}
        /\ \A x \in DOMAIN q : q[x] = IF x = d.name THEN s ELSE fr.self[x]
    BY DEF Put
  <2> HIDE DEF q, d, N
  <2>4. DOMAIN q = N(n + 1)
    BY <2>1, <2>2, <2>3
  <2>5. \A x \in DOMAIN q : q[x] \in Symbols(f, x)
    BY <2>1, <2>3, <1>7
  <2>6. g.self = q
    BY <1>4 DEF q
  <2> QED
    BY <2>4, <2>5, <2>6 DEF SelfTo, N
<1>15. ExportsTo(E2[f].exports, f, n + 1)
  <2>1. CASE d.pub
    <3> DEFINE e == E[f].exports
               x == Put(e, d.name, [by |-> f, sym |-> s])
    <3>1. DOMAIN x = {Is(f)[i].name : i \in PublicTo(f, n + 1)}
      BY <2>1, <1>3, <1>6 DEF ExportsTo, Put
    <3>2. \A y \in DOMAIN x : \E z \in Symbols(f, y) : x[y] = [by |-> f, sym |-> z]
      <4> SUFFICES ASSUME NEW y \in DOMAIN x PROVE \E z \in Symbols(f, y) : x[y] = [by |-> f, sym |-> z]
        OBVIOUS
      <4>1. CASE y = d.name
        BY <4>1, <1>7 DEF Put
      <4>2. CASE y # d.name
        BY <4>2, <1>3 DEF ExportsTo, Put
      <4> QED
        BY <4>1, <4>2
    <3>3. E2[f].exports = x
      BY <2>1, <1>9
    <3> HIDE DEF x, e
    <3> QED
      BY <3>1, <3>2, <3>3 DEF ExportsTo
  <2>2. CASE ~d.pub
    BY <2>2, <1>3, <1>6, <1>9 DEF ExportsTo
  <2> QED
    BY <2>1, <2>2
<1>16. ModuleFrame(g, E2)
  BY <1>3, <1>4, <1>8, <1>9, <1>14, <1>15 DEF ModuleFrame
<1>17. FrameRight(k, g, E2)
  BY <1>11, <1>12, <1>13, <1>16 DEF FrameRight
<1> QED
  BY <1>8, <1>9, <1>10, <1>17 DEF g, E2

\* The frame of a file nothing of which has been looked at.
LEMMA NewFrame ==
  ASSUME IsTree(p), NEW E, NEW k, NEW t \in Paths, Readable(t), NEW m,
         k = 1 => t = Root /\ ImportsOf(Root) # {},
         k # 1 => /\ t \in DOMAIN E /\ E[t].open /\ E[t].exports = Empty
                  /\ m = t[2] /\ t = Resolve(m)
  PROVE  FrameRight(k, Frame(t, m, Is(t)), E)
<1> DEFINE g == Frame(t, m, Is(t))
<1>1. /\ IsFrame(g) /\ g.path = t /\ g.prefix = m /\ g.items = Is(t) /\ g.at = 1 /\ g.ok = TRUE
      /\ g.decls = <<>> /\ g.self = Empty /\ g.aliases = Empty /\ g.exposed = Empty
  BY DEF Frame, IsFrame
<1> HIDE DEF g
<1>2. Len(Is(t)) \in Nat /\ DOMAIN Is(t) = 1..Len(Is(t))
  BY ImportsRead
<1>3. ImportsTo(t, 1) = {} /\ DeclsTo(t, 1) = {}
  BY <1>2 DEF ImportsTo, DeclsTo
<1>4. PublicTo(t, 1) = {} /\ Imported(t, 1) = {}
  BY <1>3 DEF PublicTo, Imported
<1>5. DOMAIN Empty = {}
  BY DEF Empty
<1>6. Placed(g)
  <2>1. 1 \in 1..End(t)
    BY <1>2 DEF End
  <2>2. g.ok \in BOOLEAN
    BY <1>1
  <2> QED
    BY <2>1, <2>2, <1>1 DEF Placed
<1>7. Declared(g)
  <2>1. <<>> \in Seq(Nat) /\ DOMAIN <<>> = {}
    OBVIOUS
  <2> QED
    BY <2>1, <1>1, <1>3 DEF Declared
<1>8. Accepted(g, E)
  BY <1>1, <1>3, <1>4, <1>5 DEF Accepted, AliasesTo, ExposedOf
<1>9. SelfTo(Empty, t, 1) /\ ExportsTo(Empty, t, 1)
  BY <1>3, <1>4, <1>5 DEF SelfTo, ExportsTo
<1>10. k = 1 => RootFrame(g)
  BY <1>1 DEF RootFrame
<1>11. k # 1 => ModuleFrame(g, E)
  BY <1>1, <1>9 DEF ModuleFrame
<1> QED
  BY <1>6, <1>7, <1>8, <1>10, <1>11 DEF FrameRight, g

-----------------------------------------------------------------------------
(* The end of a file *)

\* The exports of an accepted module are its public names.
LEMMA PublicIs ==
  ASSUME IsTree(p), NEW E, ClosedRight(E), NEW g \in ClosedOk(E)
  PROVE  Public(g) = DOMAIN E[g].exports
<1>1. g \in Paths /\ Readable(g) /\ DOMAIN E[g].exports = {Is(g)[i].name : i \in PublicTo(g, End(g))}
  BY DEF ClosedRight, ExportsTo
<1>2. All(g, "decl") = {Is(g)[i] : i \in DeclsTo(g, End(g))}
  BY <1>1, ImportsRead
<1>3. Public(g) = {Is(g)[i].name : i \in PublicTo(g, End(g))}
  BY <1>2 DEF Public, PublicTo
<1> QED
  BY <1>1, <1>3

\* At the end of a file its aliases stand for what they should.
LEMMA AliasesEnd ==
  ASSUME IsTree(p), NEW E, ClosedRight(E), NEW k, NEW fr, FrameRight(k, fr, E),
         fr.ok, fr.at = End(fr.path), NEW x
  PROVE  /\ x \in DOMAIN fr.aliases <=> Aliased(fr.path, x) # Nowhere
         /\ x \in DOMAIN fr.aliases =>
              fr.aliases[x] = Aliased(fr.path, x) /\ fr.aliases[x] \in ClosedOk(E)
<1> DEFINE f == fr.path
           n == End(f)
<1>1. f \in Paths /\ Readable(f)
  BY DEF FrameRight, Placed
<1>2. Imported(f, n) \subseteq ClosedOk(E) /\ AliasesTo(fr.aliases, f, n)
  BY DEF FrameRight, Accepted
<1>3. CASE x \in DOMAIN fr.aliases
  <2>1. PICK i \in Given(f, x, n) : /\ \A j \in Given(f, x, n) : j <= i
                                    /\ fr.aliases[x] = Resolve(Is(f)[i].of)
    BY <1>2, <1>3 DEF AliasesTo
  <2>2. fr.aliases[x] = Aliased(f, x)
    BY <2>1, <1>1, AliasedIs
  <2>3. fr.aliases[x] \in Imported(f, n)
    BY <2>1 DEF Given, Imported
  <2>4. fr.aliases[x] \in ClosedOk(E) /\ fr.aliases[x] # Nowhere
    BY <2>3, <1>2, PathsAreSomewhere DEF ClosedRight
  <2> QED
    BY <1>3, <2>2, <2>4
<1>4. CASE x \notin DOMAIN fr.aliases
  <2>1. Given(f, x, n) = {}
    BY <1>2, <1>4 DEF AliasesTo, Given
  <2> QED
    BY <2>1, <1>1, <1>4, AliasedIs
<1> QED
  BY <1>3, <1>4

\* A use is refused just when it is not legitimate.
LEMMA RefusedIs ==
  ASSUME IsTree(p), ClosedRight(entries), NEW k, NEW fr, FrameRight(k, fr, entries),
         fr.ok, fr.at = End(fr.path), NEW u
  PROVE  Refused(fr, u) <=> ~Legitimate(fr.path, u)
<1>1. /\ u.via \in DOMAIN fr.aliases <=> Aliased(fr.path, u.via) # Nowhere
      /\ u.via \in DOMAIN fr.aliases =>
           fr.aliases[u.via] = Aliased(fr.path, u.via) /\ fr.aliases[u.via] \in ClosedOk(entries)
  BY AliasesEnd
<1>2. u.via \in DOMAIN fr.aliases => DOMAIN Exports(fr, u.via) = Public(Aliased(fr.path, u.via))
  BY <1>1, PublicIs DEF Exports
<1> QED
  BY <1>1, <1>2 DEF Refused, Legitimate

\* The symbols a use of u in f may be given.
UseRight(f, u, sym) ==
  LET x == AsWritten(u) IN
  IF Aliased(f, u.via) # Nowhere THEN sym \in Symbols(Aliased(f, u.via), u.name)
  ELSE IF u.via = <<>> /\ u.kind = "generic" THEN sym = x
  ELSE IF f # Root /\ (\E d \in All(f, "decl") : d.name = x) THEN sym \in Symbols(f, x)
  ELSE \/ \E g \in Paths : Offering(f, x) = {g} /\ sym \in Symbols(g, x)
       \/ (\A g \in Paths : Offering(f, x) # {g}) /\ sym = x

\* An import has an alias.
LEMMA AliasesAreNames ==
  ASSUME IsTree(p), NEW f \in Paths, Readable(f)
  PROVE  Aliased(f, <<>>) = Nowhere
<1>1. Is(f) \in Seq(Items) /\ Len(Is(f)) \in Nat /\ DOMAIN Is(f) = 1..Len(Is(f))
  BY ImportsRead
<1>2. \A i \in DOMAIN Is(f) : Is(f)[i] \in Items
  <2> DEFINE is == Is(f)
             T == Items
  <2>1. is \in Seq(T)
    BY <1>1
  <2> HIDE DEF is, T
  <2>2. \A i \in DOMAIN is : is[i] \in T
    BY <2>1
  <2> QED
    BY <2>2 DEF is, T
<1>3. \A i \in DOMAIN Is(f) : Is(f)[i].kind = "import" => Is(f)[i].as # <<>>
  BY <1>2 DEF Items, Decls, Name
<1>4. Given(f, <<>>, End(f)) = {}
  BY <1>3 DEF Given, ImportsTo
<1> QED
  BY <1>4, AliasedIs

\* A use that is not refused is given one of the symbols it may be given.
LEMMA RewrittenRight ==
  ASSUME IsTree(p), ClosedRight(entries), NEW k, NEW fr, FrameRight(k, fr, entries),
         fr.ok, fr.at = End(fr.path), k # 1 => fr.path # Root, NEW u, ~Refused(fr, u)
  PROVE  UseRight(fr.path, u, Rewritten(fr, u))
<1> DEFINE f == fr.path
           x == AsWritten(u)
           S == Imported(f, End(f))
<1>1. f \in Paths /\ Readable(f)
  BY DEF FrameRight, Placed
<1>2. S \subseteq ClosedOk(entries) /\ ExposedOf(fr.exposed, S, entries)
  BY DEF FrameRight, Accepted
<1>3. ImportsOf(f) = S /\ All(f, "decl") = {Is(f)[i] : i \in DeclsTo(f, End(f))}
  BY <1>1, ImportsRead
<1>4. \A g \in ClosedOk(entries) : \A y \in DOMAIN entries[g].exports : entries[g].exports[y].sym \in Symbols(g, y)
  <2> SUFFICES ASSUME NEW g \in ClosedOk(entries), NEW y \in DOMAIN entries[g].exports
               PROVE  entries[g].exports[y].sym \in Symbols(g, y)
    OBVIOUS
  <2>1. PICK s \in Symbols(g, y) : entries[g].exports[y] = [by |-> g, sym |-> s]
    BY DEF ClosedRight, ExportsTo
  <2> QED
    BY <2>1
<1>5. /\ u.via \in DOMAIN fr.aliases <=> Aliased(f, u.via) # Nowhere
      /\ u.via \in DOMAIN fr.aliases =>
           fr.aliases[u.via] = Aliased(f, u.via) /\ fr.aliases[u.via] \in ClosedOk(entries)
  BY AliasesEnd
<1>6. CASE Aliased(f, u.via) # Nowhere
  <2>1. u.via # <<>>
    BY <1>1, <1>6, AliasesAreNames
  <2>2. u.name \in DOMAIN entries[Aliased(f, u.via)].exports
    BY <2>1, <1>5, <1>6 DEF Refused, Exports
  <2>3. Rewritten(fr, u) = entries[Aliased(f, u.via)].exports[u.name].sym
    BY <2>1, <1>5, <1>6 DEF Rewritten, Exports
  <2> QED
    BY <2>2, <2>3, <1>4, <1>5, <1>6 DEF UseRight
<1>7. CASE Aliased(f, u.via) = Nowhere /\ u.via = <<>> /\ u.kind = "generic"
  BY <1>7 DEF UseRight, Rewritten
<1>8. CASE Aliased(f, u.via) = Nowhere /\ ~(u.via = <<>> /\ u.kind = "generic")
  <2>1. Rewritten(fr, u) = Bare(fr, x)
    BY <1>5, <1>8 DEF Rewritten, AsWritten
  <2>2. x \in DOMAIN fr.self <=> f # Root /\ \E d \in All(f, "decl") : d.name = x
    <3>1. CASE k = 1
      BY <3>1 DEF FrameRight, RootFrame, Empty
    <3>2. CASE k # 1
      BY <3>2, <1>3 DEF FrameRight, ModuleFrame, SelfTo
    <3> QED
      BY <3>1, <3>2
  <2>3. CASE x \in DOMAIN fr.self
    <3>1. k # 1
      BY <2>2, <2>3 DEF FrameRight, RootFrame
    <3>2. fr.self[x] \in Symbols(f, x)
      BY <2>3, <3>1 DEF FrameRight, ModuleFrame, SelfTo
    <3>3. Bare(fr, x) = fr.self[x]
      BY <2>3 DEF Bare
    <3> QED
      BY <2>1, <2>2, <2>3, <3>2, <3>3, <1>8 DEF UseRight
  <2>4. CASE x \notin DOMAIN fr.self
    <3>1. Offering(f, x) = Offer(S, x, entries)
      <4>1. \A g \in S : Public(g) = DOMAIN entries[g].exports
        BY <1>2, PublicIs
      <4> QED
        BY <4>1, <1>3 DEF Offering, Offer
    <3>2. CASE x \in DOMAIN fr.exposed /\ fr.exposed[x] # Ambiguous
      <4>1. PICK g \in S : Offer(S, x, entries) = {g} /\ fr.exposed[x] = entries[g].exports[x]
        BY <3>2, <1>2 DEF ExposedOf
      <4>2. g \in ClosedOk(entries) /\ g \in Paths /\ x \in DOMAIN entries[g].exports
        BY <4>1, <1>2 DEF Offer, ClosedRight
      <4>3. Bare(fr, x) \in Symbols(g, x)
        BY <2>4, <3>2, <4>1, <4>2, <1>4 DEF Bare
      <4> QED
        BY <2>1, <2>2, <2>4, <3>1, <4>1, <4>2, <4>3, <1>8 DEF UseRight
    <3>3. CASE x \in DOMAIN fr.exposed /\ fr.exposed[x] = Ambiguous
      <4>1. PICK g, h \in Offer(S, x, entries) : g # h
        BY <3>3, <1>2 DEF ExposedOf
      <4>2. \A e \in Paths : Offering(f, x) # {e}
        BY <4>1, <3>1
      <4>3. Bare(fr, x) = x
        BY <2>4, <3>3 DEF Bare
      <4> QED
        BY <2>1, <2>2, <2>4, <4>2, <4>3, <1>8 DEF UseRight
    <3>4. CASE x \notin DOMAIN fr.exposed
      <4>1. Offer(S, x, entries) = {}
        BY <3>4, <1>2 DEF ExposedOf, Offer
      <4>2. \A e \in Paths : Offering(f, x) # {e}
        BY <4>1, <3>1
      <4>3. Bare(fr, x) = x
        BY <2>4, <3>4 DEF Bare
      <4> QED
        BY <2>1, <2>2, <2>4, <4>2, <4>3, <1>8 DEF UseRight
    <3> QED
      BY <3>2, <3>3, <3>4
  <2> QED
    BY <2>3, <2>4
<1> QED
  BY <1>6, <1>7, <1>8

-----------------------------------------------------------------------------
(* The stack *)

StackRight(S, E) ==
  /\ S \in Seq(Among(S))
  /\ \A k \in DOMAIN S : FrameRight(k, S[k], E)
  /\ \A k \in DOMAIN S : k < Len(S) =>
       /\ ImportAt(S[k].path, S[k].at)
       /\ Resolve(Is(S[k].path)[S[k].at].of) = S[k + 1].path
  /\ \A j, k \in DOMAIN S : j < k =>
       /\ S[k].path \in Beneath(S[j].path)
       /\ j > 1 => S[j].path # S[k].path

LEMMA SeqOfItsOwn ==
  ASSUME NEW T, NEW s \in Seq(T)
  PROVE  s \in Seq(Among(s))
<1>1. Len(s) \in Nat /\ s = [i \in 1..Len(s) |-> s[i]] /\ DOMAIN s = 1..Len(s)
  OBVIOUS
<1>2. \A i \in 1..Len(s) : s[i] \in Among(s)
  BY <1>1 DEF Among
<1> DEFINE A == Among(s)
           n == Len(s)
<1> HIDE DEF A
<1>3. [i \in 1..n |-> s[i]] \in Seq(A)
  BY <1>1, <1>2 DEF A
<1> QED
  BY <1>1, <1>3 DEF A

\* The first m frames of the stack, with g for the last of them.
Spliced(S2, S, m, g) ==
  /\ S2 \in Seq(Among(S2)) /\ Len(S2) = m /\ DOMAIN S2 = 1..m
  /\ \A k \in 1..(m - 1) : S2[k] = S[k]
  /\ S2[m] = g

LEMMA ReplacedSplices ==
  ASSUME NEW S, S \in Seq(Among(S)), S # <<>>, NEW g
  PROVE  Len(S) \in DOMAIN S /\ Spliced([S EXCEPT ![Len(S)] = g], S, Len(S), g)
<1> DEFINE A == Among(S)
           T == A \union {g}
           n == Len(S)
           S2 == [S EXCEPT ![n] = g]
<1>1. S \in Seq(A)
  OBVIOUS
<1> HIDE DEF A
<1>2. n \in Nat \ {0} /\ DOMAIN S = 1..n /\ n \in 1..n
  BY <1>1
<1>3. Len(S2) = n /\ DOMAIN S2 = 1..n /\ S2[n] = g /\ \A k \in 1..(n - 1) : S2[k] = S[k]
  BY <1>1, <1>2
<1>4. S2 \in Seq(T)
  BY <1>1, <1>2
<1> HIDE DEF T, S2
<1>5. S2 \in Seq(Among(S2))
  BY <1>4, SeqOfItsOwn
<1> QED
  BY <1>2, <1>3, <1>5 DEF Spliced, S2

LEMMA PoppedSplices ==
  ASSUME NEW S, S \in Seq(Among(S)), Len(S) > 1, NEW g
  PROVE  /\ Len(S) - 1 \in DOMAIN S
         /\ Spliced([SubSeq(S, 1, Len(S) - 1) EXCEPT ![Len(S) - 1] = g], S, Len(S) - 1, g)
<1> DEFINE A == Among(S)
           T == A \union {g}
           n == Len(S)
           B == SubSeq(S, 1, n - 1)
           S2 == [B EXCEPT ![n - 1] = g]
<1>1. S \in Seq(A)
  OBVIOUS
<1> HIDE DEF A
<1>2. n \in Nat /\ n > 1 /\ DOMAIN S = 1..n /\ n - 1 \in 1..(n - 1) /\ n - 1 \in 1..n /\ n - 1 \in Nat
  BY <1>1
<1>3. /\ B \in Seq(A) /\ Len(B) = n - 1 /\ DOMAIN B = 1..(n - 1)
      /\ \A k \in 1..(n - 1) : B[k] = S[k]
  BY <1>1, <1>2
<1> HIDE DEF B
<1> DEFINE m == n - 1
<1>3a. m \in Nat /\ m \in 1..m /\ \A k \in 1..(m - 1) : k \in 1..m /\ k # m
  <2>1. n \in Nat /\ n > 1
    BY <1>2
  <2> HIDE DEF n
  <2> QED
    BY <2>1
<1>3b. B \in Seq(A) /\ Len(B) = m /\ DOMAIN B = 1..m /\ \A k \in 1..m : B[k] = S[k]
  BY <1>3
<1>3c. S2 = [B EXCEPT ![m] = g]
  OBVIOUS
<1> HIDE DEF m, S2
<1>4. S2 \in Seq(T) /\ Len(S2) = m /\ DOMAIN S2 = 1..m
  BY <1>3a, <1>3b, <1>3c
<1>5. S2[m] = g /\ \A k \in 1..m : k # m => S2[k] = S[k]
  BY <1>3a, <1>3b, <1>3c
<1>5a. \A k \in 1..(m - 1) : S2[k] = S[k]
  BY <1>3a, <1>5
<1> HIDE DEF T, S2
<1>6. S2 \in Seq(Among(S2))
  BY <1>4, SeqOfItsOwn
<1>7. m \in DOMAIN S /\ Spliced(S2, S, m, g)
  BY <1>2, <1>4, <1>5, <1>5a, <1>6 DEF Spliced, m
<1> QED
  BY <1>7 DEF S2, B, m

\* The stack cut off at its frame m, with that frame replaced.
LEMMA SplicedRight ==
  ASSUME NEW S, NEW E, StackRight(S, E), NEW E2, Grows(E, E2), NEW m \in DOMAIN S,
         \A k \in 2..(m - 1) : S[k].path \in DOMAIN E2 /\ E2[S[k].path] = E[S[k].path],
         NEW g, g.path = S[m].path, FrameRight(m, g, E2), NEW S2, Spliced(S2, S, m, g)
  PROVE  StackRight(S2, E2)
<1> DEFINE A == Among(S)
<1>1. S \in Seq(A)
  BY DEF StackRight
<1> HIDE DEF A
<1>2. Len(S) \in Nat /\ DOMAIN S = 1..Len(S) /\ m \in Nat /\ m >= 1 /\ m <= Len(S)
  BY <1>1
<1>3. /\ S2 \in Seq(Among(S2)) /\ Len(S2) = m /\ DOMAIN S2 = 1..m
      /\ \A k \in 1..(m - 1) : S2[k] = S[k]
      /\ S2[m] = g
  BY DEF Spliced
<1>4. /\ \A k \in DOMAIN S : FrameRight(k, S[k], E)
      /\ \A k \in DOMAIN S : k < Len(S) =>
           /\ ImportAt(S[k].path, S[k].at)
           /\ Resolve(Is(S[k].path)[S[k].at].of) = S[k + 1].path
      /\ \A j, k \in DOMAIN S : j < k =>
           /\ S[k].path \in Beneath(S[j].path)
           /\ j > 1 => S[j].path # S[k].path
  BY DEF StackRight
<1>5. \A k \in 1..m : k \in DOMAIN S /\ S2[k].path = S[k].path
  BY <1>2, <1>3
<1>6. ASSUME NEW k \in 1..m PROVE FrameRight(k, S2[k], E2)
  <2>1. CASE k = m
    BY <2>1, <1>3
  <2>2. CASE k # m
    <3>1. k \in 1..(m - 1) /\ k \in DOMAIN S /\ (k # 1 => k \in 2..(m - 1))
      BY <2>2, <1>2
    <3>2. S2[k] = S[k] /\ FrameRight(k, S[k], E)
      BY <3>1, <1>3, <1>4
    <3>3. k # 1 => S[k].path \in DOMAIN E2 /\ E2[S[k].path] = E[S[k].path]
      BY <3>1
    <3> QED
      BY <3>2, <3>3, FrameKept
  <2> QED
    BY <2>1, <2>2
<1>7. ASSUME NEW k \in 1..m, k < m
      PROVE  /\ ImportAt(S2[k].path, S2[k].at)
             /\ Resolve(Is(S2[k].path)[S2[k].at].of) = S2[k + 1].path
  <2>1. k \in 1..(m - 1) /\ k \in DOMAIN S /\ k < Len(S) /\ k + 1 \in 1..m
    BY <1>7, <1>2
  <2> QED
    BY <2>1, <1>3, <1>4, <1>5
<1>8. \A j, k \in 1..m : j < k =>
        /\ S2[k].path \in Beneath(S2[j].path)
        /\ j > 1 => S2[j].path # S2[k].path
  BY <1>4, <1>5
<1> QED
  BY <1>3, <1>6, <1>7, <1>8 DEF StackRight

\* The stack with a frame more: no module on it is met again, for it would be
\* found open.
LEMMA PushedRight ==
  ASSUME IsTree(p), NEW S, NEW E, StackRight(S, E), NEW E2, Grows(E, E2),
         \A k \in 2..Len(S) : S[k].path \in DOMAIN E2 /\ E2[S[k].path] = E[S[k].path],
         NEW g, g.path \in Paths, FrameRight(Len(S) + 1, g, E2),
         S # <<>> => /\ ImportAt(S[Len(S)].path, S[Len(S)].at)
                     /\ Resolve(Is(S[Len(S)].path)[S[Len(S)].at].of) = g.path,
         \A k \in 2..Len(S) : S[k].path # g.path
  PROVE  StackRight(Append(S, g), E2)
<1> DEFINE A == Among(S)
           n == Len(S)
           S2 == Append(S, g)
           T == A \union {g}
<1>1. S \in Seq(A)
  BY DEF StackRight
<1> HIDE DEF A
<1>2. n \in Nat /\ DOMAIN S = 1..n
  BY <1>1
<1>3. /\ S2 \in Seq(T) /\ Len(S2) = n + 1 /\ DOMAIN S2 = 1..(n + 1)
      /\ \A k \in 1..n : S2[k] = S[k]
      /\ S2[n + 1] = g
  BY <1>1
<1> HIDE DEF T, S2
<1>4. S2 \in Seq(Among(S2))
  BY <1>3, SeqOfItsOwn
<1>5. /\ \A k \in 1..n : FrameRight(k, S[k], E)
      /\ \A k \in 1..n : k < n =>
           /\ ImportAt(S[k].path, S[k].at)
           /\ Resolve(Is(S[k].path)[S[k].at].of) = S[k + 1].path
      /\ \A j, k \in 1..n : j < k =>
           /\ S[k].path \in Beneath(S[j].path)
           /\ j > 1 => S[j].path # S[k].path
  BY <1>2 DEF StackRight
<1>6. ASSUME NEW k \in 1..(n + 1) PROVE FrameRight(k, S2[k], E2)
  <2>1. CASE k = n + 1
    BY <2>1, <1>3
  <2>2. CASE k # n + 1
    <3>1. k \in 1..n /\ (k # 1 => k \in 2..n)
      BY <2>2, <1>2
    <3>2. S2[k] = S[k] /\ FrameRight(k, S[k], E)
      BY <3>1, <1>3, <1>5
    <3>3. k # 1 => S[k].path \in DOMAIN E2 /\ E2[S[k].path] = E[S[k].path]
      BY <3>1
    <3> QED
      BY <3>2, <3>3, FrameKept
  <2> QED
    BY <2>1, <2>2
<1>7. ASSUME NEW k \in 1..(n + 1), k < n + 1
      PROVE  /\ ImportAt(S2[k].path, S2[k].at)
             /\ Resolve(Is(S2[k].path)[S2[k].at].of) = S2[k + 1].path
  <2>1. k \in 1..n /\ S2[k] = S[k] /\ S # <<>>
    BY <1>7, <1>2, <1>3
  <2>2. CASE k = n
    BY <2>1, <2>2, <1>3
  <2>3. CASE k # n
    <3>1. k < n /\ k + 1 \in 1..n
      BY <2>1, <2>3, <1>2
    <3> QED
      BY <2>1, <3>1, <1>3, <1>5
  <2> QED
    BY <2>2, <2>3
<1>8. ASSUME n # 0 PROVE g.path \in Beneath(S[n].path)
  <2>1. n \in 1..n /\ S # <<>>
    BY <1>2, <1>8
  <2>2. Placed(S[n]) /\ ImportAt(S[n].path, S[n].at)
    BY <2>1, <1>5 DEF FrameRight
  <2>3. S[n].at \in Nat /\ S[n].path \in Paths /\ Readable(S[n].path)
    BY <2>2, ImportsRead DEF Placed, End
  <2>4. g.path \in ImportsOf(S[n].path)
    BY <2>1, <2>2, <2>3, ImportPassed
  <2>5. g.path # Nowhere
    BY PathsAreSomewhere
  <2> QED
    BY <2>4, <2>5, BeneathStarts
<1>9. ASSUME NEW j \in 1..(n + 1), NEW k \in 1..(n + 1), j < k
      PROVE  /\ S2[k].path \in Beneath(S2[j].path)
             /\ j > 1 => S2[j].path # S2[k].path
  <2>1. j \in 1..n /\ S2[j] = S[j] /\ n # 0
    BY <1>2, <1>3, <1>9
  <2>2. CASE k \in 1..n
    BY <2>1, <2>2, <1>3, <1>5, <1>9
  <2>3. CASE k = n + 1
    <3>1. S2[k] = g
      BY <2>3, <1>3
    <3>2. j > 1 => S[j].path # g.path
      <4>1. j > 1 => j \in 2..n
        BY <2>1, <1>2
      <4> QED
        BY <4>1
    <3>3. CASE j = n
      BY <2>1, <3>1, <3>2, <3>3, <1>8
    <3>4. CASE j # n
      <4>1. n \in 1..n /\ j < n /\ S # <<>>
        BY <2>1, <3>4, <1>2
      <4>2. S[n].path \in Beneath(S[j].path)
        BY <4>1, <2>1, <1>5
      <4>3. Beneath(S[n].path) \subseteq Beneath(S[j].path)
        BY <4>2, BeneathWithin
      <4> QED
        BY <2>1, <3>1, <3>2, <4>3, <1>8
    <3> QED
      BY <3>3, <3>4
  <2> QED
    BY <2>2, <2>3, <1>2
<1> QED
  BY <1>3, <1>4, <1>6, <1>7, <1>9 DEF StackRight, S2

-----------------------------------------------------------------------------
(* The inductive invariant *)

\* A module that has been accepted.
Finished(f, E) ==
  /\ Readable(f) /\ f = Resolve(f[2])
  /\ Nowhere \notin ImportsOf(f) /\ f \notin Beneath(f) /\ Beneath(f) \subseteq ClosedOk(E)
  /\ \A d \in All(f, "decl") : \A i \in DOMAIN d.uses : Legitimate(f, d.uses[i])
  /\ ExportsTo(E[f].exports, f, End(f))

EntriesRight(E, S) ==
  /\ DOMAIN E \subseteq Beneath(Root)
  /\ \A f \in DOMAIN E : IsEntry(E[f]) /\ (E[f].open => \E k \in 2..Len(S) : S[k].path = f)
  /\ \A f \in ClosedOk(E) : Finished(f, E)

Shape ==
  /\ verdict \in {"none", "ok", "failed"} /\ errors \in BOOLEAN
  /\ stack # <<>> => verdict = "none"
  /\ stack = <<>> /\ verdict = "none" => entries = Empty /\ merged = <<>> /\ errors = FALSE

\* Nothing goes wrong for a program that is sound.
NoFault(E, S, err, v) ==
  Sound => /\ err = FALSE /\ v # "failed"
           /\ \A k \in DOMAIN S : S[k].ok
           /\ \A f \in DOMAIN E : E[f].open \/ E[f].ok

AcceptedSound(E, v) == v = "ok" => Sound /\ Beneath(Root) \subseteq ClosedOk(E)

\* A declaration of the program as it should be rewritten.
MergedRight(m) ==
  /\ m.at \in DeclsTo(m.of, End(m.of)) /\ m.decl = Is(m.of)[m.at]
  /\ IF m.of = Root THEN m.sym = m.decl.name ELSE m.sym \in Symbols(m.of, m.decl.name)
  /\ DOMAIN m.uses = DOMAIN m.decl.uses
  /\ \A i \in DOMAIN m.uses : UseRight(m.of, m.decl.uses[i], m.uses[i])

\* M is made of the declarations of the files in T.
MergedOf(M, T) ==
  /\ M \in Seq(Among(M))
  /\ \A k \in DOMAIN M : M[k].of \in T /\ MergedRight(M[k])
  /\ \A j, k \in DOMAIN M : j < k =>
       /\ M[j].of = M[k].of => M[j].at < M[k].at
       /\ M[k].of \notin Beneath(M[j].of)
  /\ \A f \in T : \A i \in DeclsTo(f, End(f)) : \E k \in DOMAIN M : M[k].of = f /\ M[k].at = i

InMerged(E, v) == ClosedOk(E) \union (IF v = "ok" THEN {Root} ELSE {})

MergedSoFar(M, E, v) == Sound => MergedOf(M, InMerged(E, v))

IInv ==
  /\ IsTree(p) /\ Shape
  /\ StackRight(stack, entries) /\ EntriesRight(entries, stack)
  /\ NoFault(entries, stack, errors, verdict) /\ AcceptedSound(entries, verdict)
  /\ MergedSoFar(merged, entries, verdict)

-----------------------------------------------------------------------------
(* A step leaves the program as it is, and all that is said of it alone *)

\* What is loaded depends on nothing but the program.
LEMMA LoadKept ==
  ASSUME p' = p
  PROVE  /\ Paths' = Paths
         /\ \A x : Load(x)' = Load(x)
         /\ \A x : Is(x)' = Is(x)
         /\ \A x : Resolve(x)' = Resolve(x)
<1>1. Expand' = Expand
  BY DEF Expand, Expanded, Paths, LoadItem, Opened, Failed
<1>2. \A x : Load(x)' = Load(x)
  BY <1>1 DEF Load, Paths, Failed
<1>3. \A x : Resolve(x)' = Resolve(x)
  BY DEF Resolve, Paths
<1> QED
  BY <1>2, <1>3 DEF Paths, Is

LEMMA TreeKept ==
  ASSUME p' = p
  PROVE  /\ \A x : Readable(x)' <=> Readable(x)
         /\ \A x, kind : All(x, kind)' = All(x, kind)
         /\ \A x : ImportsOf(x)' = ImportsOf(x)
         /\ \A x : Beneath(x)' = Beneath(x)
         /\ \A x : Public(x)' = Public(x)
         /\ \A x, a : Aliased(x, a)' = Aliased(x, a)
<1>0. /\ Paths' = Paths
      /\ \A x : Load(x)' = Load(x)
      /\ \A x : Resolve(x)' = Resolve(x)
  BY LoadKept
<1>1. \A x, kind : Has(x, kind)' = Has(x, kind)
  BY DEF Has
<1>2. \A S, next : Reach(S, next)' = Reach(S, next)
  BY <1>0 DEF Reach, Closed
<1>3. \A x : Parts(x)' = Parts(x)
  BY <1>0, <1>1, <1>2 DEF Parts
<1>4. \A x : Readable(x)' <=> Readable(x)
  BY <1>0, <1>1, <1>3 DEF Readable
<1>5. \A x, kind : All(x, kind)' = All(x, kind)
  BY <1>1, <1>3 DEF All
<1>6. \A x : ImportsOf(x)' = ImportsOf(x)
  BY <1>0, <1>5 DEF ImportsOf
<1>7. \A x : Beneath(x)' = Beneath(x)
  BY <1>0, <1>2, <1>6 DEF Beneath
<1>8. \A x : Public(x)' = Public(x)
  BY <1>5 DEF Public
<1>9. \A x, a : Aliased(x, a)' = Aliased(x, a)
  <2> SUFFICES ASSUME NEW x, NEW a PROVE Aliased(x, a)' = Aliased(x, a)
    OBVIOUS
  <2>1. Load(x)' = Load(x)
    BY <1>0
  <2> QED
    BY <2>1, <1>0 DEF Aliased
<1> QED
  BY <1>4, <1>5, <1>6, <1>7, <1>8, <1>9

LEMMA NamesKept ==
  ASSUME p' = p
  PROVE  /\ \A f : End(f)' = End(f)
         /\ \A f, n : ImportsTo(f, n)' = ImportsTo(f, n)
         /\ \A f, n : DeclsTo(f, n)' = DeclsTo(f, n)
         /\ \A f, n : Imported(f, n)' = Imported(f, n)
         /\ \A f, x, n : Given(f, x, n)' = Given(f, x, n)
         /\ \A f, x : Symbols(f, x)' = Symbols(f, x)
         /\ \A e, f, n : ExportsTo(e, f, n)' <=> ExportsTo(e, f, n)
         /\ \A s, f, n : SelfTo(s, f, n)' <=> SelfTo(s, f, n)
<1>0. /\ \A x : Is(x)' = Is(x)
      /\ \A x : Resolve(x)' = Resolve(x)
  BY LoadKept
<1>1. /\ \A f : End(f)' = End(f)
      /\ \A f, n : ImportsTo(f, n)' = ImportsTo(f, n)
      /\ \A f, n : DeclsTo(f, n)' = DeclsTo(f, n)
  BY <1>0 DEF End, ImportsTo, DeclsTo
<1>2. /\ \A f, n : Imported(f, n)' = Imported(f, n)
      /\ \A f, x, n : Given(f, x, n)' = Given(f, x, n)
      /\ \A f, x, n : Named(f, x, n)' = Named(f, x, n)
      /\ \A f, n : PublicTo(f, n)' = PublicTo(f, n)
  BY <1>0, <1>1 DEF Imported, Given, Named, PublicTo
<1>3. \A f, x : Symbols(f, x)' = Symbols(f, x)
  BY <1>0, <1>1, <1>2 DEF Symbols
<1>4. /\ \A e, f, n : ExportsTo(e, f, n)' <=> ExportsTo(e, f, n)
      /\ \A s, f, n : SelfTo(s, f, n)' <=> SelfTo(s, f, n)
  BY <1>0, <1>1, <1>2, <1>3 DEF ExportsTo, SelfTo
<1> QED
  BY <1>1, <1>2, <1>3, <1>4

LEMMA StackKept ==
  ASSUME p' = p
  PROVE  \A S, E : StackRight(S, E)' <=> StackRight(S, E)
<1>0. /\ Paths' = Paths
      /\ \A x : Is(x)' = Is(x)
      /\ \A x : Resolve(x)' = Resolve(x)
      /\ \A x : Readable(x)' <=> Readable(x)
      /\ \A x : ImportsOf(x)' = ImportsOf(x)
      /\ \A x : Beneath(x)' = Beneath(x)
  BY LoadKept, TreeKept
<1>1. /\ \A f : End(f)' = End(f)
      /\ \A f, n : ImportsTo(f, n)' = ImportsTo(f, n)
      /\ \A f, n : DeclsTo(f, n)' = DeclsTo(f, n)
      /\ \A f, n : Imported(f, n)' = Imported(f, n)
      /\ \A f, x, n : Given(f, x, n)' = Given(f, x, n)
      /\ \A e, f, n : ExportsTo(e, f, n)' <=> ExportsTo(e, f, n)
      /\ \A s, f, n : SelfTo(s, f, n)' <=> SelfTo(s, f, n)
  BY NamesKept
<1>2. \A f, i : ImportAt(f, i)' <=> ImportAt(f, i)
  BY <1>0 DEF ImportAt
<1>4. \A a, f, n : AliasesTo(a, f, n)' <=> AliasesTo(a, f, n)
  BY <1>0, <1>1 DEF AliasesTo
<1>5. /\ \A fr : Placed(fr)' <=> Placed(fr)
      /\ \A fr : Declared(fr)' <=> Declared(fr)
      /\ \A fr, E : Accepted(fr, E)' <=> Accepted(fr, E)
  BY <1>0, <1>1, <1>4 DEF Placed, Declared, Accepted
<1>6. /\ \A fr, E : ModuleFrame(fr, E)' <=> ModuleFrame(fr, E)
      /\ \A fr : RootFrame(fr)' <=> RootFrame(fr)
  BY <1>0, <1>1 DEF ModuleFrame, RootFrame
<1>7. \A k, fr, E : FrameRight(k, fr, E)' <=> FrameRight(k, fr, E)
  BY <1>5, <1>6 DEF FrameRight
<1> QED
  BY <1>0, <1>2, <1>7 DEF StackRight

LEMMA SoundKept ==
  ASSUME p' = p
  PROVE  /\ Sound' <=> Sound
         /\ \A f, u : Legitimate(f, u)' <=> Legitimate(f, u)
<1>1. /\ Paths' = Paths
      /\ \A x : Readable(x)' <=> Readable(x)
      /\ \A x, kind : All(x, kind)' = All(x, kind)
      /\ \A x : ImportsOf(x)' = ImportsOf(x)
      /\ \A x : Beneath(x)' = Beneath(x)
      /\ \A x : Public(x)' = Public(x)
      /\ \A x, a : Aliased(x, a)' = Aliased(x, a)
  BY LoadKept, TreeKept
<1>2. \A f, u : Legitimate(f, u)' <=> Legitimate(f, u)
  BY <1>1 DEF Legitimate
<1>3. Needed' = Needed
  BY <1>1 DEF Needed
<1> QED
  BY <1>1, <1>2, <1>3 DEF Sound

LEMMA EntriesKept ==
  ASSUME p' = p
  PROVE  \A E, S : EntriesRight(E, S)' <=> EntriesRight(E, S)
<1>1. /\ \A x : Is(x)' = Is(x)
      /\ \A x : Resolve(x)' = Resolve(x)
      /\ \A x : Readable(x)' <=> Readable(x)
      /\ \A x, kind : All(x, kind)' = All(x, kind)
      /\ \A x : ImportsOf(x)' = ImportsOf(x)
      /\ \A x : Beneath(x)' = Beneath(x)
      /\ \A f, u : Legitimate(f, u)' <=> Legitimate(f, u)
  BY LoadKept, TreeKept, SoundKept
<1>2. \A f : End(f)' = End(f)
  BY NamesKept
<1>3. \A e, f, n : ExportsTo(e, f, n)' <=> ExportsTo(e, f, n)
  BY NamesKept
<1>4. \A f, E : Finished(f, E)' <=> Finished(f, E)
  BY <1>1, <1>2, <1>3 DEF Finished
<1> QED
  BY <1>1, <1>4 DEF EntriesRight

LEMMA MergedKept ==
  ASSUME p' = p
  PROVE  \A M, T : MergedOf(M, T)' <=> MergedOf(M, T)
<1>1. /\ Paths' = Paths
      /\ \A x : Is(x)' = Is(x)
      /\ \A x, kind : All(x, kind)' = All(x, kind)
      /\ \A x : ImportsOf(x)' = ImportsOf(x)
      /\ \A x : Beneath(x)' = Beneath(x)
      /\ \A x : Public(x)' = Public(x)
      /\ \A x, a : Aliased(x, a)' = Aliased(x, a)
  BY LoadKept, TreeKept
<1>2. /\ \A f : End(f)' = End(f)
      /\ \A f, n : DeclsTo(f, n)' = DeclsTo(f, n)
      /\ \A f, x : Symbols(f, x)' = Symbols(f, x)
  BY NamesKept
<1>2a. \A f, x : Offering(f, x)' = Offering(f, x)
  BY <1>1 DEF Offering
<1>3. \A f, u, s : UseRight(f, u, s)' <=> UseRight(f, u, s)
  <2> SUFFICES ASSUME NEW f, NEW u, NEW s PROVE UseRight(f, u, s)' <=> UseRight(f, u, s)
    OBVIOUS
  <2>1. /\ Aliased(f, u.via)' = Aliased(f, u.via)
        /\ All(f, "decl")' = All(f, "decl")
        /\ Offering(f, AsWritten(u))' = Offering(f, AsWritten(u))
    BY <1>1, <1>2a
  <2> QED
    BY <2>1, <1>1, <1>2 DEF UseRight, Root
<1>4. \A m : MergedRight(m)' <=> MergedRight(m)
  BY <1>1, <1>2, <1>3 DEF MergedRight
<1> QED
  BY <1>1, <1>2, <1>4 DEF MergedOf

-----------------------------------------------------------------------------
(* The declarations that join the others *)

\* The declarations of a file that is done are rewritten as they should be.
LEMMA DeclarationsRight ==
  ASSUME IsTree(p), ClosedRight(entries), NEW k, NEW fr, FrameRight(k, fr, entries),
         fr.ok, fr.at = End(fr.path), k # 1 => fr.path # Root, ~Refusals(fr)
  PROVE  /\ Declarations(fr) \in Seq(Among(Declarations(fr)))
         /\ DOMAIN Declarations(fr) = DOMAIN fr.decls
         /\ \A n \in DOMAIN fr.decls : /\ Declarations(fr)[n].of = fr.path
                                       /\ Declarations(fr)[n].at = fr.decls[n]
                                       /\ MergedRight(Declarations(fr)[n])
<1> DEFINE D == Declarations(fr)
           f == fr.path
           sym(d) == IF d.name \in DOMAIN fr.self THEN fr.self[d.name] ELSE d.name
           uses(d) == [u \in DOMAIN d.uses |-> Rewritten(fr, d.uses[u])]
           one(i, d) == [sym |-> sym(d), uses |-> uses(d), of |-> fr.path, at |-> i, decl |-> d]
<1>1. /\ fr.items = Is(f) /\ fr.decls \in Seq(Nat)
      /\ \A n \in DOMAIN fr.decls : fr.decls[n] \in DeclsTo(f, End(f))
  BY DEF FrameRight, Placed, Declared
<1>2. D = [n \in DOMAIN fr.decls |-> one(fr.decls[n], fr.items[fr.decls[n]])]
  BY DEF Declarations
<1> HIDE DEF D
<1>3. D \in Seq(Among(D)) /\ DOMAIN D = DOMAIN fr.decls
  <2> HIDE DEF one
  <2>1. Len(fr.decls) \in Nat /\ DOMAIN fr.decls = 1..Len(fr.decls)
    BY <1>1
  <2>2. \A n \in DOMAIN fr.decls : D[n] \in Among(D)
    BY <1>2 DEF Among
  <2>3. DOMAIN D = 1..Len(fr.decls) /\ D = [n \in 1..Len(fr.decls) |-> D[n]]
    BY <1>2, <2>1
  <2> DEFINE A == Among(D)
  <2> HIDE DEF A
  <2>4. D \in [1..Len(fr.decls) -> A]
    BY <2>1, <2>2, <2>3 DEF A
  <2>5. D \in Seq(A)
    BY <2>1, <2>4
  <2> QED
    BY <2>1, <2>3, <2>5 DEF A
<1>4. ASSUME NEW n \in DOMAIN fr.decls
      PROVE  D[n].of = f /\ D[n].at = fr.decls[n] /\ MergedRight(D[n])
  <2> DEFINE i == fr.decls[n]
             d == Is(f)[i]
  <2>1. i \in DeclsTo(f, End(f)) /\ fr.items[i] = d
    BY <1>1
  <2>2. D[n] = one(i, d)
    BY <1>1, <1>2
  <2> HIDE DEF i, d
  <2>3. /\ D[n].sym = sym(d) /\ D[n].of = f /\ D[n].at = i /\ D[n].decl = d
        /\ D[n].uses = uses(d)
    <3> HIDE DEF sym, uses, f
    <3> QED
      BY <2>2 DEF f
  <2>4. IF f = Root THEN sym(d) = d.name ELSE sym(d) \in Symbols(f, d.name)
    <3>1. CASE k = 1
      BY <3>1 DEF FrameRight, RootFrame, Empty
    <3>2. CASE k # 1
      <4>1. SelfTo(fr.self, f, End(f)) /\ f # Root
        BY <3>2 DEF FrameRight, ModuleFrame
      <4>2. d.name \in DOMAIN fr.self
        BY <4>1, <2>1 DEF SelfTo, d
      <4> QED
        BY <4>1, <4>2 DEF SelfTo
    <3> QED
      BY <3>1, <3>2
  <2>5. ASSUME NEW u \in DOMAIN d.uses PROVE UseRight(f, d.uses[u], D[n].uses[u])
    <3>1. ~Refused(fr, d.uses[u])
      BY <2>1 DEF Refusals, i
    <3>2. UseRight(f, d.uses[u], Rewritten(fr, d.uses[u]))
      BY <3>1, RewrittenRight
    <3> QED
      BY <2>3, <3>2
  <2>6. DOMAIN D[n].uses = DOMAIN D[n].decl.uses
    BY <2>3
  <2>7. D[n].at \in DeclsTo(D[n].of, End(D[n].of)) /\ D[n].decl = Is(D[n].of)[D[n].at]
    BY <2>1, <2>3 DEF d
  <2>8. MergedRight(D[n])
    <3> HIDE DEF D, sym, one, uses
    <3> QED
      BY <2>3, <2>4, <2>5, <2>6, <2>7 DEF MergedRight
  <2> QED
    BY <2>3, <2>8 DEF i
<1> QED
  BY <1>3, <1>4 DEF D

\* The declarations of one more file join those of the others.
LEMMA MergedJoined ==
  ASSUME NEW M, NEW T, MergedOf(M, T), NEW D, D \in Seq(Among(D)), NEW f, f \notin T,
         \A n \in DOMAIN D : D[n].of = f /\ MergedRight(D[n]),
         \A m, n \in DOMAIN D : m < n => D[m].at < D[n].at,
         \A i \in DeclsTo(f, End(f)) : \E n \in DOMAIN D : D[n].at = i,
         f \notin Beneath(f), \A g \in T : f \notin Beneath(g)
  PROVE  MergedOf(M \o D, T \union {f})
<1> DEFINE A == Among(M)
           B == Among(D)
           C == A \union B
           J == M \o D
           m == Len(M)
           n == Len(D)
<1>1. M \in Seq(A) /\ D \in Seq(B)
  BY DEF MergedOf
<1> HIDE DEF A, B
<1>2. m \in Nat /\ n \in Nat /\ DOMAIN M = 1..m /\ DOMAIN D = 1..n
  BY <1>1
<1>3. M \in Seq(C) /\ D \in Seq(C)
  BY <1>1, <1>2
<1> HIDE DEF C
<1>4. /\ J \in Seq(C) /\ DOMAIN J = 1..(m + n)
      /\ \A k \in 1..m : J[k] = M[k]
      /\ \A k \in (m + 1)..(m + n) : J[k] = D[k - m]
  BY <1>2, <1>3
<1> HIDE DEF J
<1>5. J \in Seq(Among(J))
  BY <1>4, SeqOfItsOwn
<1>6. /\ \A k \in 1..m : M[k].of \in T /\ MergedRight(M[k])
      /\ \A j, k \in 1..m : j < k =>
           /\ M[j].of = M[k].of => M[j].at < M[k].at
           /\ M[k].of \notin Beneath(M[j].of)
      /\ \A g \in T : \A i \in DeclsTo(g, End(g)) : \E k \in 1..m : M[k].of = g /\ M[k].at = i
  BY <1>2 DEF MergedOf
<1>7. /\ \A k \in 1..n : D[k].of = f /\ MergedRight(D[k])
      /\ \A i, j \in 1..n : i < j => D[i].at < D[j].at
      /\ \A i \in DeclsTo(f, End(f)) : \E k \in 1..n : D[k].at = i
  BY <1>2
<1> HIDE DEF m, n
<1>8. \A k \in 1..(m + n) : k \in 1..m \/ (k \in (m + 1)..(m + n) /\ k - m \in 1..n)
  BY <1>2
<1>9. ASSUME NEW k \in 1..(m + n) PROVE J[k].of \in T \union {f} /\ MergedRight(J[k])
  BY <1>4, <1>6, <1>7, <1>8
<1>10. ASSUME NEW j \in 1..(m + n), NEW k \in 1..(m + n), j < k
       PROVE  /\ J[j].of = J[k].of => J[j].at < J[k].at
              /\ J[k].of \notin Beneath(J[j].of)
  <2>1. CASE k \in 1..m
    <3>1. j \in 1..m
      BY <1>2, <1>10, <2>1
    <3> QED
      BY <2>1, <3>1, <1>4, <1>6, <1>10
  <2>2. CASE k \in (m + 1)..(m + n) /\ j \in 1..m
    <3>1. J[j].of \in T /\ J[k].of = f
      BY <2>2, <1>4, <1>6, <1>7, <1>8, <1>2
    <3> QED
      BY <3>1
  <2>3. CASE k \in (m + 1)..(m + n) /\ j \in (m + 1)..(m + n)
    <3>1. k - m \in 1..n /\ j - m \in 1..n /\ j - m < k - m
      BY <2>3, <1>2, <1>10
    <3>2. J[k] = D[k - m] /\ J[j] = D[j - m]
      BY <2>3, <1>4
    <3> QED
      BY <3>1, <3>2, <1>7
  <2> QED
    BY <2>1, <2>2, <2>3, <1>8
<1>11. ASSUME NEW g \in T \union {f}, NEW i \in DeclsTo(g, End(g))
       PROVE  \E k \in 1..(m + n) : J[k].of = g /\ J[k].at = i
  <2>1. CASE g \in T
    <3>1. PICK k \in 1..m : M[k].of = g /\ M[k].at = i
      BY <2>1, <1>6
    <3>2. k \in 1..(m + n)
      BY <1>2
    <3> QED
      BY <3>1, <3>2, <1>4
  <2>2. CASE g = f
    <3>1. PICK k \in 1..n : D[k].at = i
      BY <2>2, <1>7
    <3>2. m + k \in 1..(m + n) /\ m + k \in (m + 1)..(m + n) /\ (m + k) - m = k
      BY <1>2
    <3>3. J[m + k] = D[k] /\ D[k].of = f
      BY <3>2, <1>4, <1>7
    <3> QED
      BY <2>2, <3>1, <3>2, <3>3
  <2> QED
    BY <2>1, <2>2
<1> DEFINE U == T \union {f}
<1> HIDE DEF U
<1>12. MergedOf(J, U)
  <2>1. \A k \in DOMAIN J : J[k].of \in U /\ MergedRight(J[k])
    BY <1>4, <1>9 DEF U
  <2>2. \A j, k \in DOMAIN J : j < k =>
          /\ J[j].of = J[k].of => J[j].at < J[k].at
          /\ J[k].of \notin Beneath(J[j].of)
    BY <1>4, <1>10
  <2>3. \A g \in U : \A i \in DeclsTo(g, End(g)) : \E k \in DOMAIN J : J[k].of = g /\ J[k].at = i
    BY <1>4, <1>11 DEF U
  <2> QED
    BY <1>5, <2>1, <2>2, <2>3 DEF MergedOf
<1> QED
  BY <1>12 DEF J, U

-----------------------------------------------------------------------------
(* What the invariant says of the file at work *)

\* An accepted module exports what it should, and is not the root.
LEMMA ClosedAre ==
  ASSUME NEW E, NEW S, EntriesRight(E, S)
  PROVE  ClosedRight(E) /\ Root \notin ClosedOk(E)
<1>1. \A f \in ClosedOk(E) : f \in Beneath(Root) /\ Finished(f, E)
  BY DEF EntriesRight, ClosedOk
<1>2. ClosedRight(E)
  BY <1>1, BeneathInPaths DEF ClosedRight, Finished
<1> QED
  BY <1>1, <1>2 DEF Finished

LEMMA FinishedKept ==
  ASSUME NEW E, NEW E2, Grows(E, E2), NEW f \in ClosedOk(E), Finished(f, E)
  PROVE  Finished(f, E2)
<1>1. ClosedOk(E) \subseteq ClosedOk(E2) /\ E2[f] = E[f]
  BY GrownClosed DEF Grows
<1> QED
  BY <1>1 DEF Finished

\* The file at work.
LEMMA Working ==
  ASSUME IsTree(p), NEW S, NEW E, StackRight(S, E), S # <<>>
  PROVE  /\ Len(S) \in Nat /\ Len(S) >= 1 /\ DOMAIN S = 1..Len(S) /\ Len(S) \in DOMAIN S
         /\ FrameRight(Len(S), S[Len(S)], E)
         /\ S[Len(S)].path \in Paths /\ Readable(S[Len(S)].path)
         /\ S[Len(S)].items = Is(S[Len(S)].path)
         /\ S[Len(S)].at \in Nat /\ S[Len(S)].at \in 1..End(S[Len(S)].path)
         /\ S[1].path = Root /\ ImportsOf(Root) # {}
         /\ \A k \in 2..Len(S) : /\ k \in DOMAIN S /\ S[k].path \in Beneath(Root)
                                 /\ S[k].path \in DOMAIN E /\ E[S[k].path].open
         /\ \A k \in 2..(Len(S) - 1) : S[k].path # S[Len(S)].path
         /\ S[Len(S)].path \in Needed
<1> DEFINE A == Among(S)
           n == Len(S)
<1>1. S \in Seq(A)
  BY DEF StackRight
<1> HIDE DEF A
<1>2. n \in Nat /\ n >= 1 /\ DOMAIN S = 1..n /\ n \in 1..n /\ 1 \in 1..n
  BY <1>1
<1>3. /\ \A k \in 1..n : FrameRight(k, S[k], E)
      /\ \A j, k \in 1..n : j < k =>
           /\ S[k].path \in Beneath(S[j].path)
           /\ j > 1 => S[j].path # S[k].path
  BY <1>2 DEF StackRight
<1>4. /\ S[n].path \in Paths /\ Readable(S[n].path) /\ S[n].items = Is(S[n].path)
      /\ S[n].at \in 1..End(S[n].path)
  BY <1>2, <1>3 DEF FrameRight, Placed
<1>5. S[n].at \in Nat
  BY <1>4, ImportsRead DEF End
<1>6. S[1].path = Root /\ ImportsOf(Root) # {}
  BY <1>2, <1>3 DEF FrameRight, RootFrame
<1> HIDE DEF n
<1>7. ASSUME NEW k \in 2..n
      PROVE  k \in 1..n /\ S[k].path \in Beneath(Root) /\ S[k].path \in DOMAIN E /\ E[S[k].path].open
  <2>1. k \in 1..n /\ 1 < k /\ k # 1
    BY <1>2, <1>7
  <2> QED
    BY <2>1, <1>2, <1>3, <1>6 DEF FrameRight, ModuleFrame
<1>8. \A k \in 2..(n - 1) : S[k].path # S[n].path
  <2>1. \A k \in 2..(n - 1) : k \in 1..n /\ k < n /\ k > 1
    BY <1>2
  <2> QED
    BY <2>1, <1>2, <1>3
<1>9. S[n].path \in Needed
  <2>1. CASE n = 1
    BY <2>1, <1>6 DEF Needed
  <2>2. CASE n # 1
    <3>1. n \in 2..n
      BY <2>2, <1>2
    <3> QED
      BY <3>1, <1>7 DEF Needed
  <2> QED
    BY <2>1, <2>2
<1> QED
  BY <1>2, <1>3, <1>4, <1>5, <1>6, <1>7, <1>8, <1>9 DEF n

-----------------------------------------------------------------------------
(* Steps *)

\* A step that leaves the program as it is, part by part.
LEMMA Stepped ==
  ASSUME p' = p, IsTree(p), Shape', StackRight(stack', entries'), EntriesRight(entries', stack'),
         NoFault(entries', stack', errors', verdict'), AcceptedSound(entries', verdict'),
         MergedSoFar(merged', entries', verdict')
  PROVE  IInv'
<1>1. StackRight(stack, entries)'
  BY StackKept
<1>2. EntriesRight(entries, stack)'
  BY EntriesKept
<1>3. NoFault(entries, stack, errors, verdict)'
  BY SoundKept DEF NoFault
<1>4. AcceptedSound(entries, verdict)'
  BY SoundKept, TreeKept DEF AcceptedSound, ClosedOk
<1>5. MergedSoFar(merged, entries, verdict)'
  <2>1. InMerged(entries, verdict)' = InMerged(entries', verdict')
    BY DEF InMerged, ClosedOk
  <2> QED
    BY <2>1, SoundKept, MergedKept DEF MergedSoFar
<1>6. IsTree(p)'
  BY DEF IsTree
<1> QED
  BY <1>1, <1>2, <1>3, <1>4, <1>5, <1>6 DEF IInv

\* A step in the middle of the pass that accepts no module.
LEMMA Onward ==
  ASSUME IInv, p' = p, verdict = "none", verdict' = verdict, merged' = merged, errors' \in BOOLEAN,
         stack' # <<>>, StackRight(stack', entries'), EntriesRight(entries', stack'),
         ClosedOk(entries') = ClosedOk(entries), NoFault(entries', stack', errors', verdict')
  PROVE  IInv'
<1>1. Shape'
  BY DEF Shape
<1>2. AcceptedSound(entries', verdict')
  BY DEF AcceptedSound
<1>3. MergedSoFar(merged', entries', verdict')
  BY DEF IInv, MergedSoFar, InMerged
<1> QED
  BY <1>1, <1>2, <1>3, Stepped DEF IInv

LEMMA PutIs ==
  ASSUME NEW f, NEW k, NEW v
  PROVE  /\ DOMAIN Put(f, k, v) = DOMAIN f \union {k} /\ Put(f, k, v)[k] = v
         /\ \A x \in DOMAIN f : x # k => Put(f, k, v)[x] = f[x]
  BY DEF Put

\* The file at work goes on with its frame g.
LEMMA ReplacedRight ==
  ASSUME IsTree(p), NEW S, NEW E, StackRight(S, E), S # <<>>, NEW E2, Grows(E, E2),
         \A k \in 2..(Len(S) - 1) : S[k].path \in DOMAIN E2 /\ E2[S[k].path] = E[S[k].path],
         NEW g, g.path = S[Len(S)].path, FrameRight(Len(S), g, E2),
         NEW S2, S2 = [S EXCEPT ![Len(S)] = g]
  PROVE  /\ StackRight(S2, E2) /\ S2 # <<>> /\ Len(S2) = Len(S) /\ DOMAIN S2 = DOMAIN S
         /\ \A k \in DOMAIN S : S2[k].path = S[k].path /\ S2[k] = IF k = Len(S) THEN g ELSE S[k]
<1>1. Len(S) \in DOMAIN S /\ Spliced(S2, S, Len(S), g)
  BY ReplacedSplices DEF StackRight
<1>2. StackRight(S2, E2)
  BY <1>1, SplicedRight
<1>3. Len(S) \in Nat /\ Len(S) >= 1 /\ DOMAIN S = 1..Len(S)
  BY Working
<1>4. Len(S2) = Len(S) /\ DOMAIN S2 = DOMAIN S
  BY <1>1, <1>3 DEF Spliced
<1>5. S2 # <<>>
  BY <1>3, <1>4
<1>6. \A k \in DOMAIN S : S2[k].path = S[k].path /\ S2[k] = IF k = Len(S) THEN g ELSE S[k]
  BY <1>1, <1>3 DEF Spliced
<1> QED
  BY <1>2, <1>4, <1>5, <1>6

\* The entries, for a stack that goes as far or further.
LEMMA EntriesOver ==
  ASSUME NEW E, NEW S, EntriesRight(E, S), NEW S2, Len(S2) >= Len(S), Len(S) \in Nat, Len(S2) \in Nat,
         \A k \in 2..Len(S) : S2[k].path = S[k].path
  PROVE  EntriesRight(E, S2)
<1>1. \A k \in 2..Len(S) : k \in 2..Len(S2)
  OBVIOUS
<1> QED
  BY <1>1 DEF EntriesRight

LEMMA LastOfMany ==
  ASSUME NEW n \in Nat, n >= 1, n # 1
  PROVE  n \in 2..n
  OBVIOUS

\* What a sound program is, once something is imported.
LEMMA SoundHere ==
  ASSUME IsTree(p), NEW S, NEW E, StackRight(S, E), S # <<>>, Sound
  PROVE  /\ \A f \in Needed :
              /\ Readable(f) /\ f \notin Beneath(f)
              /\ Nowhere \notin ImportsOf(f)
              /\ \A d \in All(f, "decl") : \A i \in DOMAIN d.uses : Legitimate(f, d.uses[i])
         /\ Root \notin Beneath(Root)
<1>1. ImportsOf(Root) # {}
  BY Working
<1> QED
  BY <1>1 DEF Sound, Needed

\* Where an import leads: beneath the root and beneath the importer.
LEMMA AtImport ==
  ASSUME IsTree(p), StackRight(stack, entries), EntriesRight(entries, stack), AtItem("import")
  PROVE  /\ stack # <<>> /\ ImportAt(Top.path, Top.at)
         /\ Target = Resolve(Is(Top.path)[Top.at].of) /\ Target = Resolve(Item.of)
         /\ Target \in ImportsOf(Top.path)
         /\ Target \in Paths => /\ Target \in Beneath(Root) /\ Target \in Beneath(Top.path)
                                /\ Target # Nowhere /\ Target[2] = Item.of
         /\ Target \notin Paths => Target = Nowhere
<1> DEFINE fr == Top
           f == fr.path
<1>1. stack # <<>> /\ fr.at <= Len(fr.items) /\ fr.items[fr.at].kind = "import"
  BY DEF AtItem
<1>2. /\ Len(stack) \in Nat /\ Len(stack) >= 1
      /\ f \in Paths /\ Readable(f) /\ fr.items = Is(f) /\ fr.at \in Nat /\ fr.at \in 1..End(f)
      /\ stack[1].path = Root
      /\ \A k \in 2..Len(stack) : stack[k].path \in Beneath(Root)
  BY <1>1, Working DEF Top
<1>3. ImportAt(f, fr.at)
  <2>1. Len(Is(f)) \in Nat /\ DOMAIN Is(f) = 1..Len(Is(f))
    BY <1>2, ImportsRead
  <2> QED
    BY <2>1, <1>1, <1>2 DEF ImportAt
<1>4. Target = Resolve(Is(f)[fr.at].of) /\ Target = Resolve(Item.of)
  BY <1>2 DEF Target, Item
<1>5. Target \in ImportsOf(f)
  <2> HIDE DEF fr
  <2>1. Resolve(Is(f)[fr.at].of) \in ImportsOf(f)
    BY <1>2, <1>3, ImportPassed
  <2> QED
    BY <2>1, <1>4
<1>6. ASSUME Target \in Paths
      PROVE  /\ Target \in Beneath(Root) /\ Target \in Beneath(f)
             /\ Target # Nowhere /\ Target[2] = Item.of
  <2>1. Target # Nowhere
    BY <1>6, PathsAreSomewhere
  <2>2. Target[2] = Item.of
    BY <2>1, <1>4, ResolveFacts
  <2>3. Target \in Beneath(f)
    BY <2>1, <1>5, BeneathStarts
  <2>4. CASE Len(stack) = 1
    BY <2>1, <2>2, <2>3, <2>4, <1>2 DEF Top
  <2>5. CASE Len(stack) # 1
    <3>1. f \in Beneath(Root)
      <4>1. Len(stack) \in 2..Len(stack)
        BY <2>5, <1>2, LastOfMany
      <4> QED
        BY <4>1, <1>2 DEF Top
    <3>2. Target \in Beneath(Root)
      BY <3>1, <2>1, <1>5, BeneathGoesOn
    <3> QED
      BY <2>1, <2>2, <2>3, <3>2
  <2> QED
    BY <2>4, <2>5
<1>7. Target \notin Paths => Target = Nowhere
  BY <1>4, ResolveFacts
<1> QED
  BY <1>1, <1>3, <1>4, <1>5, <1>6, <1>7

\* No import of a sound program fails to be found or closes a circle.
LEMMA NoneMissing ==
  ASSUME IsTree(p), StackRight(stack, entries), EntriesRight(entries, stack), AtItem("import"),
         Target \notin Paths \/ (Target \in DOMAIN entries /\ entries[Target].open)
  PROVE  ~Sound
<1> SUFFICES ASSUME Sound PROVE FALSE
  OBVIOUS
<1>1. /\ stack # <<>> /\ Target \in ImportsOf(Top.path)
      /\ Target \in Paths => Target # Nowhere /\ Target \in Beneath(Root) /\ Target \in Beneath(Top.path)
      /\ Target \notin Paths => Target = Nowhere
  BY AtImport
<1>2. Top.path \in Needed
  BY <1>1, Working DEF Top
<1>3. \A f \in Needed : f \notin Beneath(f) /\ Nowhere \notin ImportsOf(f)
  BY <1>1, SoundHere
<1>4. Target # Nowhere /\ Target \in Paths /\ entries[Target].open /\ Target \in DOMAIN entries
  BY <1>1, <1>2, <1>3
<1>5. PICK k \in 2..Len(stack) : stack[k].path = Target
  BY <1>4 DEF EntriesRight
<1>6. CASE k = Len(stack)
  BY <1>1, <1>2, <1>3, <1>4, <1>5, <1>6 DEF Top
<1>7. CASE k # Len(stack)
  <2>1. k \in DOMAIN stack /\ Len(stack) \in DOMAIN stack /\ k < Len(stack)
    BY <1>1, <1>7, Working
  <2>2. Top.path \in Beneath(Target)
    BY <2>1, <1>5 DEF StackRight, Top
  <2>3. Target \in Beneath(Target)
    BY <2>2, <1>1, <1>4, BeneathGoesOn
  <2>4. Target \in Needed
    BY <1>1, <1>4 DEF Needed
  <2> QED
    BY <2>3, <2>4, <1>3
<1> QED
  BY <1>6, <1>7

\* The importer goes on without what it could not import.
LEMMA WithoutStep ==
  ASSUME IInv, AtItem("import"), NEW E2, Grows(entries, E2),
         \A k \in 2..Len(stack) : stack[k].path \in DOMAIN E2 /\ E2[stack[k].path] = entries[stack[k].path],
         NEW S2, S2 = [stack EXCEPT ![Len(stack)] = Without(Top)]
  PROVE  /\ StackRight(S2, E2) /\ S2 # <<>> /\ Len(S2) = Len(stack) /\ DOMAIN S2 = DOMAIN stack
         /\ \A k \in DOMAIN stack : S2[k].path = stack[k].path
<1> DEFINE n == Len(stack)
           fr == stack[n]
           g == Without(fr)
<1>1. IsTree(p) /\ StackRight(stack, entries) /\ EntriesRight(entries, stack)
  BY DEF IInv
<1>2. stack # <<>> /\ ImportAt(fr.path, fr.at)
  BY <1>1, AtImport DEF Top
<1>3. n \in Nat /\ n >= 1 /\ FrameRight(n, fr, entries) /\ n \in DOMAIN stack
  BY <1>1, <1>2, Working
<1>4. FrameRight(n, fr, E2)
  <2>1. n # 1 => n \in 2..n
    BY <1>3, LastOfMany
  <2>2. n # 1 => fr.path \in DOMAIN E2 /\ E2[fr.path] = entries[fr.path]
    BY <2>1
  <2> QED
    BY <2>2, <1>3, FrameKept
<1>5. FrameRight(n, g, E2)
  BY <1>1, <1>2, <1>4, WithoutRight
<1>6. g.path = fr.path
  <2>1. IsFrame(fr)
    BY <1>3 DEF FrameRight, Placed
  <2> QED
    BY <2>1 DEF IsFrame, Without
<1>7. S2 = [stack EXCEPT ![n] = g]
  BY DEF Top
<1>8. \A k \in 2..(n - 1) : stack[k].path \in DOMAIN E2 /\ E2[stack[k].path] = entries[stack[k].path]
  <2>1. \A k \in 2..(n - 1) : k \in 2..n
    BY <1>3
  <2> QED
    BY <2>1
<1> HIDE DEF g, fr
<1> QED
  BY <1>1, <1>2, <1>5, <1>6, <1>7, <1>8, ReplacedRight DEF fr

\* The actions, one lemma each.
LEMMA MissingStep ==
  ASSUME IInv, Missing
  PROVE  IInv'
<1>1. IsTree(p) /\ StackRight(stack, entries) /\ EntriesRight(entries, stack) /\ Shape
  BY DEF IInv
<1>2. /\ AtItem("import") /\ errors' = TRUE /\ p' = p /\ entries' = entries /\ merged' = merged
      /\ verdict' = verdict /\ stack' = [stack EXCEPT ![Len(stack)] = Without(Top)]
      /\ Target \notin Paths \/ (Target \in DOMAIN entries /\ entries[Target].open)
  BY DEF Missing, Replace
<1>3. ~Sound
  BY <1>1, <1>2, NoneMissing
<1>4. stack # <<>>
  BY <1>1, <1>2, AtImport
<1>5. \A k \in 2..Len(stack) : stack[k].path \in DOMAIN entries
  BY <1>1, <1>4, Working
<1>6. /\ StackRight(stack', entries) /\ stack' # <<>> /\ Len(stack') = Len(stack)
      /\ \A k \in DOMAIN stack : stack'[k].path = stack[k].path
  <2>1. Grows(entries, entries)
    BY DEF Grows, ClosedOk
  <2> QED
    BY <2>1, <1>2, <1>5, WithoutStep
<1>7. EntriesRight(entries, stack')
  <2>1. Len(stack) \in Nat /\ DOMAIN stack = 1..Len(stack)
    BY <1>1, <1>4, Working
  <2>2. \A k \in 2..Len(stack) : k \in DOMAIN stack
    BY <2>1
  <2> QED
    BY <2>1, <2>2, <1>1, <1>6, EntriesOver
<1>8. verdict = "none"
  BY <1>1, <1>4 DEF Shape
<1>9. NoFault(entries', stack', errors', verdict')
  BY <1>3 DEF NoFault
<1> QED
  BY <1>2, <1>6, <1>7, <1>8, <1>9, Onward

LEMMA AgainStep ==
  ASSUME IInv, Again
  PROVE  IInv'
<1> DEFINE n == Len(stack)
           fr == stack[n]
           e == entries[Target]
           g == With(fr, Target, e)
<1>1. IsTree(p) /\ StackRight(stack, entries) /\ EntriesRight(entries, stack) /\ Shape
  BY DEF IInv
<1>2. /\ AtItem("import") /\ p' = p /\ entries' = entries /\ merged' = merged
      /\ errors' = errors /\ verdict' = verdict /\ stack' = [stack EXCEPT ![n] = g]
      /\ Target \in DOMAIN entries /\ ~entries[Target].open
  BY DEF Again, Replace, Top
<1>3. stack # <<>> /\ ImportAt(fr.path, fr.at) /\ Target = Resolve(Is(fr.path)[fr.at].of)
  BY <1>1, <1>2, AtImport DEF Top
<1>4. /\ n \in Nat /\ n >= 1 /\ DOMAIN stack = 1..n /\ FrameRight(n, fr, entries) /\ n \in DOMAIN stack
      /\ \A k \in 2..n : k \in DOMAIN stack /\ stack[k].path \in DOMAIN entries
  BY <1>1, <1>3, Working
<1>5. ClosedRight(entries) /\ IsEntry(e)
  BY <1>1, <1>2, ClosedAre DEF EntriesRight
<1>6. FrameRight(n, g, entries)
  BY <1>1, <1>2, <1>3, <1>4, <1>5, WithRight
<1>7. g.path = fr.path /\ (fr.ok /\ e.ok => g.ok)
  <2>1. IsFrame(fr)
    BY <1>4 DEF FrameRight, Placed
  <2>2. g.path = fr.path
    BY <2>1 DEF IsFrame, With, Without
  <2>3. fr.ok /\ e.ok => g.ok
    BY <2>1 DEF IsFrame, With
  <2> QED
    BY <2>2, <2>3
<1>8. /\ StackRight(stack', entries) /\ stack' # <<>> /\ Len(stack') = n /\ DOMAIN stack' = DOMAIN stack
      /\ \A k \in DOMAIN stack : stack'[k].path = stack[k].path /\ stack'[k] = IF k = n THEN g ELSE stack[k]
  <2>1. Grows(entries, entries)
    BY DEF Grows, ClosedOk
  <2>2. \A k \in 2..(n - 1) : stack[k].path \in DOMAIN entries
    <3>1. \A k \in 2..(n - 1) : k \in 2..n
      BY <1>4
    <3> QED
      BY <3>1, <1>4
  <2>3. fr = stack[Len(stack)] /\ n = Len(stack)
    OBVIOUS
  <2> HIDE DEF g, e, fr, n
  <2>3a. g.path = stack[Len(stack)].path /\ FrameRight(Len(stack), g, entries) /\ stack # <<>>
    BY <2>3, <1>3, <1>6, <1>7
  <2>3b. \A k \in 2..(Len(stack) - 1) : stack[k].path \in DOMAIN entries /\ entries[stack[k].path] = entries[stack[k].path]
    BY <2>2, <2>3
  <2>4. ASSUME NEW S2, S2 = [stack EXCEPT ![Len(stack)] = g]
        PROVE  /\ StackRight(S2, entries) /\ S2 # <<>> /\ Len(S2) = Len(stack) /\ DOMAIN S2 = DOMAIN stack
               /\ \A k \in DOMAIN stack : S2[k].path = stack[k].path /\ S2[k] = IF k = Len(stack) THEN g ELSE stack[k]
    BY <2>1, <2>3a, <2>3b, <2>4, <1>1, ReplacedRight
  <2> QED
    BY <2>3, <2>4, <1>2
<1>9. EntriesRight(entries, stack')
  BY <1>1, <1>4, <1>8, EntriesOver
<1>10. verdict = "none" /\ errors \in BOOLEAN
  BY <1>1, <1>3 DEF Shape
<1>11. NoFault(entries', stack', errors', verdict')
  <2> SUFFICES ASSUME Sound
               PROVE  /\ errors' = FALSE /\ verdict' # "failed"
                      /\ \A k \in DOMAIN stack' : stack'[k].ok
                      /\ \A f \in DOMAIN entries' : entries'[f].open \/ entries'[f].ok
    BY DEF NoFault
  <2>1. /\ errors = FALSE /\ \A k \in DOMAIN stack : stack[k].ok
        /\ \A f \in DOMAIN entries : entries[f].open \/ entries[f].ok
    BY DEF IInv, NoFault
  <2>2. g.ok
    BY <2>1, <1>2, <1>4, <1>7
  <2>3. \A k \in DOMAIN stack' : stack'[k].ok
    <3> HIDE DEF g
    <3> QED
      BY <2>1, <2>2, <1>8
  <2> QED
    BY <2>1, <2>3, <1>2, <1>10
<1> QED
  BY <1>2, <1>8, <1>9, <1>10, <1>11, Onward

LEMMA VisitStep ==
  ASSUME IInv, Visit
  PROVE  IInv'
<1> DEFINE n == Len(stack)
           t == Target
           got == Load(t)
           good == got.ok /\ Parses(got)
           E2 == Put(entries, t, Entry(good))
           g == Frame(t, Item.of, got.items)
<1>1. IsTree(p) /\ StackRight(stack, entries) /\ EntriesRight(entries, stack) /\ Shape
  BY DEF IInv
<1>2. /\ AtItem("import") /\ t \in Paths /\ t \notin DOMAIN entries
      /\ p' = p /\ merged' = merged /\ verdict' = verdict
      /\ entries' = E2 /\ errors' = (errors \/ ~got.ok)
      /\ good => stack' = Append(stack, g)
      /\ ~good => stack' = [stack EXCEPT ![n] = Without(Top)]
  BY DEF Visit, Replace
<1>3. /\ stack # <<>> /\ ImportAt(Top.path, Top.at) /\ t = Resolve(Is(Top.path)[Top.at].of)
      /\ t = Resolve(Item.of) /\ t \in Beneath(Root) /\ t[2] = Item.of
  BY <1>1, <1>2, AtImport
<1>4. /\ n \in Nat /\ n >= 1 /\ DOMAIN stack = 1..n
      /\ \A k \in 2..n : k \in DOMAIN stack /\ stack[k].path \in DOMAIN entries
  BY <1>1, <1>3, Working
<1>5. good <=> Readable(t)
  BY <1>1, <1>2, GoodIsReadable
<1>6. verdict = "none" /\ errors \in BOOLEAN /\ errors' \in BOOLEAN
  BY <1>1, <1>2, <1>3 DEF Shape
<1>7. /\ DOMAIN E2 = DOMAIN entries \union {t} /\ E2[t] = Entry(good)
      /\ \A x \in DOMAIN entries : E2[x] = entries[x]
  <2> DEFINE v == Entry(good)
  <2> HIDE DEF v
  <2>1. /\ DOMAIN Put(entries, t, v) = DOMAIN entries \union {t} /\ Put(entries, t, v)[t] = v
        /\ \A x \in DOMAIN entries : x # t => Put(entries, t, v)[x] = entries[x]
    BY DEF Put
  <2>2. E2 = Put(entries, t, v)
    BY DEF v
  <2> HIDE DEF E2
  <2> QED
    BY <2>1, <2>2, <1>2 DEF v
<1>8. /\ IsEntry(E2[t]) /\ (E2[t].open <=> good) /\ E2[t].ok = FALSE /\ E2[t].exports = Empty
  <2>1. good \in BOOLEAN
    OBVIOUS
  <2> HIDE DEF good, E2
  <2> QED
    BY <2>1, <1>7 DEF Entry, IsEntry
<1> HIDE DEF E2
<1>9. ClosedOk(E2) = ClosedOk(entries) /\ Grows(entries, E2)
  BY <1>2, <1>7, <1>8 DEF ClosedOk, Grows
<1>10. ASSUME NEW S, \A k \in 2..n : k \in 2..Len(S) /\ S[k].path = stack[k].path,
              good => \E k \in 2..Len(S) : S[k].path = t
       PROVE  EntriesRight(E2, S)
  <2>1. DOMAIN E2 \subseteq Beneath(Root)
    BY <1>1, <1>3, <1>7 DEF EntriesRight
  <2>2. ASSUME NEW f \in DOMAIN E2
        PROVE  IsEntry(E2[f]) /\ (E2[f].open => \E k \in 2..Len(S) : S[k].path = f)
    <3>1. CASE f = t
      BY <3>1, <1>8, <1>10
    <3>2. CASE f # t
      <4>1. f \in DOMAIN entries /\ E2[f] = entries[f]
        BY <3>2, <1>7
      <4>2. E2[f].open => \E k \in 2..n : stack[k].path = f
        BY <4>1, <1>1 DEF EntriesRight
      <4> QED
        BY <4>1, <4>2, <1>1, <1>10 DEF EntriesRight
    <3> QED
      BY <3>1, <3>2
  <2>3. \A f \in ClosedOk(E2) : Finished(f, E2)
    BY <1>1, <1>9, FinishedKept DEF EntriesRight
  <2> QED
    BY <2>1, <2>2, <2>3 DEF EntriesRight
<1>11. \A k \in 2..n : stack[k].path \in DOMAIN E2 /\ E2[stack[k].path] = entries[stack[k].path] /\ stack[k].path # t
  BY <1>2, <1>4, <1>7
<1>12. Sound => good /\ got.ok
  <2>1. t \in Needed
    BY <1>3 DEF Needed
  <2> QED
    BY <2>1, <1>1, <1>3, <1>5, SoundHere
<1>13. Sound => /\ errors = FALSE /\ \A k \in DOMAIN stack : stack[k].ok
                /\ \A f \in DOMAIN entries : entries[f].open \/ entries[f].ok
  BY DEF IInv, NoFault
<1>14. CASE good
  <2>1. /\ g.path = t /\ g.ok = TRUE /\ got.items = Is(t)
    BY DEF Frame, Is
  <2>2. FrameRight(n + 1, g, E2)
    <3>1. n + 1 # 1 /\ Readable(t) /\ t \in DOMAIN E2 /\ E2[t].open
      BY <1>4, <1>5, <1>7, <1>8, <1>14
    <3>2. g = Frame(t, Item.of, Is(t))
      BY <2>1
    <3> HIDE DEF g
    <3> QED
      BY <3>1, <3>2, <1>1, <1>2, <1>3, <1>8, NewFrame
  <2> HIDE DEF g
  <2>3. StackRight(Append(stack, g), E2)
    BY <2>1, <2>2, <1>1, <1>2, <1>3, <1>9, <1>11, PushedRight DEF Top
  <2>4. stack' = Append(stack, g) /\ StackRight(stack', E2)
    BY <2>3, <1>2, <1>14
  <2>5. /\ Len(stack') = n + 1 /\ DOMAIN stack' = 1..(n + 1) /\ stack'[n + 1] = g
        /\ \A k \in 1..n : stack'[k] = stack[k]
    <3> DEFINE A == Among(stack)
    <3>1. stack \in Seq(A)
      BY <1>1 DEF StackRight
    <3> HIDE DEF A
    <3> QED
      BY <3>1, <2>4
  <2>6. stack' # <<>>
    BY <2>5, <1>4
  <2>7. EntriesRight(E2, stack')
    <3>1. \A k \in 2..n : k \in 2..Len(stack') /\ stack'[k].path = stack[k].path
      BY <2>5, <1>4
    <3>2. n + 1 \in 2..Len(stack') /\ stack'[n + 1].path = t
      BY <2>1, <2>5, <1>4
    <3> QED
      BY <3>1, <3>2, <1>10
  <2>8. NoFault(entries', stack', errors', verdict')
    <3> SUFFICES ASSUME Sound
                 PROVE  /\ errors' = FALSE /\ verdict' # "failed"
                        /\ \A k \in DOMAIN stack' : stack'[k].ok
                        /\ \A f \in DOMAIN E2 : E2[f].open \/ E2[f].ok
      BY <1>2 DEF NoFault
    <3>1. \A k \in 1..(n + 1) : k \in 1..n \/ k = n + 1
      BY <1>4
    <3>2. \A k \in DOMAIN stack' : stack'[k].ok
      BY <3>1, <2>1, <2>5, <1>4, <1>13
    <3>3. \A f \in DOMAIN E2 : E2[f].open \/ E2[f].ok
      BY <1>7, <1>8, <1>13, <1>14
    <3>4. errors' = FALSE
      BY <1>2, <1>12, <1>13
    <3> QED
      BY <3>2, <3>3, <3>4, <1>2, <1>6
  <2> QED
    BY <2>4, <2>6, <2>7, <2>8, <1>2, <1>6, <1>9, Onward
<1>15. CASE ~good
  <2>1. stack' = [stack EXCEPT ![n] = Without(Top)]
    BY <1>2, <1>15
  <2>2. /\ StackRight(stack', E2) /\ stack' # <<>> /\ Len(stack') = n
        /\ \A k \in DOMAIN stack : stack'[k].path = stack[k].path
    BY <2>1, <1>2, <1>9, <1>11, WithoutStep
  <2>3. EntriesRight(E2, stack')
    <3>1. \A k \in 2..n : k \in 2..Len(stack') /\ stack'[k].path = stack[k].path
      BY <2>2, <1>4
    <3> QED
      BY <3>1, <1>10, <1>15
  <2>4. NoFault(entries', stack', errors', verdict')
    BY <1>12, <1>15 DEF NoFault
  <2> QED
    BY <2>2, <2>3, <2>4, <1>2, <1>6, <1>9, Onward
<1> QED
  BY <1>14, <1>15

LEMMA DeclareStep ==
  ASSUME IInv, Declare
  PROVE  IInv'
<1> DEFINE n == Len(stack)
           fr == stack[n]
           f == fr.path
<1>1. IsTree(p) /\ StackRight(stack, entries) /\ EntriesRight(entries, stack) /\ Shape
  BY DEF IInv
<1>2. /\ AtItem("decl") /\ p' = p /\ merged' = merged /\ errors' = errors /\ verdict' = verdict
  BY DEF Declare
<1>3. stack # <<>> /\ fr.at <= Len(fr.items) /\ fr.items[fr.at].kind = "decl"
  BY <1>2 DEF AtItem, Top
<1>4. /\ n \in Nat /\ n >= 1 /\ DOMAIN stack = 1..n /\ FrameRight(n, fr, entries) /\ n \in DOMAIN stack
      /\ f \in Paths /\ Readable(f) /\ fr.items = Is(f) /\ fr.at \in Nat /\ fr.at \in 1..End(f)
      /\ \A k \in 2..n : k \in DOMAIN stack /\ stack[k].path \in DOMAIN entries
      /\ \A k \in 2..(n - 1) : stack[k].path # f
  BY <1>1, <1>3, Working
<1>5. DeclAt(f, fr.at)
  <2>1. Len(Is(f)) \in Nat /\ DOMAIN Is(f) = 1..Len(Is(f))
    BY <1>1, <1>4, ImportsRead
  <2> QED
    BY <2>1, <1>3, <1>4 DEF DeclAt
<1>6. verdict = "none" /\ errors \in BOOLEAN
  BY <1>1, <1>3 DEF Shape
<1>7. \A h \in DOMAIN entries : IsEntry(entries[h])
  BY <1>1 DEF EntriesRight
<1>8. \A k \in 2..(n - 1) : k \in 2..n
  BY <1>4
<1>9. Sound => /\ errors = FALSE /\ \A k \in DOMAIN stack : stack[k].ok
               /\ \A h \in DOMAIN entries : entries[h].open \/ entries[h].ok
  BY DEF IInv, NoFault
<1>10. IsFrame(fr)
  BY <1>4 DEF FrameRight, Placed
\* With the next frame g and the entries E2, nothing else is left to be shown.
<1>11. ASSUME NEW g, NEW E2, stack' = [stack EXCEPT ![n] = g], entries' = E2,
              g.path = f, g.ok = fr.ok, FrameRight(n, g, E2), Grows(entries, E2),
              DOMAIN E2 = DOMAIN entries,
              \A h \in DOMAIN entries : /\ IsEntry(E2[h]) /\ E2[h].open = entries[h].open
                                        /\ E2[h].ok = entries[h].ok
                                        /\ h # f => E2[h] = entries[h]
       PROVE  IInv'
  <2>1. \A k \in 2..(n - 1) : stack[k].path \in DOMAIN E2 /\ E2[stack[k].path] = entries[stack[k].path]
    BY <1>4, <1>8, <1>11
  <2>2. /\ StackRight(stack', E2) /\ stack' # <<>> /\ Len(stack') = n /\ DOMAIN stack' = DOMAIN stack
        /\ \A k \in DOMAIN stack : stack'[k].path = stack[k].path /\ stack'[k] = IF k = n THEN g ELSE stack[k]
    BY <2>1, <1>1, <1>3, <1>11, ReplacedRight
  <2>3. ClosedOk(E2) = ClosedOk(entries)
    BY <1>11 DEF ClosedOk
  <2>4. EntriesRight(E2, stack)
    <3>1. \A h \in ClosedOk(E2) : Finished(h, E2)
      BY <2>3, <1>1, <1>11, FinishedKept DEF EntriesRight
    <3> QED
      BY <3>1, <1>1, <1>11 DEF EntriesRight
  <2>5. EntriesRight(E2, stack')
    BY <2>2, <2>4, <1>4, EntriesOver
  <2>6. NoFault(entries', stack', errors', verdict')
    <3> SUFFICES ASSUME Sound
                 PROVE  /\ errors' = FALSE /\ verdict' # "failed"
                        /\ \A k \in DOMAIN stack' : stack'[k].ok
                        /\ \A h \in DOMAIN E2 : E2[h].open \/ E2[h].ok
      BY <1>11 DEF NoFault
    <3>1. \A k \in DOMAIN stack' : stack'[k].ok
      BY <2>2, <1>4, <1>9, <1>11
    <3> QED
      BY <3>1, <1>2, <1>6, <1>9, <1>11
  <2> QED
    BY <2>2, <2>3, <2>5, <2>6, <1>2, <1>6, <1>11, Onward
<1>12. CASE n = 1
  <2> DEFINE g == RootDeclared(fr)
  <2>1. stack' = [stack EXCEPT ![n] = g] /\ entries' = entries
    BY <1>12 DEF Declare, Replace, Top, AtRoot, RootDeclared
  <2>2. g.path = f /\ g.ok = fr.ok
    <3> HIDE DEF g
    <3>1. g = [path |-> fr.path, prefix |-> fr.prefix, items |-> fr.items, at |-> fr.at + 1, ok |-> fr.ok,
           decls |-> Append(fr.decls, fr.at), self |-> fr.self, aliases |-> fr.aliases, exposed |-> fr.exposed]
      BY <1>10, RootDeclaredIs DEF g
    <3> HIDE DEF fr
    <3> QED
      BY <3>1
  <2>3. FrameRight(n, g, entries)
    BY <1>1, <1>4, <1>5, <1>12, RootDeclares
  <2>4. Grows(entries, entries)
    BY DEF Grows, ClosedOk
  <2> HIDE DEF g
  <2> QED
    BY <2>1, <2>2, <2>3, <2>4, <1>7, <1>11
<1>13. CASE n # 1
  <2> DEFINE g == ModuleDeclared(fr)
             E2 == Exported(fr, entries)
  <2>1. stack' = [stack EXCEPT ![n] = g] /\ entries' = E2
    BY <1>13 DEF Declare, Replace, Top, AtRoot, RootDeclared, ModuleDeclared, Exported, SymbolAt, Item
  <2>2. g.path = f /\ g.ok = fr.ok
    <3> DEFINE self == Put(fr.self, fr.items[fr.at].name, SymbolAt(fr))
    <3> HIDE DEF g, self
    <3>1. g = [path |-> fr.path, prefix |-> fr.prefix, items |-> fr.items, at |-> fr.at + 1, ok |-> fr.ok,
           decls |-> Append(fr.decls, fr.at), self |-> self, aliases |-> fr.aliases, exposed |-> fr.exposed]
      BY <1>10, ModuleDeclaredIs DEF g, self
    <3> HIDE DEF fr
    <3> QED
      BY <3>1
  <2>3. /\ FrameRight(n, g, E2) /\ Grows(entries, E2) /\ DOMAIN E2 = DOMAIN entries
        /\ \A h \in DOMAIN entries : /\ IsEntry(E2[h]) /\ E2[h].open = entries[h].open
                                     /\ E2[h].ok = entries[h].ok
                                     /\ h # f => E2[h] = entries[h]
    <3>1. FrameRight(n, fr, entries) /\ DeclAt(fr.path, fr.at)
      BY <1>4, <1>5
    <3> HIDE DEF n, fr
    <3>2. /\ FrameRight(n, ModuleDeclared(fr), Exported(fr, entries))
          /\ Grows(entries, Exported(fr, entries)) /\ DOMAIN Exported(fr, entries) = DOMAIN entries
      BY <3>1, <1>1, <1>7, <1>13, ModuleDeclares
    <3>3. \A h \in DOMAIN entries :
            /\ IsEntry(Exported(fr, entries)[h])
            /\ Exported(fr, entries)[h].open = entries[h].open
            /\ Exported(fr, entries)[h].ok = entries[h].ok
            /\ h # fr.path => Exported(fr, entries)[h] = entries[h]
      BY <3>1, <1>1, <1>7, <1>13, ModuleDeclares
    <3> QED
      BY <3>2, <3>3
  <2> HIDE DEF g, E2
  <2> QED
    BY <2>1, <2>2, <2>3, <1>11
<1> QED
  BY <1>12, <1>13

-----------------------------------------------------------------------------
(* The end of a file *)

\* A file at its end: all its imports have been accepted, or it is not accepted.
LEMMA AtTheEnd ==
  ASSUME IInv, stack # <<>>, Top.at > Len(Top.items)
  PROVE  /\ Top.at = End(Top.path) /\ Top.path \notin ClosedOk(entries)
         /\ Top.path \in Paths /\ Readable(Top.path)
         /\ \A g \in ClosedOk(entries) : Top.path \notin Beneath(g)
         /\ Top.ok => /\ Beneath(Top.path) \subseteq ClosedOk(entries)
                      /\ Nowhere \notin ImportsOf(Top.path) /\ Top.path \notin Beneath(Top.path)
         /\ Top.ok /\ ~Refusals(Top) =>
              \A d \in All(Top.path, "decl") : \A i \in DOMAIN d.uses : Legitimate(Top.path, d.uses[i])
<1> DEFINE n == Len(stack)
           fr == Top
           f == fr.path
<1>1. IsTree(p) /\ StackRight(stack, entries) /\ EntriesRight(entries, stack)
  BY DEF IInv
<1>2. /\ n \in Nat /\ n >= 1 /\ FrameRight(n, fr, entries)
      /\ f \in Paths /\ Readable(f) /\ fr.items = Is(f) /\ fr.at \in Nat /\ fr.at \in 1..End(f)
  BY <1>1, Working DEF Top
<1>3. fr.at = End(f)
  <2>1. Len(Is(f)) \in Nat
    BY <1>1, <1>2, ImportsRead
  <2> QED
    BY <2>1, <1>2 DEF End
<1>4. ClosedRight(entries) /\ Root \notin ClosedOk(entries)
  BY <1>1, ClosedAre
<1>5. f \notin ClosedOk(entries)
  <2>1. CASE n = 1
    BY <2>1, <1>2, <1>4 DEF FrameRight, RootFrame
  <2>2. CASE n # 1
    BY <2>2, <1>2 DEF FrameRight, ModuleFrame, ClosedOk
  <2> QED
    BY <2>1, <2>2
<1>6. \A g \in ClosedOk(entries) : Beneath(g) \subseteq ClosedOk(entries) /\ Nowhere \notin ImportsOf(g)
  BY <1>1 DEF EntriesRight, Finished
<1>7. ASSUME fr.ok
      PROVE  /\ Beneath(f) \subseteq ClosedOk(entries)
             /\ Nowhere \notin ImportsOf(f) /\ f \notin Beneath(f)
  <2>1. ImportsOf(f) \subseteq ClosedOk(entries)
    BY <1>1, <1>2, <1>3, <1>7, ImportsRead DEF FrameRight, Accepted
  <2>2. ClosedOk(entries) \subseteq Paths /\ Nowhere \notin Paths
    BY <1>1, <1>4, PathsAreSomewhere DEF ClosedRight
  <2>3. \A g \in ClosedOk(entries) : ImportsOf(g) \ {Nowhere} \subseteq ClosedOk(entries)
    BY <1>1, <1>6, BeneathStarts
  <2>4. Beneath(f) \subseteq ClosedOk(entries)
    BY <2>1, <2>2, <2>3, BeneathStays
  <2> QED
    BY <2>1, <2>2, <2>4, <1>5
<1>8. ASSUME fr.ok, ~Refusals(fr), NEW d \in All(f, "decl"), NEW i \in DOMAIN d.uses
      PROVE  Legitimate(f, d.uses[i])
  <2>1. All(f, "decl") = {Is(f)[j] : j \in DeclsTo(f, End(f))}
    BY <1>1, <1>2, ImportsRead
  <2>2. PICK j \in DeclsTo(f, End(f)) : d = Is(f)[j]
    BY <2>1
  <2>3. PICK m \in DOMAIN fr.decls : fr.decls[m] = j
    BY <1>2, <1>3 DEF FrameRight, Declared
  <2>4. ~Refused(fr, d.uses[i])
    BY <2>2, <2>3, <1>2, <1>8 DEF Refusals
  <2> QED
    BY <2>4, <1>1, <1>2, <1>3, <1>4, <1>8, RefusedIs
<1> QED
  BY <1>2, <1>3, <1>5, <1>6, <1>7, <1>8

\* The declarations of the file at work join those of a sound program, and
\* nothing stands in their way.
LEMMA JoinedRight ==
  ASSUME IInv, stack # <<>>, Top.at > Len(Top.items), Sound
  PROVE  /\ Top.ok /\ errors = FALSE /\ ~Refusals(Top)
         /\ MergedOf(Joined(Top), ClosedOk(entries) \union {Top.path})
<1> DEFINE n == Len(stack)
           fr == Top
           f == fr.path
           D == Declarations(fr)
<1>1. IsTree(p) /\ StackRight(stack, entries) /\ EntriesRight(entries, stack)
  BY DEF IInv
<1>2. /\ n \in Nat /\ n >= 1 /\ n \in DOMAIN stack /\ FrameRight(n, fr, entries) /\ f \in Needed
      /\ \A k \in 2..n : stack[k].path \in Beneath(Root)
  BY <1>1, Working DEF Top
<1>3. errors = FALSE /\ fr.ok
  BY <1>2 DEF IInv, NoFault, Top
<1>4. /\ fr.at = End(f) /\ f \notin ClosedOk(entries) /\ f \in Paths /\ Readable(f)
      /\ \A g \in ClosedOk(entries) : f \notin Beneath(g)
      /\ f \notin Beneath(f)
  BY <1>3, AtTheEnd
<1>5. ClosedRight(entries)
  BY <1>1, ClosedAre
<1>6. ~Refusals(fr)
  <2>1. \A d \in All(f, "decl") : \A i \in DOMAIN d.uses : Legitimate(f, d.uses[i])
    BY <1>1, <1>2, SoundHere
  <2>2. All(f, "decl") = {Is(f)[j] : j \in DeclsTo(f, End(f))}
    BY <1>1, <1>4, ImportsRead
  <2>3. ASSUME NEW m \in DOMAIN fr.decls
        PROVE  fr.items[fr.decls[m]] \in All(f, "decl")
    BY <2>2, <1>2, <1>4 DEF FrameRight, Placed, Declared
  <2>4. \A u : Refused(fr, u) <=> ~Legitimate(f, u)
    BY <1>1, <1>2, <1>3, <1>4, <1>5, RefusedIs
  <2> HIDE DEF fr, f
  <2> QED
    BY <2>1, <2>3, <2>4 DEF Refusals
<1>7. n # 1 => f # Root
  <2>1. Root \notin Beneath(Root)
    BY <1>1, SoundHere
  <2>2. n # 1 => n \in 2..n
    BY <1>2, LastOfMany
  <2> QED
    BY <2>1, <2>2, <1>2 DEF Top
<1>8. /\ D \in Seq(Among(D)) /\ DOMAIN D = DOMAIN fr.decls
      /\ \A m \in DOMAIN fr.decls : D[m].of = f /\ D[m].at = fr.decls[m] /\ MergedRight(D[m])
  BY <1>1, <1>2, <1>3, <1>4, <1>5, <1>6, <1>7, DeclarationsRight
<1> HIDE DEF D
<1>9. /\ \A k, m \in DOMAIN D : k < m => D[k].at < D[m].at
      /\ \A i \in DeclsTo(f, End(f)) : \E m \in DOMAIN D : D[m].at = i
  BY <1>2, <1>4, <1>8 DEF FrameRight, Declared
<1>10. MergedOf(merged, ClosedOk(entries))
  <2>1. verdict = "none"
    BY DEF IInv, Shape
  <2>2. InMerged(entries, verdict) = ClosedOk(entries)
    BY <2>1 DEF InMerged
  <2> QED
    BY <2>2 DEF IInv, MergedSoFar
<1>11. MergedOf(merged \o D, ClosedOk(entries) \union {f})
  <2> DEFINE T == ClosedOk(entries)
  <2> HIDE DEF T, fr, f
  <2> QED
    BY <1>4, <1>8, <1>9, <1>10, MergedJoined DEF T
<1> QED
  BY <1>3, <1>6, <1>11 DEF Joined, D

LEMMA EmptyStack ==
  ASSUME NEW E
  PROVE  StackRight(<<>>, E)
<1>1. <<>> \in Seq(Among(<<>>)) /\ DOMAIN <<>> = {}
  OBVIOUS
<1> QED
  BY <1>1 DEF StackRight

LEMMA RootStep ==
  ASSUME IInv, Finish, AtRoot
  PROVE  IInv'
<1> DEFINE n == Len(stack)
           fr == Top
           ok == fr.ok /\ ~errors'
<1>1. IsTree(p) /\ StackRight(stack, entries) /\ EntriesRight(entries, stack) /\ Shape
  BY DEF IInv
<1>2. /\ stack # <<>> /\ fr.at > Len(fr.items) /\ p' = p /\ entries' = entries /\ stack' = <<>>
      /\ merged' = Joined(fr) /\ errors' = (errors \/ Refusals(fr))
      /\ verdict' = IF ok THEN "ok" ELSE "failed"
  BY DEF Finish
<1>3. errors \in BOOLEAN /\ Refusals(fr) \in BOOLEAN
  BY <1>1 DEF Shape, Refusals
<1>4. errors' \in BOOLEAN /\ (errors' <=> errors \/ Refusals(fr))
  BY <1>2, <1>3
<1>5. fr.path = Root
  BY <1>1, <1>2, Working DEF AtRoot, Top
<1> HIDE DEF fr
<1>6. /\ Root \notin ClosedOk(entries) /\ Root \in Paths /\ Readable(Root)
      /\ fr.ok => /\ Beneath(Root) \subseteq ClosedOk(entries)
                  /\ Nowhere \notin ImportsOf(Root) /\ Root \notin Beneath(Root)
      /\ fr.ok /\ ~Refusals(fr) =>
           \A d \in All(Root, "decl") : \A i \in DOMAIN d.uses : Legitimate(Root, d.uses[i])
  BY <1>2, <1>5, AtTheEnd DEF fr
<1>7. Sound => /\ fr.ok /\ errors = FALSE /\ ~Refusals(fr)
               /\ MergedOf(Joined(fr), ClosedOk(entries) \union {Root})
  BY <1>2, <1>5, JoinedRight DEF fr
<1>8. Shape'
  BY <1>2, <1>4 DEF Shape
<1>9. StackRight(stack', entries')
  BY <1>2, EmptyStack
<1>10. EntriesRight(entries', stack')
  <2>1. \A f \in DOMAIN entries : ~entries[f].open
    <3>1. Len(stack) = 1
      BY DEF AtRoot
    <3> QED
      BY <3>1, <1>1 DEF EntriesRight
  <2> QED
    BY <2>1, <1>1, <1>2 DEF EntriesRight
<1>11. NoFault(entries', stack', errors', verdict')
  <2> SUFFICES ASSUME Sound
               PROVE  /\ errors' = FALSE /\ verdict' # "failed"
                      /\ \A k \in DOMAIN stack' : stack'[k].ok
                      /\ \A f \in DOMAIN entries' : entries'[f].open \/ entries'[f].ok
    BY DEF NoFault
  <2>1. errors' = FALSE
    BY <1>4, <1>7
  <2>2. verdict' = "ok"
    BY <2>1, <1>2, <1>7
  <2>3. DOMAIN stack' = {}
    BY <1>2
  <2> QED
    BY <2>1, <2>2, <2>3, <1>2 DEF IInv, NoFault
<1>12. AcceptedSound(entries', verdict')
  <2> SUFFICES ASSUME verdict' = "ok" PROVE Sound /\ Beneath(Root) \subseteq ClosedOk(entries)
    BY <1>2 DEF AcceptedSound
  <2>1. fr.ok /\ ~errors'
    BY <1>2
  <2>2. ~Refusals(fr)
    BY <2>1, <1>4
  <2>3. \A f \in ClosedOk(entries) : Finished(f, entries)
    BY <1>1 DEF EntriesRight
  <2>4. \A f \in Needed : f = Root \/ f \in ClosedOk(entries)
    BY <2>1, <1>6 DEF Needed
  <2>5. ASSUME NEW f \in Needed
        PROVE  /\ Readable(f) /\ f \notin Beneath(f)
               /\ Nowhere \notin ImportsOf(f)
               /\ \A d \in All(f, "decl") : \A i \in DOMAIN d.uses : Legitimate(f, d.uses[i])
    BY <2>1, <2>2, <2>3, <2>4, <1>6 DEF Finished
  <2> QED
    BY <2>1, <2>5, <1>6 DEF Sound
<1>13. MergedSoFar(merged', entries', verdict')
  <2> SUFFICES ASSUME Sound PROVE MergedOf(merged', InMerged(entries', verdict'))
    BY DEF MergedSoFar
  <2>1. verdict' = "ok"
    BY <1>2, <1>4, <1>7
  <2>2. InMerged(entries', verdict') = ClosedOk(entries) \union {Root}
    BY <2>1, <1>2 DEF InMerged
  <2> QED
    BY <2>2, <1>2, <1>7
<1> QED
  BY <1>1, <1>2, <1>8, <1>9, <1>10, <1>11, <1>12, <1>13, Stepped

LEMMA ModuleStep ==
  ASSUME IInv, Finish, ~AtRoot
  PROVE  IInv'
<1> DEFINE n == Len(stack)
           fr == Top
           f == fr.path
           ok == fr.ok /\ ~errors'
           entry == [entries[f] EXCEPT !.open = FALSE, !.ok = ok]
           E2 == [entries EXCEPT ![f] = entry]
           importer == stack[n - 1]
           g == With(importer, f, entry)
           S2 == [SubSeq(stack, 1, n - 1) EXCEPT ![n - 1] = g]
<1>1. IsTree(p) /\ StackRight(stack, entries) /\ EntriesRight(entries, stack) /\ Shape
  BY DEF IInv
<1>2. /\ stack # <<>> /\ fr.at > Len(fr.items) /\ p' = p /\ entries' = E2 /\ stack' = S2
      /\ merged' = Joined(fr) /\ errors' = (errors \/ Refusals(fr)) /\ verdict' = verdict
  BY DEF Finish, Below
<1>3. errors \in BOOLEAN /\ Refusals(fr) \in BOOLEAN
  BY <1>1 DEF Shape, Refusals
<1>4. errors' \in BOOLEAN /\ (errors' <=> errors \/ Refusals(fr)) /\ verdict = "none"
  BY <1>1, <1>2, <1>3 DEF Shape
<1>5. ok \in BOOLEAN /\ (Sound => ok /\ errors' = FALSE)
  <2>1. FrameRight(n, fr, entries)
    BY <1>1, <1>2, Working DEF Top
  <2>2. fr.ok \in BOOLEAN
    BY <2>1 DEF FrameRight, Placed
  <2>3. Sound => fr.ok /\ errors = FALSE /\ ~Refusals(fr)
    BY <1>2, JoinedRight
  <2> QED
    BY <2>2, <2>3, <1>4
<1>6. /\ n \in Nat /\ n > 1 /\ n - 1 \in Nat /\ n - 1 >= 1 /\ DOMAIN stack = 1..n
      /\ n \in DOMAIN stack /\ n - 1 \in DOMAIN stack
      /\ FrameRight(n, fr, entries) /\ f \in DOMAIN entries /\ entries[f].open
      /\ \A k \in 2..n : /\ stack[k].path \in DOMAIN entries
      /\ \A k \in 2..(n - 1) : k \in 2..n /\ stack[k].path # f
  <2>1. /\ n \in Nat /\ n >= 1 /\ DOMAIN stack = 1..n /\ n # 1 /\ FrameRight(n, fr, entries)
        /\ \A k \in 2..n : /\ stack[k].path \in DOMAIN entries /\ entries[stack[k].path].open
        /\ \A k \in 2..(n - 1) : stack[k].path # f
    BY <1>1, <1>2, Working DEF AtRoot, Top
  <2>2. n \in 2..n
    BY <2>1, LastOfMany
  <2>3. n - 1 \in Nat /\ n - 1 >= 1 /\ n > 1 /\ n - 1 \in 1..n /\ n \in 1..n /\ \A k \in 2..(n - 1) : k \in 2..n
    <3> HIDE DEF n
    <3> QED
      BY <2>1
  <2>4. f \in DOMAIN entries /\ entries[f].open
    BY <2>1, <2>2 DEF Top
  <2> QED
    BY <2>1, <2>3, <2>4
<1>7. /\ E2[f] = entry /\ IsEntry(entry) /\ ~entry.open /\ (entry.ok <=> ok)
      /\ entry.exports = entries[f].exports /\ DOMAIN E2 = DOMAIN entries
      /\ \A h \in DOMAIN entries : h # f => E2[h] = entries[h]
      /\ Grows(entries, E2) /\ ClosedOk(E2) = ClosedOk(entries) \union (IF ok THEN {f} ELSE {})
  <2> DEFINE e == entries[f]
  <2>1. e = [open |-> e.open, ok |-> e.ok, exports |-> e.exports]
    BY <1>1, <1>6 DEF EntriesRight, IsEntry
  <2>2. entry = [e EXCEPT !.open = FALSE, !.ok = ok]
    OBVIOUS
  <2> HIDE DEF e, entry, ok
  <2>3. DOMAIN e = {"open", "ok", "exports"}
    BY <2>1
  <2>4. DOMAIN entry = {"open", "ok", "exports"} /\ entry.exports = e.exports
    BY <2>2, <2>3
  <2>5. entry.open = FALSE /\ entry.ok = ok
    BY <2>2, <2>3
  <2>6. entry = [x \in DOMAIN entry |-> entry[x]]
    BY <2>2
  <2>7. entry = [open |-> entry.open, ok |-> entry.ok, exports |-> entry.exports]
    BY <2>4, <2>6
  <2>8. entry.open \in BOOLEAN /\ entry.ok \in BOOLEAN
    BY <2>5, <1>5
  <2>9. IsEntry(entry) /\ ~entry.open /\ (entry.ok <=> ok)
    BY <2>5, <2>7, <2>8 DEF IsEntry
  <2>10. E2 = [entries EXCEPT ![f] = entry] /\ f \in DOMAIN entries /\ entries[f].open
    BY <1>6
  <2> HIDE DEF E2, f
  <2>11. E2[f] = entry /\ DOMAIN E2 = DOMAIN entries
    BY <2>10
  <2>11a. \A h \in DOMAIN entries : h # f => E2[h] = entries[h]
    BY <2>10
  <2>11b. Grows(entries, E2)
    BY <2>10, <2>11, <2>11a DEF Grows, ClosedOk
  <2>11c. \A h : h \in ClosedOk(E2) <=> h \in ClosedOk(entries) \/ (ok /\ h = f)
    BY <2>9, <2>10, <2>11, <2>11a DEF ClosedOk
  <2>12. ClosedOk(E2) = ClosedOk(entries) \union (IF ok THEN {f} ELSE {})
    BY <2>11c
  <2> QED
    BY <2>4, <2>9, <2>11, <2>11a, <2>11b, <2>12 DEF e
<1> HIDE DEF E2, entry, ok
<1>8. /\ fr.at = End(f) /\ f \notin ClosedOk(entries) /\ f \in Paths /\ Readable(f)
      /\ fr.ok => /\ Beneath(f) \subseteq ClosedOk(entries)
                  /\ Nowhere \notin ImportsOf(f) /\ f \notin Beneath(f)
      /\ fr.ok /\ ~Refusals(fr) =>
           \A d \in All(f, "decl") : \A i \in DOMAIN d.uses : Legitimate(f, d.uses[i])
  BY <1>2, AtTheEnd
<1>9. ExportsTo(E2[f].exports, f, End(f)) /\ f = Resolve(f[2])
  <2>1. ModuleFrame(fr, entries)
    BY <1>6 DEF FrameRight
  <2> QED
    BY <2>1, <1>7, <1>8 DEF ModuleFrame
<1>10. \A h \in ClosedOk(E2) : Finished(h, E2)
  <2>1. ASSUME NEW h \in ClosedOk(entries) PROVE Finished(h, E2)
    BY <2>1, <1>1, <1>7, FinishedKept DEF EntriesRight
  <2>2. ASSUME ok PROVE Finished(f, E2)
    <3>1. fr.ok /\ ~Refusals(fr)
      BY <2>2, <1>4 DEF ok
    <3>2. ClosedOk(entries) \subseteq ClosedOk(E2)
      BY <1>7
    <3> QED
      BY <3>1, <3>2, <1>8, <1>9 DEF Finished
  <2> QED
    BY <2>1, <2>2, <1>7
<1>11. ClosedRight(E2)
  <2>1. ClosedOk(E2) \subseteq Paths
    BY <1>1, <1>7, <1>8, ClosedAre DEF ClosedRight
  <2> QED
    BY <2>1, <1>10 DEF ClosedRight, Finished
<1>12. FrameRight(n - 1, importer, E2)
  <2>1. FrameRight(n - 1, importer, entries)
    BY <1>1, <1>6 DEF StackRight
  <2>2. n - 1 # 1 => n - 1 \in 2..(n - 1)
    BY <1>6, LastOfMany
  <2>3. n - 1 # 1 => importer.path \in DOMAIN E2 /\ E2[importer.path] = entries[importer.path]
    BY <2>2, <1>6, <1>7
  <2>4. Grows(entries, E2)
    BY <1>7
  <2> HIDE DEF E2, importer, n
  <2> QED
    BY <2>1, <2>3, <2>4, FrameKept
<1>13. ImportAt(importer.path, importer.at) /\ f = Resolve(Is(importer.path)[importer.at].of)
  <2>1. n - 1 < n /\ (n - 1) + 1 = n
    BY <1>6
  <2> HIDE DEF n
  <2>2. /\ ImportAt(stack[n - 1].path, stack[n - 1].at)
        /\ Resolve(Is(stack[n - 1].path)[stack[n - 1].at].of) = stack[(n - 1) + 1].path
    BY <2>1, <1>1, <1>6 DEF StackRight, n
  <2>3. stack[n].path = f
    BY DEF Top, n
  <2> QED
    BY <2>1, <2>2, <2>3
<1>14. FrameRight(n - 1, g, E2)
  <2>1. f \in DOMAIN E2 /\ ~E2[f].open /\ IsEntry(E2[f])
    BY <1>6, <1>7
  <2> HIDE DEF g
  <2>2. g = With(importer, f, E2[f])
    BY <1>7 DEF g
  <2> HIDE DEF importer, fr, f
  <2>3. FrameRight(n - 1, With(importer, f, E2[f]), E2)
    BY <2>1, <1>1, <1>11, <1>12, <1>13, WithRight
  <2> QED
    BY <2>2, <2>3
<1>15. g.path = importer.path /\ (importer.ok /\ ok => g.ok)
  <2>1. IsFrame(importer)
    BY <1>12 DEF FrameRight, Placed
  <2>2. g.path = importer.path
    BY <2>1 DEF IsFrame, With, Without
  <2>3. importer.ok /\ ok => g.ok
    BY <2>1, <1>7 DEF IsFrame, With
  <2> QED
    BY <2>2, <2>3
<1>16. n - 1 \in DOMAIN stack /\ Spliced(S2, stack, n - 1, g)
  BY <1>1, <1>6, PoppedSplices DEF StackRight
<1> HIDE DEF S2, g, importer, fr, f
<1>17. StackRight(S2, E2)
  <2>1. \A k \in 2..((n - 1) - 1) : stack[k].path \in DOMAIN E2 /\ E2[stack[k].path] = entries[stack[k].path]
    <3>1. \A k \in 2..((n - 1) - 1) : k \in 2..(n - 1)
      BY <1>6
    <3> QED
      BY <3>1, <1>6, <1>7
  <2>2. g.path = stack[n - 1].path
    BY <1>15 DEF importer
  <2> QED
    BY <2>1, <2>2, <1>1, <1>7, <1>14, <1>16, SplicedRight
<1>18. /\ Len(S2) = n - 1 /\ DOMAIN S2 = 1..(n - 1)
       /\ \A k \in 1..(n - 1) : S2[k].path = stack[k].path /\ S2[k] = IF k = n - 1 THEN g ELSE stack[k]
  <2>0. n \in Nat
    BY <1>6
  <2> HIDE DEF n
  <2>1. \A k \in 1..(n - 1) : k = n - 1 \/ (k # n - 1 /\ k \in 1..((n - 1) - 1))
    BY <2>0
  <2> QED
    BY <2>1, <1>15, <1>16 DEF Spliced, importer
<1>19. S2 # <<>>
  <2> HIDE DEF n
  <2> QED
    BY <1>6, <1>18
<1>20. EntriesRight(E2, S2)
  <2>1. ASSUME NEW h \in DOMAIN E2
        PROVE  IsEntry(E2[h]) /\ (E2[h].open => \E k \in 2..Len(S2) : S2[k].path = h)
    <3>1. CASE h = f
      BY <3>1, <1>7
    <3>2. CASE h # f
      <4>1. h \in DOMAIN entries /\ E2[h] = entries[h]
        BY <3>2, <1>7
      <4>2. IsEntry(E2[h]) /\ (E2[h].open => \E k \in 2..n : stack[k].path = h)
        BY <4>1, <1>1 DEF EntriesRight
      <4>3. ASSUME NEW k \in 2..n, stack[k].path = h
            PROVE  k \in 2..Len(S2) /\ S2[k].path = h
        <5>1. k # n
          BY <3>2, <4>3 DEF f, fr, Top
        <5>2. k \in 2..(n - 1) /\ k \in 1..(n - 1)
          <6>1. n \in Nat
            BY <1>6
          <6> HIDE DEF n
          <6> QED
            BY <5>1, <6>1
        <5> QED
          BY <5>2, <4>3, <1>18
      <4> QED
        BY <4>2, <4>3
    <3> QED
      BY <3>1, <3>2
  <2> QED
    BY <2>1, <1>1, <1>7, <1>10 DEF EntriesRight
<1>21. Shape'
  BY <1>2, <1>4, <1>19 DEF Shape
<1>22. NoFault(E2, S2, errors', verdict')
  <2> SUFFICES ASSUME Sound
               PROVE  /\ errors' = FALSE /\ verdict' # "failed"
                      /\ \A k \in DOMAIN S2 : S2[k].ok
                      /\ \A h \in DOMAIN E2 : E2[h].open \/ E2[h].ok
    BY DEF NoFault
  <2>1. /\ \A k \in DOMAIN stack : stack[k].ok
        /\ \A h \in DOMAIN entries : entries[h].open \/ entries[h].ok
    BY DEF IInv, NoFault
  <2>2. ok /\ errors' = FALSE
    BY <1>5
  <2>3. g.ok
    BY <2>1, <2>2, <1>6, <1>15 DEF importer
  <2>4. \A k \in 1..(n - 1) : k \in DOMAIN stack
    BY <1>6
  <2>5. \A k \in DOMAIN S2 : S2[k].ok
    BY <2>1, <2>3, <2>4, <1>18
  <2>6. \A h \in DOMAIN E2 : E2[h].open \/ E2[h].ok
    BY <2>1, <2>2, <1>7
  <2> QED
    BY <2>2, <2>5, <2>6, <1>2, <1>4
<1>23. AcceptedSound(E2, verdict')
  BY <1>2, <1>4 DEF AcceptedSound
<1>24. MergedSoFar(merged', E2, verdict')
  <2> SUFFICES ASSUME Sound PROVE MergedOf(merged', InMerged(E2, verdict'))
    BY DEF MergedSoFar
  <2>1. InMerged(E2, verdict') = ClosedOk(entries) \union {f}
    BY <1>2, <1>4, <1>5, <1>7 DEF InMerged
  <2>2. MergedOf(Joined(fr), ClosedOk(entries) \union {f})
    BY <1>2, JoinedRight DEF f, fr
  <2> QED
    BY <2>1, <2>2, <1>2
<1> QED
  BY <1>1, <1>2, <1>17, <1>20, <1>21, <1>22, <1>23, <1>24, Stepped

-----------------------------------------------------------------------------
(* The beginning *)

LEMMA NothingEntered ==
  /\ DOMAIN Empty = {} /\ ClosedOk(Empty) = {} /\ \A S : EntriesRight(Empty, S)
<1>1. DOMAIN Empty = {} /\ ClosedOk(Empty) = {}
  BY DEF Empty, ClosedOk
<1> QED
  BY <1>1 DEF EntriesRight

LEMMA InitHolds ==
  ASSUME Init
  PROVE  IInv
<1>1. IsTree(p) /\ entries = Empty /\ stack = <<>> /\ merged = <<>> /\ errors = FALSE /\ verdict = "none"
  BY TreesAreTrees DEF Init
<1>2. Shape
  BY <1>1 DEF Shape
<1>3. StackRight(stack, entries) /\ EntriesRight(entries, stack)
  BY <1>1, EmptyStack, NothingEntered
<1>4. NoFault(entries, stack, errors, verdict)
  <2>1. DOMAIN stack = {} /\ DOMAIN entries = {}
    BY <1>1, NothingEntered
  <2> QED
    BY <2>1, <1>1 DEF NoFault
<1>5. AcceptedSound(entries, verdict)
  BY <1>1 DEF AcceptedSound
<1>6. MergedSoFar(merged, entries, verdict)
  <2>1. InMerged(entries, verdict) = {}
    BY <1>1, NothingEntered DEF InMerged
  <2>2. <<>> \in Seq(Among(<<>>)) /\ DOMAIN <<>> = {}
    OBVIOUS
  <2> QED
    BY <2>1, <2>2, <1>1 DEF MergedSoFar, MergedOf
<1> QED
  BY <1>1, <1>2, <1>3, <1>4, <1>5, <1>6 DEF IInv

\* The declarations of a program that imports nothing.
LeftAlone(is) ==
  [i \in DOMAIN is |->
     [sym |-> is[i].name, of |-> Root, at |-> i, decl |-> is[i],
      uses |-> [j \in DOMAIN is[i].uses |-> AsWritten(is[i].uses[j])]]]

\* They are the whole program.
LEMMA LeftAloneRight ==
  ASSUME IsTree(p), Root \in Paths, Readable(Root),
         \A i \in DOMAIN Is(Root) : Is(Root)[i].kind # "import"
  PROVE  ImportsOf(Root) = {} /\ Beneath(Root) = {} /\ MergedOf(LeftAlone(Is(Root)), {Root})
<1> DEFINE is == Is(Root)
           M == LeftAlone(is)
<1>1. /\ Len(is) \in Nat /\ DOMAIN is = 1..Len(is)
      /\ \A i \in DOMAIN is : is[i].kind = "decl"
      /\ ImportsOf(Root) = Imported(Root, End(Root))
  BY ImportsRead
<1>2. ImportsOf(Root) = {}
  BY <1>1 DEF Imported, ImportsTo
<1>3. Beneath(Root) = {}
  <2>1. Beneath(Root) \subseteq {}
    BY <1>2, BeneathStays
  <2> QED
    BY <2>1
<1>4. \A i \in DOMAIN is : i \in DeclsTo(Root, End(Root))
  BY <1>1 DEF DeclsTo, End
<1>5. DOMAIN M = DOMAIN is /\ M \in Seq(Among(M))
  <2>1. DOMAIN M = DOMAIN is /\ M = [i \in DOMAIN is |-> M[i]]
    BY DEF LeftAlone
  <2> HIDE DEF M, is
  <2>2. \A i \in DOMAIN is : M[i] \in Among(M)
    BY <2>1 DEF Among
  <2> DEFINE A == Among(M)
             n == Len(is)
  <2>3. n \in Nat /\ M = [i \in 1..n |-> M[i]] /\ \A i \in 1..n : M[i] \in A
    BY <2>1, <2>2, <1>1
  <2> HIDE DEF A, n
  <2>4. M \in Seq(A)
    BY <2>3
  <2> QED
    BY <2>1, <2>4 DEF A
<1>6. ASSUME NEW i \in DOMAIN is PROVE M[i].of = Root /\ M[i].at = i /\ MergedRight(M[i])
  <2> DEFINE uses == [j \in DOMAIN is[i].uses |-> AsWritten(is[i].uses[j])]
  <2>1. M[i] = [sym |-> is[i].name, of |-> Root, at |-> i, decl |-> is[i], uses |-> uses]
    BY DEF LeftAlone
  <2>2. ASSUME NEW j \in DOMAIN is[i].uses PROVE UseRight(Root, is[i].uses[j], uses[j])
    <3>1. \A x : Aliased(Root, x) = Nowhere
      <4>1. \A x : Given(Root, x, End(Root)) = {}
        BY <1>1 DEF Given, ImportsTo
      <4> QED
        BY <4>1, AliasedIs
    <3>2. \A x : Offering(Root, x) = {}
      BY <1>2 DEF Offering
    <3> QED
      BY <3>1, <3>2 DEF UseRight
  <2>3. DOMAIN uses = DOMAIN is[i].uses
    OBVIOUS
  <2> HIDE DEF uses, M
  <2>4. /\ M[i].of = Root /\ M[i].at = i /\ M[i].decl = is[i] /\ M[i].uses = uses
        /\ M[i].sym = M[i].decl.name
    <3> DEFINE d == is[i]
               sym == d.name
    <3> HIDE DEF d, sym
    <3>1. M[i] = [sym |-> sym, of |-> Root, at |-> i, decl |-> d, uses |-> uses]
      BY <2>1 DEF d, sym
    <3>2. M[i].of = Root /\ M[i].at = i /\ M[i].decl = d /\ M[i].uses = uses /\ M[i].sym = sym
      BY <3>1
    <3> QED
      BY <3>2 DEF d, sym
  <2> QED
    BY <2>2, <2>3, <2>4, <1>4 DEF MergedRight
<1>7. \A f \in {Root} : \A i \in DeclsTo(f, End(f)) : i \in DOMAIN is
  BY DEF DeclsTo
<1> HIDE DEF M
<1>8. MergedOf(M, {Root})
  <2>1. \A j, k \in DOMAIN M : j < k =>
          /\ M[j].of = M[k].of => M[j].at < M[k].at
          /\ M[k].of \notin Beneath(M[j].of)
    BY <1>3, <1>5, <1>6
  <2>2. \A k \in DOMAIN M : M[k].of \in {Root} /\ MergedRight(M[k])
    BY <1>5, <1>6
  <2>3. \A f \in {Root} : \A i \in DeclsTo(f, End(f)) : \E k \in DOMAIN M : M[k].of = f /\ M[k].at = i
    BY <1>5, <1>6, <1>7
  <2> QED
    BY <2>1, <2>2, <2>3, <1>5 DEF MergedOf
<1> QED
  BY <1>2, <1>3, <1>8 DEF M

LEMMA StartStep ==
  ASSUME IInv, Start
  PROVE  IInv'
<1> DEFINE got == Load(Root)
           frame == Frame(Root, <<>>, got.items)
           good == got.ok /\ Parses(got)
           none == \A i \in DOMAIN got.items : got.items[i].kind # "import"
<1>1. IsTree(p) /\ Shape /\ stack = <<>> /\ verdict = "none"
  BY DEF IInv, Start
<1>2. entries = Empty /\ merged = <<>> /\ errors = FALSE
  BY <1>1 DEF Shape
<1>3. p' = p /\ entries' = Empty /\ errors' = FALSE
  BY <1>2 DEF Start
<1>4. good => Root \in Paths /\ Readable(Root)
  <2>1. got.ok => Root \in Paths
    BY DEF Load, Failed
  <2> QED
    BY <2>1, <1>1, GoodIsReadable
<1>5. Sound => good
  BY <1>1, GoodIsReadable DEF Sound
<1>6. ClosedOk(Empty) = {} /\ DOMAIN Empty = {} /\ \A S : EntriesRight(Empty, S)
  BY NothingEntered
<1>7. CASE ~good
  <2>1. verdict' = "failed" /\ stack' = <<>> /\ merged' = <<>>
    BY <1>1, <1>2, <1>7 DEF Start
  <2>2. StackRight(stack', entries') /\ EntriesRight(entries', stack')
    BY <2>1, <1>3, <1>6, EmptyStack
  <2>3. Shape'
    BY <2>1, <1>3 DEF Shape
  <2>4. NoFault(entries', stack', errors', verdict') /\ MergedSoFar(merged', entries', verdict')
    BY <1>5, <1>7 DEF NoFault, MergedSoFar
  <2>5. AcceptedSound(entries', verdict')
    BY <2>1 DEF AcceptedSound
  <2> QED
    BY <2>2, <2>3, <2>4, <2>5, <1>1, <1>3, Stepped
<1>8. CASE good /\ none
  <2>1. verdict' = "ok" /\ stack' = <<>> /\ merged' = LeftAlone(got.items)
    BY <1>1, <1>8 DEF Start, LeftAlone
  <2>2. ImportsOf(Root) = {} /\ Beneath(Root) = {} /\ MergedOf(LeftAlone(got.items), {Root})
    BY <1>1, <1>4, <1>8, LeftAloneRight DEF Is
  <2>3. Sound
    BY <2>2, <1>4, <1>8 DEF Sound
  <2>4. StackRight(stack', entries') /\ EntriesRight(entries', stack')
    BY <2>1, <1>3, <1>6, EmptyStack
  <2>5. Shape'
    BY <2>1, <1>3 DEF Shape
  <2>6. NoFault(entries', stack', errors', verdict')
    <3>1. DOMAIN stack' = {} /\ DOMAIN entries' = {}
      BY <2>1, <1>3, <1>6
    <3> QED
      BY <3>1, <2>1, <1>3 DEF NoFault
  <2>7. AcceptedSound(entries', verdict')
    BY <2>2, <2>3 DEF AcceptedSound
  <2>8. MergedSoFar(merged', entries', verdict')
    <3>1. InMerged(entries', verdict') = {Root}
      BY <2>1, <1>3, <1>6 DEF InMerged
    <3> QED
      BY <3>1, <2>1, <2>2 DEF MergedSoFar
  <2> QED
    BY <2>4, <2>5, <2>6, <2>7, <2>8, <1>1, <1>3, Stepped
<1>9. CASE good /\ ~none
  <2>1. verdict' = "none" /\ stack' = <<frame>> /\ merged' = <<>>
    BY <1>1, <1>2, <1>9 DEF Start
  <2>2. ImportsOf(Root) # {}
    <3>1. PICK i \in DOMAIN Is(Root) : Is(Root)[i].kind = "import"
      BY <1>9 DEF Is
    <3>2. ImportAt(Root, i) /\ i \in Nat
      BY <3>1, <1>1, <1>4, <1>9, ImportsRead DEF ImportAt
    <3> QED
      BY <3>2, <1>1, <1>4, <1>9, ImportPassed
  <2>3. frame = Frame(Root, <<>>, Is(Root)) /\ frame.path = Root /\ frame.ok = TRUE
    BY DEF Is, Frame
  <2> HIDE DEF frame
  <2>4. FrameRight(1, frame, Empty)
    BY <2>2, <2>3, <1>1, <1>4, <1>9, NewFrame
  <2>5. StackRight(<<frame>>, Empty)
    <3>1. Len(<<>>) = 0 /\ Append(<<>>, frame) = <<frame>> /\ 0 + 1 = 1 /\ \A k \in 2..0 : FALSE
      OBVIOUS
    <3>2. StackRight(<<>>, Empty) /\ Grows(Empty, Empty)
      BY EmptyStack DEF Grows, ClosedOk
    <3>3. StackRight(Append(<<>>, frame), Empty)
      BY <3>1, <3>2, <2>3, <2>4, <1>1, <1>4, <1>9, PushedRight
    <3> QED
      BY <3>1, <3>3
  <2>6. stack' # <<>> /\ DOMAIN stack' = {1} /\ stack'[1] = frame
    BY <2>1
  <2>7. EntriesRight(entries', stack') /\ StackRight(stack', entries')
    BY <2>1, <2>5, <1>3, <1>6
  <2>8. NoFault(entries', stack', errors', verdict')
    BY <2>1, <2>3, <2>6, <1>3, <1>6 DEF NoFault
  <2>9. ClosedOk(entries') = ClosedOk(entries)
    BY <1>2, <1>3
  <2> QED
    BY <2>1, <2>6, <2>7, <2>8, <2>9, <1>1, <1>2, <1>3, Onward
<1> QED
  BY <1>7, <1>8, <1>9

\* The invariant holds throughout, for every source tree.
THEOREM Invariance == Spec => []IInv
<1>1. Init => IInv
  BY InitHolds
<1>2. IInv /\ [Next]_vars => IInv'
  <2> SUFFICES ASSUME IInv, [Next]_vars PROVE IInv'
    OBVIOUS
  <2>1. CASE Start
    BY <2>1, StartStep
  <2>2. CASE Missing
    BY <2>2, MissingStep
  <2>3. CASE Again
    BY <2>3, AgainStep
  <2>4. CASE Visit
    BY <2>4, VisitStep
  <2>5. CASE Declare
    BY <2>5, DeclareStep
  <2>6. CASE Finish
    BY <2>6, RootStep, ModuleStep
  <2>7. CASE UNCHANGED vars
    <3>1. /\ p' = p /\ entries' = entries /\ stack' = stack /\ merged' = merged
          /\ errors' = errors /\ verdict' = verdict
      BY <2>7 DEF vars
    <3>2. Shape'
      BY <3>1 DEF IInv, Shape
    <3> QED
      BY <3>1, <3>2, Stepped DEF IInv
  <2>8. CASE Done
    BY <2>7, <2>8 DEF Done
  <2> QED
    BY <2>1, <2>2, <2>3, <2>4, <2>5, <2>6, <2>7, <2>8 DEF Next
<1> QED
  BY <1>1, <1>2, PTL DEF Spec

\* An alias stands for a module the file imports.
LEMMA AliasedIsImported ==
  ASSUME IsTree(p), NEW f \in Paths, Readable(f), NEW x, Aliased(f, x) # Nowhere
  PROVE  Aliased(f, x) \in ImportsOf(f)
<1> DEFINE given == {i \in DOMAIN Is(f) : Is(f)[i].kind = "import" /\ Is(f)[i].as = x}
           c == CHOOSE i \in given : \A j \in given : j <= i
<1>1. /\ Is(f) \in Seq(Items) /\ Len(Is(f)) \in Nat /\ DOMAIN Is(f) = 1..Len(Is(f))
      /\ ImportsOf(f) = Imported(f, End(f))
  BY ImportsRead
<1>2. Aliased(f, x) = IF given = {} THEN Nowhere ELSE Resolve(Is(f)[c].of)
  BY DEF Aliased, Is
<1>3. given # {}
  BY <1>2
<1>4. given \subseteq 1..Len(Is(f))
  BY <1>1
<1>5. c \in given
  <2>1. \E i \in given : \A j \in given : j <= i
    <3> DEFINE n == Len(Is(f))
    <3>1. n \in Nat /\ given \subseteq 1..n
      BY <1>1, <1>4
    <3> HIDE DEF given, n
    <3> QED
      BY <3>1, <1>3, GreatestOf
  <2> QED
    BY <2>1
<1>6. c \in ImportsTo(f, End(f))
  BY <1>1, <1>5 DEF ImportsTo, End
<1> QED
  BY <1>1, <1>2, <1>3, <1>6 DEF Imported

-----------------------------------------------------------------------------
(* The properties *)

\* ST_modules_process and st_compile accept a source tree just when all the
\* modules it needs can be found, read and parsed, import each other in no circle
\* and use of each other what is public: whatever the tree, no failure of
\* ST_module_process_file is lost on the way up and none left over is taken for
\* one of another importer.
THEOREM VerdictRight == Spec => []Verdict
<1>1. IInv => Verdict
  BY DEF IInv, Shape, NoFault, AcceptedSound, Verdict
<1> QED
  BY <1>1, Invariance, PTL

\* What is known of an accepted program.
LEMMA AcceptedIs ==
  ASSUME IInv, verdict = "ok"
  PROVE  /\ MergedOf(merged, ClosedOk(entries) \union {Root})
         /\ Needed = ClosedOk(entries) \union {Root} /\ Root \notin Beneath(Root)
         /\ Sound /\ \A f \in ClosedOk(entries) : Finished(f, entries)
<1>1. Sound /\ Beneath(Root) \subseteq ClosedOk(entries)
  BY DEF IInv, AcceptedSound
<1>2. ClosedOk(entries) \subseteq Beneath(Root) /\ \A f \in ClosedOk(entries) : Finished(f, entries)
  BY DEF IInv, EntriesRight, ClosedOk
<1>3. InMerged(entries, verdict) = ClosedOk(entries) \union {Root}
  BY DEF InMerged
<1>4. MergedOf(merged, ClosedOk(entries) \union {Root})
  BY <1>1, <1>3 DEF IInv, MergedSoFar
<1>5. Root \notin Beneath(Root)
  BY <1>1, <1>2, ClosedAre DEF IInv
<1> QED
  BY <1>1, <1>2, <1>4, <1>5 DEF Needed

\* The program an accepted tree is compiled to has every declaration of every
\* module it needs once, in the order of its file and behind those of the modules
\* its file imports, whatever the tree and however many imports lead to a module:
\* ST_module_process_file appends a file's declarations when it is done with it.
THEOREM OnceAndInOrderHolds == Spec => []OnceAndInOrder
<1>1. IInv => OnceAndInOrder
  <2> SUFFICES ASSUME IInv, verdict = "ok"
               PROVE  /\ \A f \in Needed : LET is == Load(f).items IN
                           \A i \in DOMAIN is : is[i].kind = "decl" =>
                             \E k \in DOMAIN merged : merged[k].of = f /\ merged[k].at = i
                      /\ \A k \in DOMAIN merged :
                           /\ merged[k].of \in Needed
                           /\ merged[k].decl = Load(merged[k].of).items[merged[k].at]
                           /\ \A j \in 1..(k - 1) :
                                /\ merged[j].of = merged[k].of => merged[j].at < merged[k].at
                                /\ merged[k].of \notin Beneath(merged[j].of)
    BY DEF OnceAndInOrder
  <2>1. MergedOf(merged, Needed) /\ Sound /\ IsTree(p)
    BY AcceptedIs DEF IInv
  <2>2. ASSUME NEW f \in Needed, NEW i \in DOMAIN Is(f), Is(f)[i].kind = "decl"
        PROVE  \E k \in DOMAIN merged : merged[k].of = f /\ merged[k].at = i
    <3>1. f \in Paths /\ Readable(f)
      BY <2>1, AcceptedIs, BeneathInPaths DEF Needed, Sound, Finished
    <3>2. i \in DeclsTo(f, End(f))
      BY <3>1, <2>1, <2>2, ImportsRead DEF DeclsTo, End
    <3> QED
      BY <3>2, <2>1 DEF MergedOf
  <2>3. ASSUME NEW k \in DOMAIN merged
        PROVE  /\ merged[k].of \in Needed /\ merged[k].decl = Is(merged[k].of)[merged[k].at]
               /\ \A j \in 1..(k - 1) :
                    /\ merged[j].of = merged[k].of => merged[j].at < merged[k].at
                    /\ merged[k].of \notin Beneath(merged[j].of)
    <3>1. DOMAIN merged = 1..Len(merged) /\ Len(merged) \in Nat
      <4> DEFINE A == Among(merged)
      <4>1. merged \in Seq(A)
        BY <2>1 DEF MergedOf
      <4> HIDE DEF A
      <4> QED
        BY <4>1
    <3>2. \A j \in 1..(k - 1) : j \in DOMAIN merged /\ j < k
      BY <3>1
    <3> QED
      BY <3>2, <2>1 DEF MergedOf, MergedRight
  <2> QED
    BY <2>2, <2>3 DEF Is
<1> QED
  BY <1>1, Invariance, PTL

\* What is put in front of the names of a file.
Prefix(f) == IF f = Root THEN <<>> ELSE f[2]

\* If two sequences are the same and their ends are of one length, so are their
\* beginnings.
LEMMA SameBeginning ==
  ASSUME NEW T, NEW a \in Seq(T), NEW b \in Seq(T), NEW x \in Seq(T), NEW y \in Seq(T),
         a \o x = b \o y, Len(x) = Len(y)
  PROVE  a = b
<1>1. /\ Len(a) \in Nat /\ Len(b) \in Nat /\ Len(x) \in Nat
      /\ Len(a \o x) = Len(a) + Len(x) /\ Len(b \o y) = Len(b) + Len(y)
  OBVIOUS
<1>2. Len(a) = Len(b)
  BY <1>1
<1>3. ASSUME NEW i \in 1..Len(a) PROVE a[i] = b[i]
  <2>1. (a \o x)[i] = a[i] /\ (b \o y)[i] = b[i]
    BY <1>1, <1>2
  <2> QED
    BY <2>1
<1>4. a = [i \in 1..Len(a) |-> a[i]] /\ b = [i \in 1..Len(b) |-> b[i]]
  OBVIOUS
<1> QED
  BY <1>2, <1>3, <1>4

\* What is known of a declaration of an accepted program.
LEMMA SymbolIs ==
  ASSUME IInv, verdict = "ok", \A f \in Needed : OneLinkage(f), NEW k \in DOMAIN merged
  PROVE  /\ merged[k].of \in Needed /\ merged[k].decl.name \in Name
         /\ merged[k].sym = IF merged[k].decl.extern THEN merged[k].decl.name
                            ELSE Prefix(merged[k].of) \o merged[k].decl.name
<1>1. /\ MergedOf(merged, Needed) /\ IsTree(p) /\ Sound /\ Needed = ClosedOk(entries) \union {Root}
      /\ \A f \in ClosedOk(entries) : Finished(f, entries)
  BY AcceptedIs DEF IInv
<1> DEFINE g == merged[k].of
           d == merged[k].decl
<1>2. g \in Needed /\ MergedRight(merged[k])
  BY <1>1 DEF MergedOf
<1>3. g \in Paths /\ Readable(g)
  BY <1>1, <1>2, BeneathInPaths DEF Needed, Sound, Finished
<1>4. All(g, "decl") = {Is(g)[i] : i \in DeclsTo(g, End(g))}
  BY <1>1, <1>3, ImportsRead
<1>5. d \in All(g, "decl")
  BY <1>2, <1>4 DEF MergedRight
<1>6. /\ Is(g) \in Seq(Items) /\ DOMAIN Is(g) = 1..Len(Is(g))
      /\ merged[k].at \in DOMAIN Is(g) /\ d = Is(g)[merged[k].at] /\ d.kind = "decl"
  BY <1>1, <1>2, <1>3, ImportsRead DEF MergedRight, DeclsTo
<1>7. d \in Items
  <2> DEFINE is == Is(g)
             T == Items
             at == merged[k].at
  <2>1. is \in Seq(T) /\ at \in DOMAIN is
    BY <1>6
  <2> HIDE DEF is, T, at
  <2>2. is[at] \in T
    BY <2>1
  <2> HIDE DEF d
  <2> QED
    BY <2>2, <1>6 DEF is, T, at
<1>8. d.name \in Name
  <2> HIDE DEF d
  <2> QED
    BY <1>6, <1>7 DEF Items, Decls
<1>9. CASE g = Root
  <2>1. merged[k].sym = d.name
    BY <1>2, <1>9 DEF MergedRight
  <2>2. d.name \in Seq(STRING)
    BY <1>8 DEF Name
  <2>3. <<>> \o d.name = d.name
    <3> DEFINE x == d.name
    <3>1. x \in Seq(STRING)
      BY <2>2
    <3> HIDE DEF x
    <3>2. <<>> \o x = x
      BY <3>1
    <3> QED
      BY <3>2 DEF x
  <2> QED
    BY <2>1, <2>3, <1>2, <1>8, <1>9 DEF Prefix
<1>10. CASE g # Root
  <2>1. merged[k].sym \in Symbols(g, d.name)
    BY <1>2, <1>10 DEF MergedRight
  <2>2. PICK i \in Named(g, d.name, End(g)) : merged[k].sym = Mangled(g[2], Is(g)[i])
    BY <2>1 DEF Symbols
  <2>3. Is(g)[i] \in All(g, "decl") /\ Is(g)[i].name = d.name
    BY <2>2, <1>4 DEF Named
  <2>4. Is(g)[i].extern = d.extern
    BY <2>3, <1>2, <1>5 DEF OneLinkage
  <2>5. merged[k].sym = IF d.extern THEN d.name ELSE g[2] \o d.name
    BY <2>2, <2>3, <2>4 DEF Mangled
  <2> QED
    BY <2>5, <1>2, <1>8, <1>10 DEF Prefix
<1> QED
  BY <1>9, <1>10

\* The files of an accepted program are told apart by what is put in front.
LEMMA PrefixTells ==
  ASSUME IInv, verdict = "ok", NEW g \in Needed, NEW h \in Needed
  PROVE  Prefix(g) \in Seq(STRING) /\ (Prefix(g) = Prefix(h) => g = h)
<1>1. /\ IsTree(p) /\ Needed = ClosedOk(entries) \union {Root}
      /\ \A f \in ClosedOk(entries) : Finished(f, entries)
  BY AcceptedIs DEF IInv
<1>2. ASSUME NEW f \in Needed, f # Root
      PROVE  f[2] \in Seq(STRING) /\ f[2] # <<>> /\ f = Resolve(f[2])
  <2>1. f \in ClosedOk(entries) /\ f = Resolve(f[2])
    BY <1>1, <1>2 DEF Finished
  <2>2. f \in Path
    <3>1. f \in Beneath(Root) /\ Beneath(Root) \subseteq Paths
      BY <1>2, BeneathInPaths DEF Needed
    <3> QED
      BY <3>1, <1>1 DEF IsTree, Paths
  <2> QED
    BY <2>1, <2>2 DEF Path, Name
<1>3. /\ g = Root => Prefix(g) = <<>>
      /\ g # Root => Prefix(g) = g[2] /\ g[2] \in Seq(STRING) /\ g[2] # <<>> /\ g = Resolve(g[2])
      /\ h = Root => Prefix(h) = <<>>
      /\ h # Root => Prefix(h) = h[2] /\ h[2] # <<>> /\ h = Resolve(h[2])
  BY <1>2 DEF Prefix
<1>4. Prefix(g) \in Seq(STRING)
  <2>1. <<>> \in Seq(STRING)
    OBVIOUS
  <2>2. CASE g = Root
    BY <2>1, <2>2, <1>3
  <2>3. CASE g # Root
    BY <2>3, <1>3
  <2> QED
    BY <2>2, <2>3
<1>5. ASSUME Prefix(g) = Prefix(h) PROVE g = h
  <2>1. CASE g = Root /\ h = Root
    BY <2>1
  <2>2. CASE g # Root /\ h # Root
    BY <2>2, <1>3, <1>5
  <2>3. CASE (g = Root /\ h # Root) \/ (g # Root /\ h = Root)
    BY <2>3, <1>3, <1>5
  <2> QED
    BY <2>1, <2>2, <2>3
<1> QED
  BY <1>4, <1>5

Alone(m, j) ==
  m[j].decl.extern \/ \A h \in DOMAIN m : m[h].sym = m[j].sym =>
    m[h].of = m[j].of \/ m[h].decl.extern \/ Len(m[h].decl.name) # Len(m[j].decl.name)

\* Externs and names split elsewhere aside, a symbol is that of one file.
LEMMA BearersRight ==
  ASSUME IInv, verdict = "ok", \A f \in Needed : OneLinkage(f), NEW j \in DOMAIN merged
  PROVE  Alone(merged, j)
<1> SUFFICES ASSUME ~merged[j].decl.extern, NEW h \in DOMAIN merged, merged[h].sym = merged[j].sym,
                    ~merged[h].decl.extern, Len(merged[h].decl.name) = Len(merged[j].decl.name)
             PROVE  merged[h].of = merged[j].of
  BY DEF Alone
<1> DEFINE x == merged[h].decl.name
           y == merged[j].decl.name
           a == Prefix(merged[h].of)
           b == Prefix(merged[j].of)
<1>1. /\ merged[h].of \in Needed /\ x \in Name /\ merged[h].sym = a \o x
      /\ merged[j].of \in Needed /\ y \in Name /\ merged[j].sym = b \o y
  BY SymbolIs
<1>2. a \in Seq(STRING) /\ b \in Seq(STRING)
  BY <1>1, PrefixTells
<1>3. a \o x = b \o y /\ Len(x) = Len(y)
  BY <1>1
<1>4. x \in Seq(STRING) /\ y \in Seq(STRING)
  BY <1>1 DEF Name
<1>5. a = b
  <2> HIDE DEF a, b, x, y
  <2> QED
    BY <1>2, <1>3, <1>4, SameBeginning
<1> QED
  BY <1>1, <1>5, PrefixTells

Borne(m, g, x, sym) == \E j \in DOMAIN m : m[j].sym = sym /\ m[j].of = g /\ m[j].decl.name = x

\* A symbol of a name in a module is borne by a declaration of that name there.
LEMMA SomeBearer ==
  ASSUME IInv, verdict = "ok", \A f \in Needed : OneLinkage(f),
         NEW g \in Needed, g # Root, NEW x, NEW sym \in Symbols(g, x)
  PROVE  Borne(merged, g, x, sym)
<1>1. /\ MergedOf(merged, Needed) /\ IsTree(p) /\ Needed = ClosedOk(entries) \union {Root}
      /\ \A f \in ClosedOk(entries) : Finished(f, entries)
  BY AcceptedIs DEF IInv
<1>2. g \in Paths /\ Readable(g)
  BY <1>1, BeneathInPaths DEF Needed, Finished
<1>3. PICK i \in Named(g, x, End(g)) : sym = Mangled(g[2], Is(g)[i])
  BY DEF Symbols
<1>4. i \in DeclsTo(g, End(g)) /\ Is(g)[i].name = x
  BY <1>3 DEF Named
<1>5. \A d, e \in All(g, "decl") : d.name = e.name => d.extern = e.extern
  BY DEF OneLinkage
<1>6. All(g, "decl") = {Is(g)[k] : k \in DeclsTo(g, End(g))}
  BY <1>1, <1>2, ImportsRead
<1>7. \A s \in Symbols(g, x) : s = sym
  <2> SUFFICES ASSUME NEW s \in Symbols(g, x) PROVE s = sym
    OBVIOUS
  <2>1. PICK k \in Named(g, x, End(g)) : s = Mangled(g[2], Is(g)[k])
    BY DEF Symbols
  <2>2. k \in DeclsTo(g, End(g)) /\ Is(g)[k].name = x
    BY <2>1 DEF Named
  <2>3. Is(g)[k] \in All(g, "decl") /\ Is(g)[i] \in All(g, "decl")
    BY <2>2, <1>4, <1>6
  <2>4. Is(g)[k].extern = Is(g)[i].extern
    BY <2>2, <2>3, <1>4, <1>5
  <2> QED
    BY <2>1, <2>2, <2>4, <1>3, <1>4 DEF Mangled
<1>8. PICK j \in DOMAIN merged : merged[j].of = g /\ merged[j].at = i
  BY <1>1, <1>4 DEF MergedOf
<1>9. merged[j].decl = Is(g)[i] /\ merged[j].sym \in Symbols(g, merged[j].decl.name)
  BY <1>1, <1>8 DEF MergedOf, MergedRight
<1>10. merged[j].sym = sym /\ merged[j].decl.name = x
  BY <1>4, <1>7, <1>9
<1> QED
  BY <1>8, <1>10 DEF Borne

\* A use has the symbol of a declaration of x in one of the files of meant, and
\* of none elsewhere, externs and names split elsewhere aside.
Right(m, sym, x, meant) ==
  \E j \in {k \in DOMAIN m : m[k].sym = sym} :
    /\ m[j].of \in meant /\ m[j].decl.name = x
    /\ m[j].decl.extern \/ \A h \in {k \in DOMAIN m : m[k].sym = sym} :
         \/ m[h].of \in meant \/ m[h].decl.extern
         \/ Len(m[h].decl.name) # Len(x)

LEMMA BorneRight ==
  ASSUME IInv, verdict = "ok", \A f \in Needed : OneLinkage(f), NEW g, NEW x, NEW sym,
         Borne(merged, g, x, sym)
  PROVE  Right(merged, sym, x, {g})
<1>1. PICK j \in DOMAIN merged : merged[j].sym = sym /\ merged[j].of = g /\ merged[j].decl.name = x
  BY DEF Borne
<1>2. Alone(merged, j)
  BY BearersRight
<1> QED
  BY <1>1, <1>2 DEF Alone, Right

\* ST_modrw_decl gives every use in an accepted tree the symbol of the
\* declaration it means, whatever the tree: through an alias, of the file's own or
\* of the one import that offers the name; and ST_mangle gives no declaration of
\* another file that symbol, externs and names split elsewhere aside.
THEOREM NamesRightHolds == Spec => []NamesRight
<1>1. IInv => NamesRight
  <2> SUFFICES ASSUME IInv, verdict = "ok", \A f \in Needed : OneLinkage(f),
                      NEW k \in DOMAIN merged, NEW i \in DOMAIN merged[k].uses
               PROVE  LET f == merged[k].of
                          u == merged[k].decl.uses[i]
                          sym == merged[k].uses[i]
                          x == Wanted(f, u)
                          meant == Meant(f, u)
                      IN  Hidden(f, u) \/ Stranded(f, u) \/
                          IF meant = {} THEN sym = x ELSE Right(merged, sym, x, meant)
    BY DEF NamesRight, Right
  <2> DEFINE f == merged[k].of
             u == merged[k].decl.uses[i]
             x == Wanted(f, u)
             sym == merged[k].uses[i]
             meant == Meant(f, u)
             own == \E d \in All(f, "decl") : d.name = x
  <2>1. /\ MergedOf(merged, Needed) /\ IsTree(p) /\ Sound /\ Root \notin Beneath(Root)
        /\ Needed = ClosedOk(entries) \union {Root} /\ \A g \in ClosedOk(entries) : Finished(g, entries)
    BY AcceptedIs DEF IInv
  <2>2. f \in Needed /\ UseRight(f, u, sym)
    BY <2>1 DEF MergedOf, MergedRight
  <2>3. f \in Paths /\ Readable(f)
    BY <2>1, <2>2, BeneathInPaths DEF Needed, Sound, Finished
  <2>4. \A g \in ImportsOf(f) : g # Nowhere => g \in Needed /\ g # Root
    <3>1. \A g \in ImportsOf(f) : g # Nowhere => g \in Beneath(Root)
      BY <2>1, <2>2, BeneathStarts, BeneathGoesOn DEF Needed
    <3> QED
      BY <3>1, <2>1 DEF Needed
  <2>5. ASSUME NEW g \in Needed, g # Root, sym \in Symbols(g, x) PROVE Right(merged, sym, x, {g})
    <3> HIDE DEF x, sym
    <3>1. Borne(merged, g, x, sym)
      BY <2>5, SomeBearer
    <3> QED
      BY <3>1, BorneRight
  <2>6. All(f, "decl") = {Is(f)[j] : j \in DeclsTo(f, End(f))}
    BY <2>1, <2>3, ImportsRead
  <2>7. ASSUME own, f = Root, sym = x PROVE Right(merged, sym, x, {Root})
    <3>1. PICK n \in DeclsTo(f, End(f)) : Is(f)[n].name = x
      BY <2>6, <2>7
    <3>2. PICK j \in DOMAIN merged : merged[j].of = f /\ merged[j].at = n
      BY <3>1, <2>1, <2>2 DEF MergedOf
    <3>3. merged[j].decl = Is(f)[n] /\ merged[j].sym = merged[j].decl.name
      BY <3>2, <2>1, <2>7 DEF MergedOf, MergedRight
    <3> HIDE DEF x, sym
    <3>4. Borne(merged, Root, x, sym)
      BY <3>1, <3>2, <3>3, <2>7 DEF Borne
    <3> QED
      BY <3>4, BorneRight
  <2> HIDE DEF f, u, sym
  <2>8. Hidden(f, u) \/ Stranded(f, u) \/ IF meant = {} THEN sym = x ELSE Right(merged, sym, x, meant)
    <3>1. CASE Aliased(f, u.via) # Nowhere
      <4> DEFINE g == Aliased(f, u.via)
      <4>1. meant = {g} /\ x = u.name
        BY <3>1 DEF Meant, Wanted
      <4>2. sym \in Symbols(g, x)
        BY <4>1, <3>1, <2>2 DEF UseRight
      <4>3. g \in ImportsOf(f)
        BY <3>1, <2>1, <2>3, AliasedIsImported
      <4>4. Right(merged, sym, x, {g})
        BY <4>2, <4>3, <3>1, <2>4, <2>5
      <4> QED
        BY <4>1, <4>4
    <3>2. CASE Aliased(f, u.via) = Nowhere
      <4> DEFINE one == \E g \in Paths : Offering(f, x) = {g}
                 alone == u.via = <<>> /\ u.kind = "generic"
      <4>1. x = AsWritten(u)
        BY <3>2 DEF Wanted
      <4>2. meant = IF own THEN {f} ELSE {g \in Offering(f, x) : Offering(f, x) = {g}}
        BY <3>2, <4>1 DEF Meant
      <4>3. IF alone THEN sym = x
            ELSE IF f # Root /\ own THEN sym \in Symbols(f, x)
            ELSE \/ \E g \in Paths : Offering(f, x) = {g} /\ sym \in Symbols(g, x)
                 \/ ~one /\ sym = x
        BY <3>2, <4>1, <2>2 DEF UseRight
      <4>4. ~own => Root \notin meant
        <5> SUFFICES ASSUME ~own, Root \in meant PROVE FALSE
          OBVIOUS
        <5>1. Root \in Offering(f, x)
          BY <4>2
        <5>2. Root \in ImportsOf(f)
          BY <5>1 DEF Offering
        <5>3. Root # Nowhere
          BY DEF Root, Nowhere
        <5> QED
          BY <5>2, <5>3, <2>4
      <4>5. CASE alone
        <5>1. Stranded(f, u) \/ meant \subseteq {Root}
          BY <4>5 DEF Stranded
        <5>2. meant = {Root} => own /\ f = Root
          BY <4>2, <4>4
        <5> HIDE DEF x, meant, own
        <5> QED
          BY <5>1, <5>2, <4>3, <4>5, <2>7
      <4>6. CASE ~alone /\ own /\ f # Root
        <5>1. meant = {f} /\ sym \in Symbols(f, x)
          BY <4>2, <4>3, <4>6
        <5> QED
          BY <5>1, <4>6, <2>2, <2>5
      <4>7. CASE ~alone /\ own /\ f = Root
        <5>1. meant = {Root}
          BY <4>2, <4>7
        <5>2. CASE one
          BY <5>2, <4>1, <4>7, <3>2 DEF Hidden
        <5>3. CASE ~one
          <6>1. sym = x
            BY <4>3, <4>7, <5>3
          <6> QED
            BY <6>1, <5>1, <4>7, <2>7
        <5> QED
          BY <5>2, <5>3
      <4>8. CASE ~alone /\ ~own
        <5>1. meant = {g \in Offering(f, x) : Offering(f, x) = {g}}
          BY <4>2, <4>8
        <5>2. CASE one
          <6>1. PICK g \in Paths : Offering(f, x) = {g} /\ sym \in Symbols(g, x)
            BY <4>3, <4>8, <5>2
          <6>2. meant = {g} /\ g \in ImportsOf(f) /\ g # Nowhere
            BY <6>1, <5>1, <2>1, PathsAreSomewhere DEF Offering
          <6> QED
            BY <6>1, <6>2, <2>4, <2>5
        <5>3. CASE ~one
          <6>1. sym = x
            BY <4>3, <4>8, <5>3
          <6>2. meant = {}
            <7>1. ASSUME NEW g \in Offering(f, x), Offering(f, x) = {g} PROVE FALSE
              <8>1. g \notin Paths /\ g \in ImportsOf(f)
                BY <7>1, <5>3 DEF Offering
              <8>2. g = Nowhere
                BY <8>1, <2>1, ImportsInPaths
              <8>3. Nowhere \notin ImportsOf(f)
                BY <2>1, <2>2, <8>1 DEF Finished, Sound
              <8> QED
                BY <8>1, <8>2, <8>3
            <7> QED
              BY <7>1, <5>1
          <6> QED
            BY <6>1, <6>2
        <5> QED
          BY <5>2, <5>3
      <4> QED
        BY <4>5, <4>6, <4>7, <4>8
    <3> QED
      BY <3>1, <3>2
  <2> QED
    BY <2>8 DEF f, u, sym
<1> QED
  BY <1>1, Invariance, PTL
=============================================================================
