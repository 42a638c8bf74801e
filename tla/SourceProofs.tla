---------------------------- MODULE SourceProofs ----------------------------
(***************************************************************************)
(* Proofs about what is made of many source files: the modules of a program  *)
(* (ModuleLoader), then the documents of an editor (LanguageServer).         *)
(***************************************************************************)
EXTENDS ModuleLoader, LanguageServer, FiniteSetTheorems, FunctionTheorems, SequenceTheorems,
        TLAPS

-----------------------------------------------------------------------------
(***************************************************************************)
(* Proofs about ModuleLoader, for any modules and texts.                     *)
(*                                                                         *)
(* The files being checked are a path of imports; loading_ has their modules  *)
(* but the program's own.  What is in the cache is a module that is good with *)
(* all it reaches, and a file that has gone bad is not good: so a module that *)
(* fails may be met again any number of times.                                *)
(***************************************************************************)

Decls(m) == DeclsOf(src[m])

\* m and all that it reaches is found, parses, is in no cycle and checks.
Good(texts, m) ==
  \A n \in Needs(texts, m) :
    /\ texts[n] \notin {NotFound, Unparsable}
    /\ ~InCycle(texts, n) /\ ~Redefines(texts, n) /\ ~CallsUnknown(texts, n)

\* What declaration d puts into the scope of its file.
NamesOf(texts, d) == IF d.kind = "import" THEN Exported(texts, d.of) ELSE {d.name}

IsFile(f) == f = [mod |-> f.mod, at |-> f.at, scope |-> f.scope, bad |-> f.bad]

\* What file f has gone through: nothing is wrong with it unless something is wrong
\* with its module, and all it imported is loaded.
FileOK(texts, loaded, f) ==
  LET ds == DeclsOf(texts[f.mod])
  IN  /\ IsFile(f)
      /\ f.mod \in Modules /\ texts[f.mod] \notin {NotFound, Unparsable}
      /\ f.bad \in BOOLEAN /\ f.at \in 1..(Len(ds) + 1)
      /\ f.bad => ~Good(texts, f.mod)
      /\ ~f.bad =>
           /\ \A j \in 1..(f.at - 1) : ds[j].kind = "import" => ds[j].of \in loaded
           /\ \A i \in 1..(f.at - 1) : \A j \in 1..(i - 1) :
                ds[i].kind = "func" => ds[i].name \notin NamesOf(texts, ds[j])
           /\ DOMAIN f.scope = UNION {NamesOf(texts, ds[j]) : j \in 1..(f.at - 1)}

IsSeq(s) == \E S : s \in Seq(S)

\* Each file but the first is checked for an import of the one before.
PathOK(texts, files, loads) ==
  /\ IsSeq(files)
  /\ Len(files) >= 1 /\ files[1].mod = Program
  /\ loads = {files[i].mod : i \in 2..Len(files)}
  /\ \A i, j \in 2..Len(files) : files[i].mod = files[j].mod => i = j
  /\ \A i \in 1..(Len(files) - 1) :
       LET ds == DeclsOf(texts[files[i].mod])
       IN  /\ files[i].at <= Len(ds)
           /\ ds[files[i].at].kind = "import" /\ ds[files[i].at].of = files[i + 1].mod
  /\ \A i, j \in 1..Len(files) : i <= j => files[j].mod \in Needs(texts, files[i].mod)

\* File f after one more declaration.
GoneOn(f, names, bad) == [f EXCEPT !.at = @ + 1, !.scope = Extend(@, names), !.bad = @ \/ bad]

CacheOK ==
  \A m \in DOMAIN cache : m \in Modules /\ Good(src, m) /\ DOMAIN cache[m].exports = Exported(src, m)

RefusalsOK ==
  \A r \in refusals :
    /\ r[1] \in Modules /\ r[2] \in {"circular", "notFound", "moduleError"} /\ r[3] \in Modules
    /\ r = <<r[1], r[2], r[3]>>
    /\ r[2] = "circular" => r[1] \in Needs(src, r[3])

LoaderInv ==
  /\ src \in Worlds /\ verdict \in {"running", "accepted", "refused"}
  /\ PathOK(src, checking, loading) /\ (\A i \in 1..Len(checking) : FileOK(src, DOMAIN cache, checking[i])) /\ CacheOK /\ RefusalsOK
  /\ verdict # "running" => (verdict = "accepted" <=> Good(src, Program))

-----------------------------------------------------------------------------
(* What a module needs.                                                      *)

\* The declarations of a text.
LEMMA DeclsAre ==
  ASSUME src \in Worlds, NEW m \in Modules
  PROVE  /\ Decls(m) \in Seq(ToSet(Decls(m))) /\ Len(Decls(m)) \in Nat /\ DOMAIN Decls(m) = 1..Len(Decls(m))
         /\ \A i \in 1..Len(Decls(m)) :
              /\ Decls(m)[i].kind = "import" => Decls(m)[i].of \in Modules
              /\ Decls(m)[i].kind # "import" => Decls(m)[i].kind = "func" /\ Decls(m)[i].pub \in BOOLEAN
              /\ Decls(m)[i] \in ToSet(Decls(m))
         /\ \A d \in ToSet(Decls(m)) : \E i \in 1..Len(Decls(m)) : d = Decls(m)[i]
<1> DEFINE ds == Decls(m)
<1>1. /\ ds \in Seq(ToSet(ds))
      /\ \A d \in ToSet(ds) : (d.kind = "import" /\ d.of \in Modules) \/ (d.kind = "func" /\ d.pub \in BOOLEAN)
  BY WorldsAssumption DEF Decls
<1> HIDE DEF ds
<1>2. Len(ds) \in Nat /\ DOMAIN ds = 1..Len(ds)
  BY <1>1
<1>3. (\A i \in 1..Len(ds) : ds[i] \in ToSet(ds)) /\ \A d \in ToSet(ds) : \E i \in 1..Len(ds) : d = ds[i]
  BY <1>2 DEF ToSet
<1>4. \A i \in 1..Len(ds) :
        /\ ds[i].kind = "import" => ds[i].of \in Modules
        /\ ds[i].kind # "import" => ds[i].kind = "func" /\ ds[i].pub \in BOOLEAN
  BY <1>1, <1>3
<1> QED BY <1>1, <1>2, <1>3, <1>4 DEF ds

\* What a text imports,
LEMMA ImportsAre ==
  ASSUME src \in Worlds, NEW m \in Modules
  PROVE  /\ ImportsIn(src[m]) \subseteq Modules
         /\ \A n : n \in ImportsIn(src[m]) <=>
              \E i \in 1..Len(Decls(m)) : Decls(m)[i].kind = "import" /\ Decls(m)[i].of = n
<1>1. \A n : n \in ImportsIn(src[m]) <=> \E d \in ToSet(Decls(m)) : d.kind = "import" /\ d.of = n
  BY DEF ImportsIn, Decls
<1>2. \A n : n \in ImportsIn(src[m]) <=> \E i \in 1..Len(Decls(m)) : Decls(m)[i].kind = "import" /\ Decls(m)[i].of = n
  BY SMTT(60), <1>1, DeclsAre
<1> QED BY SMTT(60), <1>2, DeclsAre

\* and the functions in it.
LEMMA FuncsAre ==
  ASSUME src \in Worlds, NEW m \in Modules
  PROVE  \A f : f \in FuncsIn(src[m]) <=> \E i \in 1..Len(Decls(m)) : Decls(m)[i].kind = "func" /\ Decls(m)[i] = f
<1>1. \A f : f \in FuncsIn(src[m]) <=> f \in ToSet(Decls(m)) /\ f.kind = "func"
  BY DEF FuncsIn, Decls
<1> QED BY <1>1, DeclsAre, SMTT(60)

\* A module needs itself, what it imports, and what that needs.
LEMMA NeedsSelf ==
  ASSUME NEW m \in Modules
  PROVE  m \in Needs(src, m)
BY DEF Needs

LEMMA NeedsImported ==
  ASSUME src \in Worlds, NEW m \in Modules, NEW n \in ImportsIn(src[m])
  PROVE  Needs(src, n) \subseteq Needs(src, m)
<1> SUFFICES ASSUME NEW k \in Needs(src, n), NEW names \in SUBSET Modules, m \in names, ImportClosed(src, names)
             PROVE  k \in names
  BY DEF Needs
<1>1. n \in names
  BY DEF ImportClosed
<1> QED BY <1>1 DEF Needs

LEMMA NeedsTwice ==
  ASSUME src \in Worlds, NEW m \in Modules, NEW n \in Needs(src, m)
  PROVE  Needs(src, n) \subseteq Needs(src, m)
<1> SUFFICES ASSUME NEW k \in Needs(src, n), NEW names \in SUBSET Modules, m \in names, ImportClosed(src, names)
             PROVE  k \in names
  BY DEF Needs
<1>1. n \in names
  BY DEF Needs
<1> QED BY <1>1 DEF Needs

\* And nothing else.
LEMMA NeedsOnly ==
  ASSUME src \in Worlds, NEW m \in Modules, NEW k \in Needs(src, m), k # m
  PROVE  \E n \in ImportsIn(src[m]) : k \in Needs(src, n)
<1> DEFINE names == {m} \cup UNION {Needs(src, n) : n \in ImportsIn(src[m])}
<1>1. names \in SUBSET Modules
  BY DEF Needs
<1>2. ASSUME NEW x \in names, NEW y \in ImportsIn(src[x]) PROVE y \in names
  <2>1. x \in Modules /\ y \in Modules
    BY <1>1, ImportsAre
  <2>2. y \in Needs(src, y) /\ y \in Needs(src, x)
    BY <2>1, NeedsSelf, NeedsImported
  <2>3. CASE x = m
    BY <2>2, <2>3
  <2>4. CASE x # m
    <3>1. PICK n \in ImportsIn(src[m]) : x \in Needs(src, n)
      BY <2>4
    <3>2. n \in Modules
      BY ImportsAre
    <3> QED BY <3>1, <3>2, <2>2, NeedsTwice
  <2> QED BY <2>3, <2>4
<1>3. ImportClosed(src, names)
  BY <1>2 DEF ImportClosed
<1>4. k \in names
  BY <1>1, <1>3 DEF Needs
<1> QED BY <1>4

\* What m needs is needed by the modules that need it.
LEMMA GoodImports ==
  ASSUME src \in Worlds, NEW m \in Modules, Good(src, m), NEW n \in ImportsIn(src[m])
  PROVE  Good(src, n)
BY NeedsImported DEF Good

\* A module is good if its imports are and nothing is wrong with its text.
LEMMA GoodFrom ==
  ASSUME src \in Worlds, NEW m \in Modules, src[m] \notin {NotFound, Unparsable},
         \A n \in ImportsIn(src[m]) : Good(src, n), ~Redefines(src, m), ~CallsUnknown(src, m)
  PROVE  Good(src, m)
<1>1. ~InCycle(src, m)
  <2> SUFFICES ASSUME NEW n \in ImportsIn(src[m]), m \in Needs(src, n) PROVE FALSE
    BY DEF InCycle
  <2>1. ~InCycle(src, m)
    BY DEF Good
  <2> QED BY <2>1 DEF InCycle
<1>2. ASSUME NEW k \in Needs(src, m), k # m
      PROVE  src[k] \notin {NotFound, Unparsable} /\ ~InCycle(src, k) /\ ~Redefines(src, k) /\ ~CallsUnknown(src, k)
  BY <1>2, NeedsOnly DEF Good
<1> QED BY <1>1, <1>2 DEF Good

\* A module exports its own pub functions and what its imports export.
LEMMA ExportedIs ==
  ASSUME src \in Worlds, NEW m \in Modules
  PROVE  \A x : x \in Exported(src, m) <=>
           \E i \in 1..Len(Decls(m)) :
             \/ Decls(m)[i].kind = "func" /\ Decls(m)[i].pub /\ Decls(m)[i].name = x
             \/ Decls(m)[i].kind = "import" /\ x \in Exported(src, Decls(m)[i].of)
<1>1. \A k, x : x \in Exported(src, k) <=> \E n \in Needs(src, k) : \E g \in FuncsIn(src[n]) : g.pub /\ g.name = x
  BY DEF Exported
<1> SUFFICES ASSUME NEW x
             PROVE  x \in Exported(src, m) <=>
                      \E i \in 1..Len(Decls(m)) :
                        \/ Decls(m)[i].kind = "func" /\ Decls(m)[i].pub /\ Decls(m)[i].name = x
                        \/ Decls(m)[i].kind = "import" /\ x \in Exported(src, Decls(m)[i].of)
  OBVIOUS
<1>2. ASSUME x \in Exported(src, m)
      PROVE  \E i \in 1..Len(Decls(m)) :
               \/ Decls(m)[i].kind = "func" /\ Decls(m)[i].pub /\ Decls(m)[i].name = x
               \/ Decls(m)[i].kind = "import" /\ x \in Exported(src, Decls(m)[i].of)
  <2>1. PICK n \in Needs(src, m) : \E g \in FuncsIn(src[n]) : g.pub /\ g.name = x
    BY <1>1, <1>2
  <2>2. CASE n = m
    BY SMTT(60), <2>1, <2>2, FuncsAre
  <2>3. CASE n # m
    <3>1. PICK k \in ImportsIn(src[m]) : n \in Needs(src, k)
      BY <2>3, NeedsOnly
    <3>2. x \in Exported(src, k)
      BY <3>1, <2>1, <1>1
    <3> QED BY <3>2, ImportsAre
  <2> QED BY <2>2, <2>3
<1>3. ASSUME NEW i \in 1..Len(Decls(m)), Decls(m)[i].kind = "func", Decls(m)[i].pub, Decls(m)[i].name = x
      PROVE  x \in Exported(src, m)
  BY <1>1, <1>3, FuncsAre, NeedsSelf
<1>4. ASSUME NEW i \in 1..Len(Decls(m)), Decls(m)[i].kind = "import", x \in Exported(src, Decls(m)[i].of)
      PROVE  x \in Exported(src, m)
  <2>1. Decls(m)[i].of \in ImportsIn(src[m])
    BY <1>4, ImportsAre
  <2>2. Needs(src, Decls(m)[i].of) \subseteq Needs(src, m)
    BY <2>1, NeedsImported
  <2> QED BY <1>1, <1>4, <2>2
<1> QED BY <1>2, <1>3, <1>4

-----------------------------------------------------------------------------
(* A file at its end, and a step of a file.                                  *)

\* A function that is declared already.
LEMMA RedefinesIs ==
  ASSUME src \in Worlds, NEW m \in Modules
  PROVE  Redefines(src, m) <=>
           \E i \in 1..Len(Decls(m)) : \E j \in 1..(i - 1) :
             Decls(m)[i].kind = "func" /\ Decls(m)[i].name \in NamesOf(src, Decls(m)[j])
<1> DEFINE ds == Decls(m)
<1>1. Len(ds) \in Nat /\ DOMAIN ds = 1..Len(ds) /\ \A i \in 1..Len(ds) : ds[i].kind \in {"import", "func"}
  BY DeclsAre
<1>2. Redefines(src, m) <=>
        \E i, j \in DOMAIN ds :
          /\ j < i /\ ds[i].kind = "func"
          /\ IF ds[j].kind = "func" THEN ds[j].name = ds[i].name ELSE ds[i].name \in Exported(src, ds[j].of)
  <2>1. \A i \in DOMAIN ds : src[m][i] = ds[i]
    BY DEF Decls, DeclsOf
  <2> QED BY <2>1 DEF Redefines, Decls
<1>3. \A i, j \in 1..Len(ds) :
        (IF ds[j].kind = "func" THEN ds[j].name = ds[i].name ELSE ds[i].name \in Exported(src, ds[j].of))
          <=> ds[i].name \in NamesOf(src, ds[j])
  BY <1>1 DEF NamesOf
<1> HIDE DEF ds
<1>4. \A i \in 1..Len(ds) : \A j : j \in 1..(i - 1) <=> j \in 1..Len(ds) /\ j < i
  BY <1>1
<1> QED BY <1>1, <1>2, <1>3, <1>4 DEF ds

\* What a file that is checked to its end exports.
LEMMA ExportsAre ==
  ASSUME src \in Worlds, CacheOK, NEW m \in Modules,
         \A i \in 1..Len(Decls(m)) : Decls(m)[i].kind = "import" => Decls(m)[i].of \in DOMAIN cache
  PROVE  DOMAIN Exports(m) = Exported(src, m)
<1>1. DOMAIN Exports(m) = UNION {DOMAIN Provides(m, i) : i \in DOMAIN Decls(m)}
  BY DEF Exports, Decls
<1>2. ASSUME NEW i \in 1..Len(Decls(m)), NEW x
      PROVE  x \in DOMAIN Provides(m, i) <=>
               \/ Decls(m)[i].kind = "func" /\ Decls(m)[i].pub /\ Decls(m)[i].name = x
               \/ Decls(m)[i].kind = "import" /\ x \in Exported(src, Decls(m)[i].of)
  <2> DEFINE d == Decls(m)[i]
  <2>1. d.kind \in {"import", "func"} /\ (d.kind = "func" => d.pub \in BOOLEAN)
    BY DeclsAre
  <2>2. src[m][i] = d
    BY <1>2 DEF Decls, DeclsOf
  <2>3. Provides(m, i) = IF d.kind = "import" THEN IF d.of \in DOMAIN cache THEN cache[d.of].exports ELSE NoNames
                         ELSE IF d.pub THEN NameFor(d.name, <<m, d.name>>) ELSE NoNames
    BY <2>2 DEF Provides
  <2>4. d.kind = "import" => DOMAIN Provides(m, i) = Exported(src, d.of)
    BY <2>3 DEF CacheOK
  <2>5. d.kind = "func" => DOMAIN Provides(m, i) = IF d.pub THEN {d.name} ELSE {}
    BY <2>1, <2>3 DEF NameFor, NoNames
  <2> QED BY <2>1, <2>4, <2>5
<1>3. DOMAIN Decls(m) = 1..Len(Decls(m))
  BY DeclsAre
<1> QED BY <1>1, <1>2, <1>3, ExportedIs

\* At its end a file passes if, and only if, its module is good.
LEMMA PassesIfGood ==
  ASSUME src \in Worlds, CacheOK, NEW f, FileOK(src, DOMAIN cache, f), f.at = Len(Decls(f.mod)) + 1
  PROVE  /\ Passes(f) <=> Good(src, f.mod)
         /\ Passes(f) => DOMAIN Exports(f.mod) = Exported(src, f.mod)
<1> DEFINE m == f.mod
           ds == Decls(m)
<1>1. /\ m \in Modules /\ src[m] \notin {NotFound, Unparsable} /\ Len(ds) \in Nat /\ f.at - 1 = Len(ds)
      /\ f.bad \in BOOLEAN /\ (f.bad => ~Good(src, m))
      /\ ~f.bad =>
           /\ \A j \in 1..Len(ds) : ds[j].kind = "import" => ds[j].of \in DOMAIN cache
           /\ \A i \in 1..Len(ds) : \A j \in 1..(i - 1) : ds[i].kind = "func" => ds[i].name \notin NamesOf(src, ds[j])
           /\ DOMAIN f.scope = UNION {NamesOf(src, ds[j]) : j \in 1..Len(ds)}
  <2>1. m \in Modules /\ Len(ds) \in Nat
    BY DeclsAre DEF FileOK
  <2>2. f.at - 1 = Len(ds)
    BY <2>1
  <2> QED BY <2>1, <2>2 DEF FileOK, Decls
<1>2. CASE f.bad
  BY <1>1, <1>2 DEF Passes
<1>3. CASE ~f.bad
  <2>1. \A n \in ImportsIn(src[m]) : n \in DOMAIN cache /\ Good(src, n)
    BY <1>1, <1>3, ImportsAre DEF CacheOK
  <2>2. ~Redefines(src, m)
    BY <1>1, <1>3, RedefinesIs
  <2>3. \A x : x \in DOMAIN f.scope <=> x \in {g.name : g \in FuncsIn(src[m])} \cup UNION {Exported(src, n) : n \in ImportsIn(src[m])}
    <3>1. \A j \in 1..Len(ds) : ds[j].kind \in {"import", "func"}
      BY <1>1, DeclsAre
    <3>2. ASSUME NEW x PROVE x \in DOMAIN f.scope <=> \E j \in 1..Len(ds) : x \in NamesOf(src, ds[j])
      BY <1>1, <1>3
    <3>3. ASSUME NEW x, NEW j \in 1..Len(ds), x \in NamesOf(src, ds[j])
          PROVE  x \in {g.name : g \in FuncsIn(src[m])} \cup UNION {Exported(src, n) : n \in ImportsIn(src[m])}
      <4>1. CASE ds[j].kind = "import"
        <5>1. ds[j].of \in ImportsIn(src[m]) /\ x \in Exported(src, ds[j].of)
          BY <1>1, <3>3, <4>1, ImportsAre DEF NamesOf
        <5> QED BY <5>1
      <4>2. CASE ds[j].kind = "func"
        <5>1. ds[j] \in FuncsIn(src[m]) /\ x = ds[j].name
          BY <1>1, <3>3, <4>2, FuncsAre DEF NamesOf
        <5> QED BY <5>1
      <4> QED BY <3>1, <4>1, <4>2
    <3>4. ASSUME NEW x, x \in {g.name : g \in FuncsIn(src[m])} \cup UNION {Exported(src, n) : n \in ImportsIn(src[m])}
          PROVE  \E j \in 1..Len(ds) : x \in NamesOf(src, ds[j])
      <4>1. CASE \E g \in FuncsIn(src[m]) : x = g.name
        <5>0. PICK g \in FuncsIn(src[m]) : x = g.name
          BY <4>1
        <5>1. PICK j \in 1..Len(ds) : ds[j].kind = "func" /\ ds[j] = g
          BY <1>1, FuncsAre
        <5> QED BY <5>0, <5>1 DEF NamesOf
      <4>2. CASE \E n \in ImportsIn(src[m]) : x \in Exported(src, n)
        <5>1. PICK n \in ImportsIn(src[m]) : x \in Exported(src, n)
          BY <4>2
        <5>2. PICK j \in 1..Len(ds) : ds[j].kind = "import" /\ ds[j].of = n
          BY <1>1, ImportsAre
        <5> QED BY <5>1, <5>2 DEF NamesOf
      <4> QED BY <3>4, <4>1, <4>2
    <3> QED BY <3>2, <3>3, <3>4
  <2>4. (\A g \in FuncsIn(src[m]) : g.calls \in DOMAIN f.scope \cup {NoCall}) <=> ~CallsUnknown(src, m)
    BY <2>3 DEF CallsUnknown
  <2>5. Good(src, m) => ~CallsUnknown(src, m)
    BY <1>1, NeedsSelf DEF Good
  <2>6. ~CallsUnknown(src, m) => Good(src, m)
    BY <1>1, <2>1, <2>2, GoodFrom
  <2>7. DOMAIN Exports(m) = Exported(src, m)
    BY <1>1, <1>3, ExportsAre
  <2>8. Passes(f) <=> ~CallsUnknown(src, m)
    BY <1>3, <2>4 DEF Passes
  <2> QED BY <2>5, <2>6, <2>7, <2>8
<1> QED BY <1>1, <1>2, <1>3

\* A file goes on after a declaration.
LEMMA FileGoes ==
  ASSUME src \in Worlds, NEW f, NEW loaded, FileOK(src, loaded, f), f.at <= Len(Decls(f.mod)),
         NEW more, loaded \subseteq more, NEW names, NEW bad \in BOOLEAN, bad => ~Good(src, f.mod),
         NEW g, g = GoneOn(f, names, bad),
         ~f.bad /\ ~bad =>
           /\ DOMAIN names = NamesOf(src, Decls(f.mod)[f.at])
           /\ Decls(f.mod)[f.at].kind = "import" => Decls(f.mod)[f.at].of \in more
           /\ Decls(f.mod)[f.at].kind = "func" => Decls(f.mod)[f.at].name \notin DOMAIN f.scope
  PROVE  FileOK(src, more, g)
<1> DEFINE ds == Decls(f.mod)
<1>1. /\ f.mod \in Modules /\ src[f.mod] \notin {NotFound, Unparsable} /\ Len(ds) \in Nat
      /\ f.at \in 1..Len(ds) /\ f.bad \in BOOLEAN /\ (f.bad => ~Good(src, f.mod))
      /\ ~f.bad =>
           /\ \A j \in 1..(f.at - 1) : ds[j].kind = "import" => ds[j].of \in loaded
           /\ \A i \in 1..(f.at - 1) : \A j \in 1..(i - 1) : ds[i].kind = "func" => ds[i].name \notin NamesOf(src, ds[j])
           /\ DOMAIN f.scope = UNION {NamesOf(src, ds[j]) : j \in 1..(f.at - 1)}
  <2>1. f.mod \in Modules /\ Len(ds) \in Nat
    BY DeclsAre DEF FileOK
  <2>2. f.at \in 1..Len(ds)
    BY <2>1 DEF FileOK, Decls
  <2> QED BY <2>1, <2>2, ZenonT(60) DEF FileOK, Decls
<1>2. g = [mod |-> f.mod, at |-> f.at + 1, scope |-> Extend(f.scope, names), bad |-> f.bad \/ bad]
  BY DEF FileOK, GoneOn, IsFile
<1> HIDE DEF ds
<1>3. /\ g.mod = f.mod /\ g.at = f.at + 1 /\ g.scope = Extend(f.scope, names) /\ g.bad = (f.bad \/ bad)
      /\ g = [mod |-> g.mod, at |-> g.at, scope |-> g.scope, bad |-> g.bad]
  BY <1>2
<1>7. g.at - 1 = f.at /\ g.at \in 1..(Len(ds) + 1) /\ g.bad \in BOOLEAN /\ (g.bad <=> f.bad \/ bad)
  BY <1>1, <1>3
<1>4. DOMAIN g.scope = DOMAIN f.scope \cup DOMAIN names
  BY <1>3 DEF Extend
<1>5. \A j \in 1..f.at : j = f.at \/ j \in 1..(f.at - 1)
  BY <1>1
<1>6. ASSUME ~f.bad, ~bad
      PROVE  /\ \A j \in 1..f.at : ds[j].kind = "import" => ds[j].of \in more
             /\ \A i \in 1..f.at : \A j \in 1..(i - 1) : ds[i].kind = "func" => ds[i].name \notin NamesOf(src, ds[j])
             /\ DOMAIN g.scope = UNION {NamesOf(src, ds[j]) : j \in 1..f.at}
  <2>1. \A j \in 1..f.at : ds[j].kind = "import" => ds[j].of \in more
    BY <1>1, <1>5, <1>6 DEF ds
  <2>2. \A j \in 1..(f.at - 1) : ds[f.at].kind = "func" => ds[f.at].name \notin NamesOf(src, ds[j])
    BY <1>1, <1>6 DEF ds
  <2>3. \A x : x \in DOMAIN g.scope <=> \E j \in 1..f.at : x \in NamesOf(src, ds[j])
    <3>1. \A x : x \in DOMAIN f.scope <=> \E j \in 1..(f.at - 1) : x \in NamesOf(src, ds[j])
      BY <1>1, <1>6, SMTT(60)
    <3>2. \A x : x \in DOMAIN names <=> x \in NamesOf(src, ds[f.at])
      BY <1>6 DEF ds
    <3>3. f.at \in 1..f.at /\ \A j \in 1..(f.at - 1) : j \in 1..f.at
      BY <1>1
    <3> QED BY <1>4, <1>5, <3>1, <3>2, <3>3
  <2>4. DOMAIN g.scope = UNION {NamesOf(src, ds[j]) : j \in 1..f.at}
    BY <2>3
  <2> QED BY <1>1, <1>5, <1>6, <2>1, <2>2, <2>4
<1>8. ds = DeclsOf(src[g.mod])
  BY <1>3 DEF ds, Decls
<1>9. g.bad => ~Good(src, g.mod)
  BY <1>1, <1>3, <1>7
<1>10. ~g.bad =>
         /\ \A j \in 1..(g.at - 1) : ds[j].kind = "import" => ds[j].of \in more
         /\ \A i \in 1..(g.at - 1) : \A j \in 1..(i - 1) : ds[i].kind = "func" => ds[i].name \notin NamesOf(src, ds[j])
         /\ DOMAIN g.scope = UNION {NamesOf(src, ds[j]) : j \in 1..(g.at - 1)}
  BY <1>6, <1>7
<1>11. g.mod \in Modules /\ src[g.mod] \notin {NotFound, Unparsable}
  BY <1>1, <1>3
<1> QED BY <1>3, <1>7, <1>8, <1>9, <1>10, <1>11 DEF FileOK, IsFile

\* What more is loaded changes nothing for a file.
LEMMA FileKept ==
  ASSUME NEW f, NEW loaded, NEW more, loaded \subseteq more, FileOK(src, loaded, f)
  PROVE  FileOK(src, more, f)
BY DEF FileOK

-----------------------------------------------------------------------------
(* The path of files.                                                        *)

\* All but the last.
LEMMA FrontIs ==
  ASSUME NEW files, IsSeq(files), Len(files) >= 1
  PROVE  /\ IsSeq(Front(files)) /\ Len(Front(files)) = Len(files) - 1
         /\ \A i \in 1..(Len(files) - 1) : Front(files)[i] = files[i]
<1> DEFINE n == Len(files) - 1
<1>1. PICK S : files \in Seq(S)
  BY DEF IsSeq
<1>2. n \in Nat /\ \A i \in 1..n : files[i] \in S
  BY <1>1
<1>3. Front(files) = SubSeq(files, 1, n)
  BY DEF Front
<1> HIDE DEF n
<1>4. /\ SubSeq(files, 1, n) \in Seq(S)
      /\ Len(SubSeq(files, 1, n)) = IF 1 <= n THEN n - 1 + 1 ELSE 0
      /\ \A i \in 1..(n - 1 + 1) : SubSeq(files, 1, n)[i] = files[1 + i - 1]
  BY <1>2, SubSeqProperties
<1>5. Len(SubSeq(files, 1, n)) = n /\ \A i \in 1..n : SubSeq(files, 1, n)[i] = files[i]
  BY <1>2, <1>4
<1> QED BY <1>3, <1>4, <1>5 DEF n, IsSeq

\* One more.
LEMMA AppendIs ==
  ASSUME NEW files, IsSeq(files), NEW f
  PROVE  /\ IsSeq(Append(files, f)) /\ Len(Append(files, f)) = Len(files) + 1
         /\ \A i \in 1..Len(files) : Append(files, f)[i] = files[i]
         /\ Append(files, f)[Len(files) + 1] = f
<1>1. PICK S : files \in Seq(S)
  BY DEF IsSeq
<1>2. files \in Seq(S \cup {f}) /\ f \in S \cup {f}
  BY <1>1
<1> QED BY <1>2, AppendProperties DEF IsSeq

\* The innermost file goes on.
LEMMA GoesIs ==
  ASSUME NEW files, IsSeq(files), Len(files) >= 1, NEW names, NEW bad
  PROVE  /\ IsSeq(Goes(files, names, bad))
         /\ Len(Goes(files, names, bad)) = Len(files)
         /\ \A i \in 1..(Len(files) - 1) : Goes(files, names, bad)[i] = files[i]
         /\ Goes(files, names, bad)[Len(files)] = GoneOn(files[Len(files)], names, bad)
<1>1. Goes(files, names, bad) = Append(Front(files), GoneOn(files[Len(files)], names, bad))
  BY DEF Goes, Last, GoneOn
<1>2. Len(files) \in Nat
  BY DEF IsSeq
<1> QED BY <1>1, <1>2, FrontIs, AppendIs

\* The file at the end of the path.
LEMMA CurrentIs ==
  ASSUME LoaderInv
  PROVE  /\ Len(checking) \in Nat \ {0} /\ Current = checking[Len(checking)]
         /\ FileOK(src, DOMAIN cache, Current) /\ Current.mod \in Modules
         /\ Len(Decls(Current.mod)) \in Nat /\ Current.at \in 1..(Len(Decls(Current.mod)) + 1)
<1>1. Len(checking) \in Nat \ {0}
  BY DEF LoaderInv, PathOK
<1>2. Current = checking[Len(checking)]
  BY DEF Current, Last
<1>3. FileOK(src, DOMAIN cache, Current)
  BY <1>1, <1>2 DEF LoaderInv
<1>4. Current.mod \in Modules /\ Current.at \in 1..(Len(Decls(Current.mod)) + 1)
  BY <1>3 DEF FileOK, Decls
<1> QED BY <1>1, <1>2, <1>3, <1>4, DeclsAre DEF LoaderInv

\* The path stays when the innermost file goes on.
LEMMA PathGoes ==
  ASSUME NEW loads, NEW files, PathOK(src, files, loads), NEW names, NEW bad,
         IsFile(files[Len(files)])
  PROVE  PathOK(src, Goes(files, names, bad), loads)
<1> DEFINE next == Goes(files, names, bad)
           f == files[Len(files)]
<1>1. Len(files) \in Nat \ {0}
  BY DEF PathOK
<1>2. /\ IsSeq(next)
      /\ Len(next) = Len(files)
      /\ \A i \in 1..(Len(files) - 1) : next[i] = files[i]
      /\ next[Len(files)] = GoneOn(f, names, bad)
  BY <1>1, GoesIs DEF PathOK
<1>3. next[Len(files)].mod = f.mod
  BY <1>2 DEF IsFile, GoneOn
<1> HIDE DEF next
<1>4. \A i \in 1..Len(files) : next[i].mod = files[i].mod
  <2>1. \A i \in 1..Len(files) : i = Len(files) \/ i \in 1..(Len(files) - 1)
    BY <1>1
  <2> QED BY <1>2, <1>3, <2>1
<1>5. \A i \in 2..Len(files) : i \in 1..Len(files)
  BY <1>1
<1>6. \A i \in 1..(Len(files) - 1) : i + 1 \in 1..Len(files) /\ i \in 1..Len(files)
  BY <1>1
<1>7. loads = {next[i].mod : i \in 2..Len(files)}
  <2>1. loads = {files[i].mod : i \in 2..Len(files)}
    BY DEF PathOK
  <2> QED BY <1>4, <1>5, <2>1
<1>8. \A i, j \in 2..Len(files) : next[i].mod = next[j].mod => i = j
  BY <1>4, <1>5 DEF PathOK
<1>9. next[1].mod = Program
  BY <1>1, <1>4 DEF PathOK
<1>10. \A i \in 1..(Len(files) - 1) :
         /\ next[i].at <= Len(DeclsOf(src[next[i].mod]))
         /\ DeclsOf(src[next[i].mod])[next[i].at].kind = "import" /\ DeclsOf(src[next[i].mod])[next[i].at].of = next[i + 1].mod
  BY <1>2, <1>4, <1>6 DEF PathOK
<1>11. \A i, j \in 1..Len(files) : i <= j => next[j].mod \in Needs(src, next[i].mod)
  BY <1>4 DEF PathOK
<1>12. IsSeq(next) /\ Len(next) = Len(files) /\ Len(files) >= 1
  BY <1>1, <1>2
<1>13. PathOK(src, next, loads)
  BY <1>7, <1>8, <1>9, <1>10, <1>11, <1>12 DEF PathOK
<1> QED BY <1>13 DEF next

\* The innermost file goes on to the next declaration, and the loader stays as it is.
LEMMA TopGoes ==
  ASSUME LoaderInv, verdict = "running", Current.at <= Len(Decls(Current.mod)),
         NEW names, NEW bad \in BOOLEAN, bad => ~Good(src, Current.mod),
         checking' = Goes(checking, names, bad), UNCHANGED <<src, cache, loading, verdict>>, RefusalsOK',
         ~Current.bad /\ ~bad =>
           LET d == Decls(Current.mod)[Current.at]
           IN  /\ DOMAIN names = NamesOf(src, d)
               /\ d.kind = "import" => d.of \in DOMAIN cache
               /\ d.kind = "func" => d.name \notin DOMAIN Current.scope
  PROVE  LoaderInv'
<1> DEFINE n == Len(checking)
           g == GoneOn(Current, names, bad)
<1>1. n \in Nat \ {0} /\ Current = checking[n] /\ FileOK(src, DOMAIN cache, Current)
  BY CurrentIs
<1>2. IsSeq(checking)
  BY DEF LoaderInv, PathOK
<1>3. /\ Len(checking') = n
      /\ \A i \in 1..(n - 1) : checking'[i] = checking[i]
      /\ checking'[n] = g
  BY <1>1, <1>2, GoesIs
<1>4. PathOK(src, checking', loading)
  <2>1. IsFile(Current)
    BY <1>1 DEF FileOK
  <2> QED BY <1>1, <2>1, PathGoes DEF LoaderInv
<1>5. FileOK(src, DOMAIN cache, g)
  <2> DEFINE f == Current
  <2>1. FileOK(src, DOMAIN cache, f) /\ f.at <= Len(Decls(f.mod)) /\ g = GoneOn(f, names, bad)
    BY <1>1
  <2>2. src \in Worlds
    BY DEF LoaderInv
  <2> HIDE DEF g
  <2> QED BY <2>1, <2>2, FileGoes
<1> HIDE DEF g
<1>6. \A i \in 1..n : FileOK(src, DOMAIN cache, checking'[i])
  <2>1. \A i \in 1..n : i = n \/ i \in 1..(n - 1)
    BY <1>1
  <2> QED BY <1>3, <1>5, <2>1 DEF LoaderInv
<1>7. CacheOK'
  BY DEF LoaderInv, CacheOK
<1> QED BY <1>3, <1>4, <1>6, <1>7 DEF LoaderInv

-----------------------------------------------------------------------------
(* The steps.                                                                *)

LEMMA ImportCachedInv ==
  ASSUME LoaderInv, ImportCached
  PROVE  LoaderInv'
<1>1. /\ verdict = "running" /\ Current.at <= Len(Decls(Current.mod))
      /\ Here = Decls(Current.mod)[Current.at] /\ Here.kind = "import" /\ Here.of \in DOMAIN cache
      /\ checking' = Goes(checking, cache[Here.of].exports, FALSE)
      /\ UNCHANGED <<src, cache, loading, refusals, verdict>>
  BY DEF ImportCached, AtImport, Here, Decls
<1>2. DOMAIN cache[Here.of].exports = NamesOf(src, Here)
  BY <1>1 DEF LoaderInv, CacheOK, NamesOf
<1>3. RefusalsOK'
  BY <1>1 DEF LoaderInv, RefusalsOK
<1> QED BY <1>1, <1>2, <1>3, TopGoes

\* An import that is refused.
LEMMA RefuseInv ==
  ASSUME LoaderInv, AtImport, NEW kind \in {"circular", "notFound", "moduleError"}, Refuse(kind),
         UNCHANGED <<src, cache, loading, verdict>>,
         ~Good(src, Current.mod), kind = "circular" => Current.mod \in Needs(src, Here.of)
  PROVE  LoaderInv'
<1>1. /\ verdict = "running" /\ Current.at <= Len(Decls(Current.mod))
      /\ Here = Decls(Current.mod)[Current.at] /\ Here.kind = "import"
      /\ checking' = Goes(checking, NoNames, TRUE)
      /\ refusals' = refusals \cup {<<Current.mod, kind, Here.of>>}
  BY DEF AtImport, Here, Decls, Refuse
<1>2. Here.of \in Modules /\ Current.mod \in Modules
  BY <1>1, CurrentIs, DeclsAre, SMTT(60) DEF LoaderInv
<1>3. RefusalsOK'
  BY <1>1, <1>2 DEF LoaderInv, RefusalsOK
<1> QED BY <1>1, <1>3, TopGoes

\* What the file imports at its place.
LEMMA HereIs ==
  ASSUME LoaderInv, AtImport
  PROVE  /\ Here = Decls(Current.mod)[Current.at] /\ Here.kind = "import"
         /\ Current.at \in 1..Len(Decls(Current.mod))
         /\ Here.of \in Modules /\ Here.of \in ImportsIn(src[Current.mod])
<1>1. /\ Current.at \in 1..Len(Decls(Current.mod)) /\ Current.mod \in Modules
      /\ Here = Decls(Current.mod)[Current.at] /\ Here.kind = "import"
  BY CurrentIs DEF AtImport, Here, Decls
<1> QED BY <1>1, DeclsAre, ImportsAre DEF LoaderInv

LEMMA ImportCircularInv ==
  ASSUME LoaderInv, ImportCircular
  PROVE  LoaderInv'
<1>1. /\ AtImport /\ Here.of \in loading /\ Refuse("circular") /\ UNCHANGED <<src, cache, loading, verdict>>
  BY DEF ImportCircular
<1>2. PICK i \in 2..Len(checking) : checking[i].mod = Here.of
  BY <1>1 DEF LoaderInv, PathOK
<1>3. Current.mod \in Needs(src, Here.of)
  <2>1. i \in 1..Len(checking) /\ Len(checking) \in 1..Len(checking) /\ i <= Len(checking)
    BY CurrentIs
  <2> QED BY <1>2, <2>1, CurrentIs DEF LoaderInv, PathOK
<1>4. Current.mod \in Modules /\ Here.of \in ImportsIn(src[Current.mod])
  BY <1>1, HereIs, CurrentIs
<1>5. ~Good(src, Current.mod)
  BY <1>3, <1>4, NeedsSelf DEF Good, InCycle
<1> QED BY <1>1, <1>3, <1>5, RefuseInv

LEMMA ImportUnusableInv ==
  ASSUME LoaderInv, ImportUnusable
  PROVE  LoaderInv'
<1>1. /\ AtImport /\ src[Here.of] \in {NotFound, Unparsable} /\ UNCHANGED <<src, cache, loading, verdict>>
      /\ Refuse("notFound") \/ Refuse("moduleError")
  BY DEF ImportUnusable
<1>2. Current.mod \in Modules /\ Here.of \in Modules /\ Here.of \in ImportsIn(src[Current.mod])
  BY <1>1, HereIs, CurrentIs
<1>3. ~Good(src, Here.of)
  BY <1>1, <1>2, NeedsSelf DEF Good
<1>4. ~Good(src, Current.mod)
  BY <1>2, <1>3, GoodImports DEF LoaderInv
<1> QED BY <1>1, <1>4, RefuseInv

\* A function whose name is taken is a fault of the module.
LEMMA DeclareFuncInv ==
  ASSUME LoaderInv, DeclareFunc
  PROVE  LoaderInv'
<1> DEFINE f == Current
           bad == Here.name \in DOMAIN f.scope
<1>1. /\ verdict = "running" /\ f.at <= Len(Decls(f.mod))
      /\ Here = Decls(f.mod)[f.at] /\ Here.kind = "func"
      /\ checking' = Goes(checking, NameFor(Here.name, <<f.mod, Here.name>>), bad)
      /\ UNCHANGED <<src, cache, loading, refusals, verdict>>
  BY DEF DeclareFunc, Here, Decls
<1>2. DOMAIN NameFor(Here.name, <<f.mod, Here.name>>) = NamesOf(src, Here)
  BY <1>1 DEF NameFor, NamesOf
<1>3. ASSUME bad PROVE ~Good(src, f.mod)
  <2>1. f.mod \in Modules /\ f.at \in 1..Len(Decls(f.mod)) /\ FileOK(src, DOMAIN cache, f) /\ f.bad \in BOOLEAN
    <3>1. f.mod \in Modules /\ f.at \in 1..Len(Decls(f.mod)) /\ FileOK(src, DOMAIN cache, f)
      BY <1>1, CurrentIs
    <3> QED BY <3>1 DEF FileOK
  <2>2. CASE f.bad
    BY <2>1, <2>2 DEF FileOK
  <2>3. CASE ~f.bad
    <3>1. DOMAIN f.scope = UNION {NamesOf(src, Decls(f.mod)[j]) : j \in 1..(f.at - 1)}
      BY <2>1, <2>3 DEF FileOK, Decls
    <3>2. PICK j \in 1..(f.at - 1) : Here.name \in NamesOf(src, Decls(f.mod)[j])
      BY <1>3, <3>1
    <3>3. Redefines(src, f.mod)
      BY <1>1, <2>1, <3>2, RedefinesIs DEF LoaderInv
    <3> QED BY <2>1, <3>3, NeedsSelf DEF Good
  <2> QED BY <2>1, <2>2, <2>3
<1>4. RefusalsOK'
  BY <1>1 DEF LoaderInv, RefusalsOK
<1>5. bad \in BOOLEAN /\ (~bad => Here.name \notin DOMAIN f.scope)
  OBVIOUS
<1> HIDE DEF bad
<1> QED BY <1>1, <1>2, <1>3, <1>4, <1>5, TopGoes

LEMMA ImportBeginsInv ==
  ASSUME LoaderInv, ImportBegins
  PROVE  LoaderInv'
<1> DEFINE n == Len(checking)
           m == Here.of
           g == FileCheck(m)
           next == Append(checking, g)
<1>1. /\ AtImport /\ m \notin loading /\ src[m] \notin {NotFound, Unparsable}
      /\ loading' = loading \cup {m} /\ checking' = next
      /\ UNCHANGED <<src, cache, refusals, verdict>>
  BY DEF ImportBegins
<1>2. /\ n \in Nat \ {0} /\ Current = checking[n] /\ Current.mod \in Modules /\ m \in Modules
      /\ m \in ImportsIn(src[Current.mod]) /\ Current.at <= Len(Decls(Current.mod))
      /\ Here = Decls(Current.mod)[Current.at] /\ Here.kind = "import"
  BY <1>1, CurrentIs, HereIs
<1>3. IsSeq(next) /\ Len(next) = n + 1 /\ (\A i \in 1..n : next[i] = checking[i]) /\ next[n + 1] = g
  BY SMTT(60), AppendIs DEF LoaderInv, PathOK
<1>4. g.mod = m /\ FileOK(src, DOMAIN cache, g)
  <2>1. g = [mod |-> m, at |-> 1, scope |-> NoNames, bad |-> FALSE]
    BY DEF FileCheck
  <2>2. g.mod = m /\ g.at = 1 /\ g.scope = NoNames /\ g.bad = FALSE /\ IsFile(g)
    BY <2>1 DEF IsFile
  <2>3. Len(DeclsOf(src[m])) \in Nat
    BY <1>2, DeclsAre DEF LoaderInv, Decls
  <2>4. (\A j \in 1..(g.at - 1) : FALSE) /\ DOMAIN g.scope = {}
    BY <2>2 DEF NoNames
  <2>5. g.at \in 1..(Len(DeclsOf(src[g.mod])) + 1)
    BY <2>2, <2>3
  <2> HIDE DEF g
  <2> QED BY <1>1, <1>2, <2>2, <2>4, <2>5, ZenonT(60) DEF FileOK
<1> HIDE DEF next, g
<1>5. \A i \in 1..(n + 1) : i = n + 1 \/ i \in 1..n
  BY <1>2
<1>6. \A i \in 1..(n + 1) : FileOK(src, DOMAIN cache, next[i])
  BY <1>3, <1>4, <1>5 DEF LoaderInv
<1>7. PathOK(src, next, loading \cup {m})
  <2>1. \A i \in 2..n : i \in 1..n /\ next[i].mod \in loading
    BY <1>2, <1>3, SMTT(60) DEF LoaderInv, PathOK
  <2>2. loading = {checking[i].mod : i \in 2..n}
    BY DEF LoaderInv, PathOK
  <2>3. \A i \in 2..(n + 1) : i = n + 1 \/ i \in 2..n
    BY <1>2
  <2>4. n + 1 \in 2..(n + 1) /\ \A i \in 2..n : i \in 2..(n + 1)
    BY <1>2
  <2>5. \A x : x \in loading \cup {m} <=> \E i \in 2..(n + 1) : x = next[i].mod
    BY <1>3, <1>4, <2>1, <2>2, <2>3, <2>4, ZenonT(60)
  <2>6. loading \cup {m} = {next[i].mod : i \in 2..(n + 1)}
    BY <2>5
  <2>7. \A i, j \in 2..(n + 1) : next[i].mod = next[j].mod => i = j
    <3>1. \A i, j \in 2..n : next[i].mod = next[j].mod => i = j
      BY SMTT(60), <1>3, <2>1 DEF LoaderInv, PathOK
    <3> QED BY <1>1, <1>3, <1>4, <2>1, <2>3, <3>1
  <2>8. \A i \in 1..n :
          /\ next[i].at <= Len(DeclsOf(src[next[i].mod]))
          /\ DeclsOf(src[next[i].mod])[next[i].at].kind = "import"
          /\ DeclsOf(src[next[i].mod])[next[i].at].of = next[i + 1].mod
    <3>1. \A i \in 1..n : i = n \/ (i \in 1..(n - 1) /\ i + 1 \in 1..n)
      BY <1>2
    <3>2. \A i \in 1..(n - 1) :
            /\ checking[i].at <= Len(DeclsOf(src[checking[i].mod]))
            /\ DeclsOf(src[checking[i].mod])[checking[i].at].kind = "import"
            /\ DeclsOf(src[checking[i].mod])[checking[i].at].of = checking[i + 1].mod
      BY DEF LoaderInv, PathOK
    <3> QED BY ZenonT(90), <1>2, <1>3, <1>4, <3>1, <3>2 DEF Decls
  <2>9. \A i, j \in 1..(n + 1) : i <= j => next[j].mod \in Needs(src, next[i].mod)
    <3>1. \A i, j \in 1..n : i <= j => next[j].mod \in Needs(src, next[i].mod)
      BY <1>3 DEF LoaderInv, PathOK
    <3>2. n \in 1..n /\ next[n] = Current /\ m \in Needs(src, Current.mod) /\ m \in Needs(src, m)
      BY <1>2, <1>3, NeedsSelf, NeedsImported DEF LoaderInv
    <3>3. \A i \in 1..n : next[i].mod \in Modules /\ i <= n
      BY SMTT(60), <1>2, <1>3 DEF LoaderInv, FileOK
    <3>4. \A i \in 1..n : m \in Needs(src, next[i].mod)
      BY <3>1, <3>2, <3>3, NeedsTwice DEF LoaderInv
    <3> QED BY <1>2, <1>3, <1>4, <1>5, <3>1, <3>2, <3>4
  <2>10. next[1].mod = Program
    BY <1>2, <1>3 DEF LoaderInv, PathOK
  <2>11. Len(next) >= 1 /\ Len(next) - 1 = n
    BY <1>2, <1>3
  <2> QED BY <1>3, <2>6, <2>7, <2>8, <2>9, <2>10, <2>11 DEF PathOK
<1>8. CacheOK' /\ RefusalsOK'
  BY <1>1 DEF LoaderInv, CacheOK, RefusalsOK
<1> QED BY <1>1, <1>3, <1>6, <1>7, <1>8 DEF LoaderInv

\* What is left when the innermost file is done: the path of the others.
LEMMA PathBack ==
  ASSUME LoaderInv, Len(checking) > 1
  PROVE  LET n == Len(checking)
             back == Front(checking)
             last == checking[n - 1]
         IN  /\ Len(back) = n - 1 /\ back[Len(back)] = last /\ Last(back) = last
             /\ PathOK(src, back, loading \ {Current.mod})
             /\ \A i \in 1..(n - 1) : back[i] = checking[i] /\ FileOK(src, DOMAIN cache, back[i])
             /\ last.mod \in Modules /\ last.at <= Len(Decls(last.mod))
             /\ Decls(last.mod)[last.at].kind = "import" /\ Decls(last.mod)[last.at].of = Current.mod
<1> DEFINE n == Len(checking)
           back == Front(checking)
           last == checking[n - 1]
           loads == loading \ {Current.mod}
<1>1. n \in Nat \ {0, 1} /\ Current = checking[n] /\ IsSeq(checking)
  BY CurrentIs DEF LoaderInv, PathOK
<1>2. IsSeq(back) /\ Len(back) = n - 1 /\ \A i \in 1..(n - 1) : back[i] = checking[i]
  BY <1>1, FrontIs
<1> HIDE DEF back
<1>3. (\A i \in 1..(n - 1) : i \in 1..n) /\ n - 1 \in 1..(n - 1) /\ (n - 1) + 1 = n
  BY <1>1
<1>4. \A i \in 1..(n - 1) : FileOK(src, DOMAIN cache, back[i])
  BY <1>2, <1>3 DEF LoaderInv
<1>5. \A i \in 1..(n - 1) :
        /\ checking[i].at <= Len(DeclsOf(src[checking[i].mod]))
        /\ DeclsOf(src[checking[i].mod])[checking[i].at].kind = "import"
        /\ DeclsOf(src[checking[i].mod])[checking[i].at].of = checking[i + 1].mod
  BY DEF LoaderInv, PathOK
<1>6. PathOK(src, back, loads)
  <2>1. loading = {checking[i].mod : i \in 2..n} /\ \A i, j \in 2..n : checking[i].mod = checking[j].mod => i = j
    BY DEF LoaderInv, PathOK
  <2>2. \A i \in 2..n : i = n \/ i \in 2..(n - 1)
    BY <1>1
  <2>3. n \in 2..n /\ \A i \in 2..(n - 1) : i \in 2..n /\ i # n /\ i \in 1..(n - 1)
    BY <1>1
  <2>4. \A x : x \in loads <=> \E i \in 2..(n - 1) : x = back[i].mod
    BY SMTT(60), <1>1, <1>2, <2>1, <2>2, <2>3
  <2>5. loads = {back[i].mod : i \in 2..(n - 1)}
    BY <2>4
  <2>6. \A i, j \in 2..(n - 1) : back[i].mod = back[j].mod => i = j
    BY <1>2, <2>1, <2>3
  <2>7. \A i \in 1..((n - 1) - 1) :
          /\ back[i].at <= Len(DeclsOf(src[back[i].mod]))
          /\ DeclsOf(src[back[i].mod])[back[i].at].kind = "import"
          /\ DeclsOf(src[back[i].mod])[back[i].at].of = back[i + 1].mod
    <3>1. \A i \in 1..((n - 1) - 1) : i \in 1..(n - 1) /\ i + 1 \in 1..(n - 1)
      BY <1>1
    <3> QED BY <1>2, <1>5, <3>1, ZenonT(60)
  <2>8. \A i, j \in 1..(n - 1) : i <= j => back[j].mod \in Needs(src, back[i].mod)
    BY <1>2, <1>3 DEF LoaderInv, PathOK
  <2>9. back[1].mod = Program /\ Len(back) >= 1
    BY <1>1, <1>2 DEF LoaderInv, PathOK
  <2> HIDE DEF loads
  <2> QED BY <1>2, <2>5, <2>6, <2>7, <2>8, <2>9 DEF PathOK
<1>7. last.mod \in Modules
  BY <1>2, <1>3, <1>4 DEF FileOK
<1>8. /\ last.at <= Len(Decls(last.mod))
      /\ Decls(last.mod)[last.at].kind = "import" /\ Decls(last.mod)[last.at].of = Current.mod
  BY <1>1, <1>3, <1>5 DEF Decls
<1> QED BY <1>1, <1>2, <1>3, <1>4, <1>6, <1>7, <1>8 DEF Last, back

\* The path of files goes back to the import.
LEMMA ReturnInv ==
  ASSUME LoaderInv, verdict = "running", Len(checking) > 1, NEW names, NEW bad \in BOOLEAN,
         bad => ~Good(src, Current.mod),
         ~bad => DOMAIN names = Exported(src, Current.mod) /\ Current.mod \in DOMAIN cache',
         checking' = Goes(Front(checking), names, bad), loading' = loading \ {Current.mod},
         UNCHANGED <<src, verdict>>, DOMAIN cache \subseteq DOMAIN cache', CacheOK', RefusalsOK'
  PROVE  LoaderInv'
<1> DEFINE n == Len(checking)
           back == Front(checking)
           last == checking[n - 1]
<1>1. /\ Len(back) = n - 1 /\ back[Len(back)] = last
      /\ PathOK(src, back, loading \ {Current.mod})
      /\ \A i \in 1..(n - 1) : back[i] = checking[i] /\ FileOK(src, DOMAIN cache, back[i])
      /\ last.mod \in Modules /\ last.at <= Len(Decls(last.mod))
      /\ Decls(last.mod)[last.at].kind = "import" /\ Decls(last.mod)[last.at].of = Current.mod
  BY PathBack
<1>2. n \in Nat \ {0, 1} /\ n - 1 \in 1..(n - 1) /\ \A i \in 1..(n - 1) : i = n - 1 \/ i \in 1..((n - 1) - 1)
  BY CurrentIs
<1>3. FileOK(src, DOMAIN cache, last) /\ IsFile(last)
  <2>1. FileOK(src, DOMAIN cache, last)
    BY <1>1, <1>2
  <2> HIDE DEF last
  <2> QED BY <2>1 DEF FileOK
<1>9. IsSeq(back) /\ Len(back) >= 1
  BY <1>1 DEF PathOK
<1> HIDE DEF back, last
<1>4. /\ Len(checking') = n - 1
      /\ \A i \in 1..((n - 1) - 1) : checking'[i] = back[i]
      /\ checking'[n - 1] = GoneOn(last, names, bad)
  <2>1. checking' = Goes(back, names, bad)
    BY DEF back
  <2> QED BY SMTT(60), <1>1, <1>9, <2>1, GoesIs
<1>5. PathOK(src, checking', loading')
  BY <1>1, <1>3, PathGoes DEF back
<1>6. bad => ~Good(src, last.mod)
  <2>1. last.at \in 1..Len(Decls(last.mod))
    <3>1. Len(Decls(last.mod)) \in Nat
      BY <1>1, DeclsAre DEF LoaderInv
    <3>2. last.at \in 1..(Len(DeclsOf(src[last.mod])) + 1)
      BY <1>3 DEF FileOK
    <3>3. last.at \in 1..(Len(Decls(last.mod)) + 1)
      BY <3>2 DEF Decls
    <3> QED BY <1>1, <3>1, <3>3
  <2>2. Current.mod \in ImportsIn(src[last.mod])
    BY ZenonT(90), <1>1, <2>1, ImportsAre DEF LoaderInv
  <2> QED BY <1>1, <2>2, GoodImports DEF LoaderInv
<1>7. FileOK(src, DOMAIN cache', GoneOn(last, names, bad))
  <2> DEFINE g == GoneOn(last, names, bad)
  <2>1. src \in Worlds /\ g = GoneOn(last, names, bad)
    BY DEF LoaderInv
  <2> HIDE DEF g
  <2>2. ~last.bad /\ ~bad =>
          /\ DOMAIN names = NamesOf(src, Decls(last.mod)[last.at])
          /\ Decls(last.mod)[last.at].of \in DOMAIN cache'
    BY <1>1 DEF NamesOf
  <2>3. Decls(last.mod)[last.at].kind # "func"
    BY <1>1
  <2>4. FileOK(src, DOMAIN cache', g)
    BY <1>1, <1>3, <1>6, <2>1, <2>2, <2>3, FileGoes
  <2> QED BY <2>4 DEF g
<1>8. \A i \in 1..(n - 1) : FileOK(src, DOMAIN cache', checking'[i])
  <2>1. \A i \in 1..((n - 1) - 1) : i \in 1..(n - 1)
    BY <1>2
  <2> QED BY <1>1, <1>2, <1>4, <1>7, <2>1, FileKept, ZenonT(60)
<1> QED BY <1>4, <1>5, <1>8 DEF LoaderInv

\* A module is done: it goes into the cache if, and only if, it is good.
LEMMA ModuleDoneInv ==
  ASSUME LoaderInv, ModuleDone
  PROVE  LoaderInv'
<1> DEFINE m == Current.mod
<1>1. /\ verdict = "running" /\ Current.at > Len(Decls(m)) /\ Len(checking) > 1
      /\ loading' = loading \ {m} /\ UNCHANGED <<src, verdict>>
  BY DEF ModuleDone, AtEnd, Unload, Decls
<1>2. m \in Modules /\ FileOK(src, DOMAIN cache, Current) /\ Current.at = Len(Decls(m)) + 1
  BY <1>1, CurrentIs
<1>3. (Passes(Current) <=> Good(src, m)) /\ (Passes(Current) => DOMAIN Exports(m) = Exported(src, m))
  BY <1>2, PassesIfGood DEF LoaderInv
<1>4. CASE Passes(Current)
  <2>1. /\ cache' = [k \in DOMAIN cache \cup {m} |->
                       IF k = m THEN [exports |-> Exports(k), scope |-> Current.scope] ELSE cache[k]]
        /\ checking' = Goes(Front(checking), Exports(m), FALSE) /\ refusals' = refusals
    BY <1>4 DEF ModuleDone
  <2>2. DOMAIN cache' = DOMAIN cache \cup {m}
    BY <2>1
  <2>3. ASSUME NEW k \in DOMAIN cache'
        PROVE  k \in Modules /\ Good(src, k) /\ DOMAIN cache'[k].exports = Exported(src, k)
    <3>1. CASE k = m
      <4>1. cache'[k].exports = Exports(m)
        BY <2>1, <2>2, <3>1
      <4> QED BY <1>2, <1>3, <1>4, <3>1, <4>1
    <3>2. CASE k # m
      BY <2>1, <2>2, <3>2 DEF LoaderInv, CacheOK
    <3> QED BY <3>1, <3>2
  <2>4. CacheOK'
    BY <1>1, <2>3 DEF CacheOK
  <2>5. RefusalsOK'
    BY <1>1, <2>1 DEF LoaderInv, RefusalsOK
  <2> QED BY <1>1, <1>3, <1>4, <2>1, <2>2, <2>4, <2>5, ReturnInv
<1>5. CASE ~Passes(Current)
  <2>1. /\ checking' = Goes(Front(checking), NoNames, TRUE) /\ cache' = cache
        /\ refusals' = refusals \cup {<<Last(Front(checking)).mod, "moduleError", m>>}
    BY <1>5 DEF ModuleDone
  <2>2. Last(Front(checking)).mod \in Modules
    BY <1>1, PathBack
  <2>3. CacheOK' /\ RefusalsOK'
    BY <1>1, <1>2, <2>1, <2>2 DEF LoaderInv, CacheOK, RefusalsOK
  <2> QED BY <1>1, <1>3, <1>5, <2>1, <2>3, ReturnInv
<1> QED BY <1>4, <1>5

\* And so with the program.
LEMMA ProgramDoneInv ==
  ASSUME LoaderInv, ProgramDone
  PROVE  LoaderInv'
<1>1. /\ Current.at > Len(Decls(Current.mod)) /\ Len(checking) = 1
      /\ verdict' = IF Passes(Current) THEN "accepted" ELSE "refused"
      /\ UNCHANGED <<src, checking, cache, loading, refusals>>
  BY DEF ProgramDone, AtEnd, Decls
<1>2. Current.mod = Program /\ FileOK(src, DOMAIN cache, Current) /\ Current.at = Len(Decls(Current.mod)) + 1
  BY <1>1, CurrentIs DEF LoaderInv, PathOK
<1>3. Passes(Current) <=> Good(src, Program)
  BY <1>2, PassesIfGood DEF LoaderInv
<1>4. CacheOK' /\ RefusalsOK'
  BY <1>1 DEF LoaderInv, CacheOK, RefusalsOK
<1>5. verdict' \in {"running", "accepted", "refused"} /\ (verdict' = "accepted" <=> Good(src, Program))
  BY <1>1, <1>3
<1> QED BY <1>1, <1>4, <1>5 DEF LoaderInv

-----------------------------------------------------------------------------
(* The theorems.                                                             *)

\* The compiler begins with the program's file.
LEMMA LoaderInitInv == ModInit => LoaderInv
<1> SUFFICES ASSUME ModInit PROVE LoaderInv
  OBVIOUS
<1> DEFINE g == FileCheck(Program)
<1>1. /\ src \in Worlds /\ checking = <<g>> /\ cache = [m \in {} |-> <<>>]
      /\ loading = {} /\ refusals = {} /\ verdict = "running"
  BY DEF ModInit
<1>2. Program \in Modules /\ src[Program] \notin {NotFound, Unparsable}
  BY <1>1, ModulesAssumption, WorldsAssumption
<1>3. g.mod = Program /\ g.at = 1 /\ DOMAIN g.scope = {} /\ g.bad = FALSE /\ IsFile(g)
  BY DEF FileCheck, IsFile, NoNames
<1> HIDE DEF g
<1>4. Len(checking) = 1 /\ checking[1] = g /\ IsSeq(checking)
  <2>1. <<g>> \in Seq({g})
    OBVIOUS
  <2> QED BY <1>1, <2>1 DEF IsSeq
<1>5. FileOK(src, DOMAIN cache, g)
  <2>1. g.at \in 1..(Len(DeclsOf(src[g.mod])) + 1)
    BY <1>1, <1>2, <1>3, DeclsAre DEF Decls
  <2>2. \A j \in 1..(g.at - 1) : FALSE
    BY <1>3
  <2> QED BY <1>2, <1>3, <2>1, <2>2 DEF FileOK
<1>6. PathOK(src, checking, loading)
  <2>1. (\A i \in 2..Len(checking) : FALSE) /\ (\A i \in 1..(Len(checking) - 1) : FALSE)
    BY <1>4
  <2>2. \A i \in 1..Len(checking) : checking[i].mod = Program
    BY <1>3, <1>4
  <2> QED BY <1>1, <1>2, <1>3, <1>4, <2>1, <2>2, NeedsSelf DEF PathOK
<1>7. CacheOK /\ RefusalsOK
  BY <1>1 DEF CacheOK, RefusalsOK
<1>8. \A i \in 1..Len(checking) : FileOK(src, DOMAIN cache, checking[i])
  BY <1>4, <1>5
<1> QED BY <1>1, <1>6, <1>7, <1>8 DEF LoaderInv

\* Every step keeps the invariant.
LEMMA LoaderStepInv == LoaderInv /\ [ModNext]_modvars => LoaderInv'
<1> SUFFICES ASSUME LoaderInv, [ModNext]_modvars PROVE LoaderInv'
  OBVIOUS
<1>1. CASE ModNext
  BY <1>1, ImportCachedInv, ImportCircularInv, ImportUnusableInv, ImportBeginsInv, DeclareFuncInv,
     ModuleDoneInv, ProgramDoneInv DEF ModNext
<1>2. CASE UNCHANGED modvars
  BY <1>2 DEF modvars, LoaderInv, CacheOK, RefusalsOK
<1> QED BY <1>1, <1>2

LEMMA LoaderInvariant == ModSpec => []LoaderInv
BY LoaderInitInv, LoaderStepInv, PTL DEF ModSpec

\* The types of the loader's state.
THEOREM LoaderTypes == ModSpec => []ModTypeOK
<1>1. LoaderInv => ModTypeOK
  <2> SUFFICES ASSUME LoaderInv PROVE ModTypeOK
    OBVIOUS
  <2>1. IsSeq(checking) /\ DOMAIN checking = 1..Len(checking)
    BY DEF LoaderInv, PathOK, IsSeq
  <2>2. \A i \in DOMAIN checking : checking[i].mod \in Modules /\ checking[i].bad \in BOOLEAN
    BY <2>1 DEF LoaderInv, FileOK
  <2>3. loading \subseteq Modules
    <3>1. loading = {checking[i].mod : i \in 2..Len(checking)} /\ \A i \in 2..Len(checking) : i \in 1..Len(checking)
      BY CurrentIs DEF LoaderInv, PathOK
    <3> QED BY <2>1, <2>2, <3>1
  <2>4. refusals \subseteq Modules \X {"circular", "notFound", "moduleError"} \X Modules
    BY DEF LoaderInv, RefusalsOK
  <2>5. DOMAIN cache \subseteq Modules
    BY DEF LoaderInv, CacheOK
  <2> QED BY <2>2, <2>3, <2>4, <2>5 DEF ModTypeOK, LoaderInv
<1> QED BY <1>1, LoaderInvariant, PTL

\* The loader and the checker accept a program when, and only when, it is well formed,
\* however its modules import each other; and what is refused as circular is on a cycle.
THEOREM LoaderIsRight == ModSpec => []LoaderDecides
<1>1. LoaderInv => LoaderDecides
  <2>1. Good(src, Program) <=> WellFormed(src)
    BY DEF Good, WellFormed
  <2> QED BY <2>1 DEF LoaderInv, RefusalsOK, LoaderDecides
<1> QED BY <1>1, LoaderInvariant, PTL

-----------------------------------------------------------------------------
(***************************************************************************)
(* Proofs about LanguageServer, for any documents, texts, requests and ids,  *)
(* and any number of messages.                                               *)
(*                                                                         *)
(* What makes an answer right is that messages are read in the order they    *)
(* were written: the texts the client had when it asked are those the server *)
(* has when it reads the request (InboxInv), and what the server keeps of a  *)
(* document is always what it would make of its text afresh (DocsInv).       *)
(***************************************************************************)

Notes == {"didOpen", "didChange", "didClose"}

\* Message i is about document u.
About(i, u) == inbox[i].kind \in Notes /\ inbox[i].uri = u

\* The text the server has.
Held(u) == IF documents[u].open THEN documents[u].content ELSE NoText

\* The text of u the server has when it comes to read message i is t.
Known(i, u, t) ==
  \/ (\A j \in 1..(i - 1) : ~About(j, u)) /\ t = Held(u)
  \/ \E j \in 1..(i - 1) :
       About(j, u) /\ (\A k \in (j + 1)..(i - 1) : ~About(k, u)) /\ t = inbox[j].text

\* A change comes only for a document the server has by then.
MessageInv(i) ==
  /\ inbox[i].kind \in Notes \cup {"request", "cancel", "exit"}
  /\ inbox[i].kind \in Notes => inbox[i].uri \in UriSet
  /\ inbox[i].kind \in {"didOpen", "didChange"} => inbox[i].text \in Texts
  /\ inbox[i].kind = "didClose" => inbox[i].text = NoText
  /\ inbox[i].kind = "didChange" => \E t : Known(i, inbox[i].uri, t) /\ t # NoText
  /\ inbox[i].kind = "request" =>
       inbox[i].q \in Asks /\ inbox[i].id \in Ids /\ \A u \in UriSet : Known(i, u, inbox[i].sees[u])
  /\ inbox[i].kind = "cancel" => inbox[i].id \in Ids

InboxInv ==
  /\ \E S : inbox \in Seq(S)
  /\ \A i \in 1..Len(inbox) : MessageInv(i)
  /\ \A u \in UriSet : Known(Len(inbox) + 1, u, view[u])

\* What is kept of a document: its text, and what analyzeDocument makes of it.
DocInv(doc) ==
  /\ doc.open \in BOOLEAN
  /\ doc.open =>
       /\ doc = [open |-> doc.open, content |-> doc.content, tu |-> doc.tu, diag |-> doc.diag,
                 refCountCache |-> doc.refCountCache, refCountGeneration |-> doc.refCountGeneration]
       /\ doc.content \in Texts
       /\ doc.tu = parseTranslationUnit(doc.content)
       /\ doc.diag = Diagnostics(doc.content, doc.tu)

\* The reference counts of a document are those of the present, or marked as old.
CacheInv(doc) ==
  doc.open =>
    /\ doc.refCountGeneration \in Int /\ doc.refCountGeneration <= refCacheGeneration
    /\ doc.refCountGeneration = refCacheGeneration =>
         \A n \in DeclNames(doc.tu) :
           n \in DOMAIN doc.refCountCache /\ doc.refCountCache[n] = countReferences(documents, n)

DocsInv ==
  /\ documents = [u \in UriSet |-> documents[u]] /\ refCacheGeneration \in Nat
  /\ \A u \in UriSet : DocInv(documents[u]) /\ CacheInv(documents[u])

ShownInv ==
  /\ shown = [u \in UriSet |-> shown[u]]
  /\ \A u \in UriSet : shown[u] = IF documents[u].open THEN documents[u].diag ELSE {}

\* The cancels for an id on the way.
Cancels(id) == {i \in 1..Len(inbox) : inbox[i].kind = "cancel" /\ inbox[i].id = id}

\* Every cancel that may still refuse a request was sent, and has refused none yet.
RefusedInv ==
  /\ refused = [id \in Ids |-> refused[id]]
  /\ \A id \in Ids :
       refused[id] \in Int /\ refused[id] >= Cardinality(Cancels(id)) + (IF id \in cancelledRequests THEN 1 ELSE 0)

\* What an answer given by the last step is.
AnswerInv ==
  answer # NoId /\ ~answer.refused /\ answer.q.method # "shutdown" =>
    answer.value[2] = ResultOf(FreshDocuments(answer.sees), 0, answer.q)

ViewInv == view = [u \in UriSet |-> view[u]]

LInv == ViewInv /\ InboxInv /\ DocsInv /\ ShownInv /\ RefusedInv /\ AnswerInv

-----------------------------------------------------------------------------
(* Equal documents give equal answers.                                       *)

\* docs and more hold the same texts, and what analyzeDocument makes of them.
Alike(docs, more) ==
  \A u \in UriSet :
    /\ docs[u].open = more[u].open
    /\ docs[u].open => docs[u].content = more[u].content /\ docs[u].tu = more[u].tu /\ docs[u].diag = more[u].diag

\* The open documents are the same,
LEMMA SameOpen ==
  ASSUME NEW docs, NEW more, Alike(docs, more)
  PROVE  {v \in UriSet : IsOpen(docs, v)} = {v \in UriSet : IsOpen(more, v)}
BY DEF Alike, IsOpen

\* the reference counts,
LEMMA SameCounts ==
  ASSUME NEW docs, NEW more, Alike(docs, more), NEW name
  PROVE  countReferences(docs, name) = countReferences(more, name)
<1> DEFINE A == UNION {{u} \X findNameOccurrences(docs[u].content, name) : u \in {v \in UriSet : IsOpen(docs, v)}}
           B == UNION {{u} \X findNameOccurrences(more[u].content, name) : u \in {v \in UriSet : IsOpen(more, v)}}
<1>1. \A u \in {v \in UriSet : IsOpen(docs, v)} : docs[u].content = more[u].content
  BY DEF Alike, IsOpen
<1>2. A = B
  BY <1>1, SameOpen
<1> HIDE DEF A, B
<1>3. Cardinality(A) = Cardinality(B)
  BY <1>2
<1> QED BY <1>3 DEF A, B, countReferences

\* the symbols of the workspace,
LEMMA SameSymbols ==
  ASSUME NEW docs, NEW more, Alike(docs, more)
  PROVE  handleWorkspaceSymbol(docs) = handleWorkspaceSymbol(more)
<1>1. \A u \in {v \in UriSet : IsOpen(docs, v)} : docs[u].tu = more[u].tu
  BY DEF Alike, IsOpen
<1> QED BY <1>1, SameOpen DEF handleWorkspaceSymbol

\* the callers,
LEMMA SameCallers ==
  ASSUME NEW docs, NEW more, Alike(docs, more), NEW name
  PROVE  handleCallHierarchyIncoming(docs, name) = handleCallHierarchyIncoming(more, name)
<1>1. \A u \in {v \in UriSet : IsOpen(docs, v)} : docs[u].tu = more[u].tu
  BY DEF Alike, IsOpen
<1> QED BY <1>1, SameOpen DEF handleCallHierarchyIncoming

\* and the callees.
LEMMA SameCallees ==
  ASSUME NEW docs, NEW more, Alike(docs, more), NEW uri \in UriSet, NEW name
  PROVE  handleCallHierarchyOutgoing(docs, uri, name) = handleCallHierarchyOutgoing(more, uri, name)
<1>0. \A i \in 1..Len(Uris) : Uris[i] \in UriSet
  BY UrisAssumption DEF UriSet, ToSet
<1>1. ASSUME NEW callee PROVE CalleeUri(docs, uri, callee) = CalleeUri(more, uri, callee)
  <2> DEFINE A == {i \in 1..Len(Uris) : IsOpen(docs, Uris[i]) /\ callee \in DeclNames(docs[Uris[i]].tu)}
             B == {i \in 1..Len(Uris) : IsOpen(more, Uris[i]) /\ callee \in DeclNames(more[Uris[i]].tu)}
  <2>1. A = B
    <3>1. ASSUME NEW i \in 1..Len(Uris)
          PROVE  IsOpen(docs, Uris[i]) /\ callee \in DeclNames(docs[Uris[i]].tu)
                   <=> IsOpen(more, Uris[i]) /\ callee \in DeclNames(more[Uris[i]].tu)
      BY <1>0 DEF Alike, IsOpen
    <3> QED BY <3>1
  <2>2. CalleeUri(docs, uri, callee) = IF A = {} THEN uri ELSE Uris[Max(A)]
    BY DEF CalleeUri
  <2>3. CalleeUri(more, uri, callee) = IF B = {} THEN uri ELSE Uris[Max(B)]
    BY DEF CalleeUri
  <2> HIDE DEF A, B
  <2> QED BY <2>1, <2>2, <2>3
<1> DEFINE A == IF IsOpen(docs, uri) THEN findDeclByName(docs[uri].tu, name) ELSE {}
           B == IF IsOpen(more, uri) THEN findDeclByName(more[uri].tu, name) ELSE {}
<1>2. A = B
  BY DEF Alike, IsOpen
<1> DEFINE Out(docs_, d) == {<<callee, CalleeUri(docs_, uri, callee), CallSites(d, callee)>> : callee \in Callees(d)}
<1>3. handleCallHierarchyOutgoing(docs, uri, name) = UNION {Out(docs, d) : d \in A}
  BY DEF handleCallHierarchyOutgoing
<1>4. handleCallHierarchyOutgoing(more, uri, name) = UNION {Out(more, d) : d \in B}
  BY DEF handleCallHierarchyOutgoing
<1>5. \A d : Out(docs, d) = Out(more, d)
  BY <1>1
<1> HIDE DEF A, B, Out
<1> QED BY <1>2, <1>3, <1>4, <1>5

-----------------------------------------------------------------------------
(* The document records.                                                     *)

IsRecord(doc) ==
  doc = [open |-> doc.open, content |-> doc.content, tu |-> doc.tu, diag |-> doc.diag,
         refCountCache |-> doc.refCountCache, refCountGeneration |-> doc.refCountGeneration]

\* Every declared name has its count.
Counted(doc, docs) ==
  \A n \in DeclNames(doc.tu) :
    n \in DOMAIN doc.refCountCache /\ doc.refCountCache[n] = countReferences(docs, n)

\* What analyzeDocument leaves of a document,
LEMMA AnalyzedIs ==
  ASSUME NEW doc, IsRecord(doc), NEW text, NEW d, d = analyzeDocument([doc EXCEPT !.content = text])
  PROVE  /\ IsRecord(d) /\ d.open = doc.open /\ d.content = text
         /\ d.tu = parseTranslationUnit(text) /\ d.diag = Diagnostics(text, parseTranslationUnit(text))
         /\ d.refCountCache = doc.refCountCache /\ d.refCountGeneration = doc.refCountGeneration
<1> DEFINE e == [doc EXCEPT !.content = text]
           tu == parseTranslationUnit(text)
           diag == Diagnostics(text, tu)
<1>1. e = [open |-> doc.open, content |-> text, tu |-> doc.tu, diag |-> doc.diag,
           refCountCache |-> doc.refCountCache, refCountGeneration |-> doc.refCountGeneration]
  BY DEF IsRecord
<1>2. e.content = text
  BY <1>1
<1>3. d = [e EXCEPT !.tu = tu, !.diag = diag]
  BY <1>2 DEF analyzeDocument
<1> HIDE DEF e, tu, diag
<1>4. d = [open |-> doc.open, content |-> text, tu |-> tu, diag |-> diag,
           refCountCache |-> doc.refCountCache, refCountGeneration |-> doc.refCountGeneration]
  BY <1>1, <1>3
<1> QED BY <1>4 DEF IsRecord, tu, diag

\* of a new one,
LEMMA FreshIs ==
  ASSUME NEW text, NEW d, d = analyzeDocument(NewDocument(text))
  PROVE  /\ IsRecord(d) /\ d.open = TRUE /\ d.content = text
         /\ d.tu = parseTranslationUnit(text) /\ d.diag = Diagnostics(text, parseTranslationUnit(text))
         /\ d.refCountGeneration = -1
<1> DEFINE doc == NewDocument(text)
           c == << >>
<1>1. doc = [open |-> TRUE, content |-> text, tu |-> {}, diag |-> {},
             refCountCache |-> c, refCountGeneration |-> -1]
  BY DEF NewDocument
<1> HIDE DEF doc, c
<1>2. doc.open = TRUE /\ doc.content = text /\ doc.refCountGeneration = -1
  BY <1>1
<1>3. IsRecord(doc)
  BY <1>1 DEF IsRecord
<1>4. [doc EXCEPT !.content = text] = doc
  BY <1>1, <1>2
<1>5. d = analyzeDocument([doc EXCEPT !.content = text])
  BY <1>4 DEF doc
<1> QED BY <1>2, <1>3, <1>5, AnalyzedIs

\* and what a request for code lenses makes of its cache.
LEMMA LensCacheIs ==
  ASSUME NEW docs, NEW u, NEW g, IsRecord(docs[u]),
         docs[u].refCountGeneration = g => Counted(docs[u], docs),
         NEW d, d = LensCache(docs, u, g)
  PROVE  /\ IsRecord(d) /\ d.open = docs[u].open /\ d.content = docs[u].content
         /\ d.tu = docs[u].tu /\ d.diag = docs[u].diag /\ d.refCountGeneration = g
         /\ Counted(d, docs)
<1> DEFINE doc == docs[u]
           counts == [n \in DeclNames(doc.tu) \cup DOMAIN doc.refCountCache |->
                       IF n \in DeclNames(doc.tu) THEN countReferences(docs, n) ELSE doc.refCountCache[n]]
<1>1. CASE docs[u].refCountGeneration = g
  BY <1>1 DEF LensCache
<1>2. CASE docs[u].refCountGeneration # g
  <2>1. d = [doc EXCEPT !.refCountCache = counts, !.refCountGeneration = g]
    BY <1>2 DEF LensCache
  <2>2. \A n \in DeclNames(doc.tu) : n \in DOMAIN counts /\ counts[n] = countReferences(docs, n)
    OBVIOUS
  <2> HIDE DEF counts, doc
  <2>3. d = [open |-> doc.open, content |-> doc.content, tu |-> doc.tu, diag |-> doc.diag,
             refCountCache |-> counts, refCountGeneration |-> g]
    BY <2>1 DEF IsRecord, doc
  <2>4. d.open = doc.open /\ d.content = doc.content /\ d.tu = doc.tu /\ d.diag = doc.diag
        /\ d.refCountCache = counts /\ d.refCountGeneration = g
    BY <2>3
  <2>5. IsRecord(d)
    BY <2>3, <2>4 DEF IsRecord
  <2> QED BY <2>2, <2>4, <2>5 DEF Counted, doc
<1> QED BY <1>1, <1>2

\* The server's documents are like those of a server started afresh with their texts.
LEMMA LikeFresh ==
  ASSUME DocsInv, NEW texts, \A u \in UriSet : texts[u] = Held(u)
  PROVE  /\ Alike(documents, FreshDocuments(texts))
         /\ \A u \in UriSet : documents[u].open =>
              IsRecord(FreshDocuments(texts)[u]) /\ FreshDocuments(texts)[u].refCountGeneration = -1
<1> DEFINE F == FreshDocuments(texts)
<1>1. SUFFICES ASSUME NEW u \in UriSet
      PROVE  /\ documents[u].open = F[u].open
             /\ documents[u].open =>
                  /\ documents[u].content = F[u].content /\ documents[u].tu = F[u].tu /\ documents[u].diag = F[u].diag
                  /\ IsRecord(F[u]) /\ F[u].refCountGeneration = -1
  BY DEF Alike
<1>2. DocInv(documents[u])
  BY DEF DocsInv
<1>3. CASE ~documents[u].open
  <2>1. F[u] = Closed
    BY <1>3 DEF FreshDocuments, Held
  <2>2. F[u].open = FALSE
    BY <2>1 DEF Closed
  <2> QED BY <1>2, <1>3, <2>2 DEF DocInv
<1>4. CASE documents[u].open
  <2> DEFINE text == documents[u].content
  <2>1. texts[u] = text /\ text # NoText
    BY <1>2, <1>4, TextsAssumption DEF Held, DocInv
  <2>2. F[u] = analyzeDocument(NewDocument(text))
    BY <2>1 DEF FreshDocuments
  <2>3. /\ IsRecord(F[u]) /\ F[u].open = TRUE /\ F[u].content = text
        /\ F[u].tu = parseTranslationUnit(text) /\ F[u].diag = Diagnostics(text, parseTranslationUnit(text))
        /\ F[u].refCountGeneration = -1
    BY ZenonT(90), <2>2, FreshIs
  <2>4. documents[u].tu = parseTranslationUnit(text) /\ documents[u].diag = Diagnostics(text, parseTranslationUnit(text))
        /\ documents[u].open = TRUE
    BY <1>2, <1>4 DEF DocInv
  <2> HIDE DEF F, text
  <2> QED BY <2>3, <2>4 DEF text
<1> QED BY <1>2, <1>3, <1>4 DEF DocInv

\* What the server answers is what a server started afresh would.
LEMMA AnswersAlike ==
  ASSUME DocsInv, NEW texts, \A u \in UriSet : texts[u] = Held(u),
         NEW q, q.uri \in UriSet, q.method \in DocumentMethods \cup NameMethods
  PROVE  ResultOf(documents, refCacheGeneration, q) = ResultOf(FreshDocuments(texts), 0, q)
<1> DEFINE F == FreshDocuments(texts)
           u == q.uri
<1>1. Alike(documents, F) /\ (documents[u].open => IsRecord(F[u]) /\ F[u].refCountGeneration = -1)
  BY LikeFresh
<1>2. documents[u].open = F[u].open
      /\ (documents[u].open => documents[u].content = F[u].content /\ documents[u].tu = F[u].tu /\ documents[u].diag = F[u].diag)
  BY <1>1 DEF Alike
<1>3. DocInv(documents[u]) /\ CacheInv(documents[u])
  BY DEF DocsInv
<1> HIDE DEF F
<1>4. CASE q.method \in NameMethods
  <2>1. /\ handleWorkspaceSymbol(documents) = handleWorkspaceSymbol(F)
        /\ handleCallHierarchyIncoming(documents, q.name) = handleCallHierarchyIncoming(F, q.name)
        /\ handleCallHierarchyOutgoing(documents, u, q.name) = handleCallHierarchyOutgoing(F, u, q.name)
    BY <1>1, SameSymbols, SameCallers, SameCallees
  <2> QED BY <1>4, <2>1 DEF ResultOf, NameMethods, F
<1>5. CASE q.method \in DocumentMethods /\ ~documents[u].open
  BY <1>2, <1>5 DEF ResultOf, DocumentMethods, IsOpen, F
<1>6. CASE q.method \in DocumentMethods \ {"codeLens"} /\ documents[u].open
  <2> DEFINE d == documents[u]
             e == F[u]
  <2>1. d.content = e.content /\ d.tu = e.tu /\ d.diag = e.diag
    BY <1>2, <1>6
  <2>2. DocumentsAfter(documents, refCacheGeneration, q) = documents /\ DocumentsAfter(F, 0, q) = F
    BY <1>6 DEF DocumentsAfter
  <2>3. q.method \notin NameMethods /\ IsOpen(documents, u) /\ IsOpen(F, u)
    BY <1>2, <1>6 DEF NameMethods, DocumentMethods, IsOpen
  <2> HIDE DEF d, e
  <2>4. /\ handleReferences(d, q) = handleReferences(e, q) /\ handleRename(d, q) = handleRename(e, q)
        /\ handleDocumentHighlight(d, q) = handleDocumentHighlight(e, q)
        /\ handleDefinition(d, q) = handleDefinition(e, q)
    BY <2>1 DEF handleReferences, handleRename, handleDocumentHighlight, handleDefinition
  <2>5. /\ handleDocumentSymbol(d) = handleDocumentSymbol(e) /\ handleCodeAction(d, q) = handleCodeAction(e, q)
        /\ handleCallHierarchyPrepare(d, q) = handleCallHierarchyPrepare(e, q)
        /\ handleCompletion(d) = handleCompletion(e) /\ handleHover(d, q) = handleHover(e, q)
    BY <2>1 DEF handleDocumentSymbol, handleCodeAction, handleCallHierarchyPrepare, handleCompletion, handleHover
  <2>6. /\ handleSignatureHelp(d, q) = handleSignatureHelp(e, q)
        /\ handleInlayHint(d, q) = handleInlayHint(e, q)
        /\ handleFoldingRange(d) = handleFoldingRange(e) /\ ContentOnly(d) = ContentOnly(e)
    BY <2>1 DEF handleSignatureHelp, handleInlayHint, handleFoldingRange, ContentOnly
  <2> QED BY <1>6, <2>2, <2>3, <2>4, <2>5, <2>6 DEF ResultOf, DocumentMethods, NameMethods, d, e, F
<1>7. CASE q.method = "codeLens" /\ documents[u].open
  <2> DEFINE d == DocumentsAfter(documents, refCacheGeneration, q)[u]
             e == DocumentsAfter(F, 0, q)[u]
  <2>1. IsRecord(documents[u]) /\ (documents[u].refCountGeneration = refCacheGeneration => Counted(documents[u], documents))
    BY <1>3, <1>7 DEF DocInv, CacheInv, IsRecord, Counted
  <2>2. d.tu = documents[u].tu /\ Counted(d, documents)
    <3>1. CASE documents[u].tu = {}
      BY <3>1 DEF DocumentsAfter, Counted, DeclNames
    <3>2. CASE documents[u].tu # {}
      <4>1. d = LensCache(documents, u, refCacheGeneration)
        BY <1>7, <3>2 DEF DocumentsAfter, IsOpen, DocsInv
      <4> HIDE DEF d
      <4> QED BY <2>1, <4>1, LensCacheIs
    <3> QED BY <3>1, <3>2
  <2>3. e.tu = F[u].tu /\ Counted(e, F)
    <3>1. CASE F[u].tu = {}
      BY <3>1 DEF DocumentsAfter, Counted, DeclNames
    <3>2. CASE F[u].tu # {}
      <4>1. F = [v \in UriSet |-> F[v]]
        BY DEF F, FreshDocuments
      <4>2. e = LensCache(F, u, 0)
        BY <1>2, <1>7, <3>2, <4>1 DEF DocumentsAfter, IsOpen
      <4>3. F[u].refCountGeneration # 0 /\ IsRecord(F[u])
        BY <1>1, <1>7
      <4> HIDE DEF e
      <4> QED BY <4>2, <4>3, LensCacheIs
    <3> QED BY <3>1, <3>2
  <2>4. \A n : countReferences(documents, n) = countReferences(F, n)
    BY <1>1, SameCounts
  <2>5. ResultOf(documents, refCacheGeneration, q) = handleCodeLens(d) /\ ResultOf(F, 0, q) = handleCodeLens(e)
    BY <1>2, <1>7 DEF ResultOf, IsOpen
  <2>6. d.tu = e.tu
    BY <1>2, <1>7, <2>2, <2>3
  <2> HIDE DEF d, e
  <2>7. \A x \in d.tu : x.name \in DOMAIN d.refCountCache /\ x.name \in DOMAIN e.refCountCache
                        /\ d.refCountCache[x.name] = e.refCountCache[x.name]
    BY <2>2, <2>3, <2>4, <2>6 DEF Counted, DeclNames
  <2>8. handleCodeLens(d) = handleCodeLens(e)
    BY <2>6, <2>7 DEF handleCodeLens
  <2> QED BY <2>5, <2>8 DEF F
<1> QED BY <1>4, <1>5, <1>6, <1>7

-----------------------------------------------------------------------------
(* The two directions of the call hierarchy.                                 *)

\* No text declares a name twice.
DistinctNames == \A text \in Texts : \A i, j \in 1..Len(text) : text[i].name = text[j].name => i = j

\* What the server lists as callers of g are the call sites it lists below f.
Mirror ==
  LET opened == {u \in UriSet : IsOpen(documents, u)}
  IN  \A u \in opened :
        \A f \in DeclNames(documents[u].tu), g \in UNION {DeclNames(documents[v].tu) : v \in opened} :
          {caller[3] : caller \in {x \in handleCallHierarchyIncoming(documents, g) : x[1] = u /\ x[2] = f}}
            = {out[3] : out \in {x \in handleCallHierarchyOutgoing(documents, u, f) : x[1] = g}}

\* With such texts each caller the server lists is one of which it lists the callee, and the other way round.
LEMMA HierarchiesMirror ==
  ASSUME DocsInv, DistinctNames
  PROVE  Mirror
<1> SUFFICES ASSUME NEW u \in UriSet, IsOpen(documents, u), NEW f \in DeclNames(documents[u].tu), NEW g
             PROVE  {caller[3] : caller \in {x \in handleCallHierarchyIncoming(documents, g) : x[1] = u /\ x[2] = f}}
                      = {out[3] : out \in {x \in handleCallHierarchyOutgoing(documents, u, f) : x[1] = g}}
  BY ZenonT(60) DEF Mirror
<1> DEFINE tu == documents[u].tu
           text == documents[u].content
           In == {caller[3] : caller \in {x \in handleCallHierarchyIncoming(documents, g) : x[1] = u /\ x[2] = f}}
           Out == {out[3] : out \in {x \in handleCallHierarchyOutgoing(documents, u, f) : x[1] = g}}
<1>1. text \in Texts /\ tu = parseTranslationUnit(text)
  BY DEF DocsInv, DocInv, IsOpen
<1>2. \A d \in tu : \E i \in 1..Len(text) : d.at = i /\ d.name = text[i].name /\ d = [at |-> i, name |-> text[i].name, calls |-> text[i].calls]
  BY <1>1 DEF parseTranslationUnit
<1>3. \A d, e \in tu : d.name = e.name => d = e
  BY <1>1, <1>2 DEF DistinctNames
<1>4. PICK d \in tu : d.name = f
  BY DEF DeclNames
<1>5. \A e \in tu : e.name = f <=> e = d
  BY <1>3, <1>4
<1>6. findDeclByName(tu, f) = {d}
  <2>1. d.at <= d.at
    BY <1>1, <1>2
  <2> HIDE DEF tu, text
  <2> QED BY <1>4, <1>5, <2>1 DEF findDeclByName
<1>7. \A S : S \in In <=> S = CallSites(d, g) /\ CallSites(d, g) # {}
  <2>1. handleCallHierarchyIncoming(documents, g) =
          UNION {{<<w, e.name, CallSites(e, g)>> : e \in {c \in documents[w].tu : CallSites(c, g) # {}}}
                   : w \in {v \in UriSet : IsOpen(documents, v)}}
    BY DEF handleCallHierarchyIncoming
  <2> DEFINE H == handleCallHierarchyIncoming(documents, g)
  <2>2. \A x : x \in H <=> \E w \in UriSet : IsOpen(documents, w) /\
           \E e \in documents[w].tu : CallSites(e, g) # {} /\ x = <<w, e.name, CallSites(e, g)>>
    BY <2>1
  <2> HIDE DEF H
  <2>3. ASSUME NEW S, S \in In PROVE S = CallSites(d, g) /\ CallSites(d, g) # {}
    <3>1. PICK x \in H : x[1] = u /\ x[2] = f /\ x[3] = S
      BY <2>3 DEF H
    <3>2. PICK e \in tu : CallSites(e, g) # {} /\ x = <<u, e.name, CallSites(e, g)>>
      BY <2>2, <3>1
    <3>3. e = d
      BY <1>5, <3>1, <3>2
    <3> QED BY <3>1, <3>2, <3>3
  <2>4. ASSUME CallSites(d, g) # {} PROVE CallSites(d, g) \in In
    <3>1. <<u, d.name, CallSites(d, g)>> \in H
      BY <1>4, <2>2, <2>4
    <3> HIDE DEF tu
    <3> QED BY <1>4, <3>1 DEF H
  <2> HIDE DEF In
  <2> QED BY <2>3, <2>4
<1>8. \A S : S \in Out <=> S = CallSites(d, g) /\ g \in Callees(d)
  <2> DEFINE G == handleCallHierarchyOutgoing(documents, u, f)
  <2>1. G = UNION {{<<callee, CalleeUri(documents, u, callee), CallSites(e, callee)>> : callee \in Callees(e)} : e \in {d}}
    BY <1>6 DEF handleCallHierarchyOutgoing
  <2>2. \A x : x \in G <=> \E callee \in Callees(d) : x = <<callee, CalleeUri(documents, u, callee), CallSites(d, callee)>>
    BY <2>1
  <2> HIDE DEF G
  <2>3. ASSUME NEW S, S \in Out PROVE S = CallSites(d, g) /\ g \in Callees(d)
    <3>1. PICK x \in G : x[1] = g /\ x[3] = S
      BY <2>3 DEF G
    <3>2. PICK callee \in Callees(d) : x = <<callee, CalleeUri(documents, u, callee), CallSites(d, callee)>>
      BY <2>2, <3>1
    <3> QED BY <3>1, <3>2
  <2>4. ASSUME g \in Callees(d) PROVE CallSites(d, g) \in Out
    <3>1. <<g, CalleeUri(documents, u, g), CallSites(d, g)>> \in G
      BY <2>2, <2>4
    <3> QED BY <3>1 DEF G
  <2> HIDE DEF Out
  <2> QED BY <2>3, <2>4
<1>9. g \in Callees(d) <=> CallSites(d, g) # {}
  BY DEF Callees, CallSites
<1> HIDE DEF In, Out
<1>10. In = Out
  BY <1>7, <1>8, <1>9
<1> QED BY <1>10 DEF In, Out

-----------------------------------------------------------------------------
(* The inbox.                                                                *)

\* A message that is sent comes after all the others.
LEMMA SendIs ==
  ASSUME NEW S, inbox \in Seq(S), NEW msg, inbox' = Append(inbox, msg)
  PROVE  /\ \E T : inbox' \in Seq(T)
         /\ Len(inbox') = Len(inbox) + 1 /\ Len(inbox) \in Nat
         /\ inbox'[Len(inbox) + 1] = msg
         /\ \A i \in 1..Len(inbox) : inbox'[i] = inbox[i]
<1>1. inbox \in Seq(S \cup {msg}) /\ Len(inbox) \in Nat
  OBVIOUS
<1>2. inbox' \in Seq(S \cup {msg})
  BY <1>1
<1> QED BY <1>1, <1>2

\* A message that is read was the first; the others move up.
LEMMA ReadIs ==
  ASSUME NEW S, inbox \in Seq(S), inbox # <<>>, inbox' = Tail(inbox)
  PROVE  /\ \E T : inbox' \in Seq(T)
         /\ Len(inbox') = Len(inbox) - 1 /\ Len(inbox) \in Nat \ {0}
         /\ Head(inbox) = inbox[1]
         /\ \A i \in 1..(Len(inbox) - 1) : inbox'[i] = inbox[i + 1]
<1>1. inbox' \in Seq(S)
  OBVIOUS
<1> QED BY <1>1

\* What the server knows when it comes to a message does not depend on later ones.
LEMMA SendKeepsKnown ==
  ASSUME NEW S, inbox \in Seq(S), NEW msg, inbox' = Append(inbox, msg), documents' = documents,
         NEW i \in 1..(Len(inbox) + 1), NEW u, NEW t, Known(i, u, t)
  PROVE  Known(i, u, t)'
<1> DEFINE n == Len(inbox)
<1>1. n \in Nat /\ \A j \in 1..n : inbox'[j] = inbox[j]
  BY SendIs
<1>2. \A j \in 1..(i - 1) : j \in 1..n /\ (About(j, u)' <=> About(j, u)) /\ inbox'[j].text = inbox[j].text
  BY <1>1 DEF About
<1>3. Held(u)' = Held(u)
  BY DEF Held
<1>4. CASE (\A j \in 1..(i - 1) : ~About(j, u)) /\ t = Held(u)
  BY <1>2, <1>3, <1>4 DEF Known
<1>5. CASE \E j \in 1..(i - 1) : About(j, u) /\ (\A k \in (j + 1)..(i - 1) : ~About(k, u)) /\ t = inbox[j].text
  <2>1. PICK j \in 1..(i - 1) : About(j, u) /\ (\A k \in (j + 1)..(i - 1) : ~About(k, u)) /\ t = inbox[j].text
    BY <1>5
  <2>2. \A k \in (j + 1)..(i - 1) : k \in 1..(i - 1)
    BY <1>1
  <2>3. About(j, u)' /\ (\A k \in (j + 1)..(i - 1) : ~About(k, u)') /\ t = inbox'[j].text
    BY <1>2, <2>1, <2>2
  <2> QED BY <2>3 DEF Known
<1> QED BY <1>4, <1>5 DEF Known

\* After the new message the server knows its text, or what it knew before.
LEMMA SendKnows ==
  ASSUME NEW S, inbox \in Seq(S), NEW msg, inbox' = Append(inbox, msg), documents' = documents,
         NEW n, n = Len(inbox), NEW u, NEW t, Known(n + 1, u, t)
  PROVE  /\ msg.kind \in Notes /\ msg.uri = u => Known(n + 2, u, msg.text)'
         /\ ~(msg.kind \in Notes /\ msg.uri = u) => Known(n + 2, u, t)'
<1>1. n \in Nat /\ inbox'[n + 1] = msg
  BY SendIs
<1>2. Known(n + 1, u, t)'
  <2>1. n + 1 \in 1..(n + 1)
    BY <1>1
  <2> QED BY <2>1, SendKeepsKnown
<1>3. (n + 2) - 1 = n + 1 /\ (n + 1) - 1 = n
  BY <1>1
<1>4. About(n + 1, u)' <=> msg.kind \in Notes /\ msg.uri = u
  BY <1>1 DEF About
<1>5. ASSUME msg.kind \in Notes, msg.uri = u PROVE Known(n + 2, u, msg.text)'
  <2>1. n + 1 \in 1..(n + 1) /\ (\A k \in ((n + 1) + 1)..(n + 1) : ~About(k, u)') /\ inbox'[n + 1].text = msg.text
    BY <1>1
  <2> QED BY <1>3, <1>4, <1>5, <2>1 DEF Known
<1>6. ASSUME ~(msg.kind \in Notes /\ msg.uri = u) PROVE Known(n + 2, u, t)'
  <2>1. ~About(n + 1, u)'
    BY <1>4, <1>6
  <2>2. \A k \in 1..(n + 1) : k \in 1..n \/ k = n + 1
    BY <1>1
  <2>3. CASE (\A j \in 1..n : ~About(j, u)') /\ t = Held(u)'
    BY <1>3, <2>1, <2>2, <2>3 DEF Known
  <2>4. CASE \E j \in 1..n : About(j, u)' /\ (\A k \in (j + 1)..n : ~About(k, u)') /\ t = inbox'[j].text
    <3>1. PICK j \in 1..n : About(j, u)' /\ (\A k \in (j + 1)..n : ~About(k, u)') /\ t = inbox'[j].text
      BY <2>4
    <3>2. \A k \in (j + 1)..(n + 1) : k \in (j + 1)..n \/ k = n + 1
      BY <1>1
    <3>3. j \in 1..(n + 1) /\ \A k \in (j + 1)..(n + 1) : ~About(k, u)'
      BY <1>1, <2>1, <3>1, <3>2
    <3> QED BY <1>3, <3>1, <3>3 DEF Known
  <2> QED BY <1>2, <1>3, <2>3, <2>4 DEF Known
<1> QED BY <1>5, <1>6

\* A message that is read does what it says of its document: then what the server
\* knows when it comes to the others stays the same.
LEMMA ReadKeepsKnown ==
  ASSUME NEW S, inbox \in Seq(S), inbox # <<>>, inbox' = Tail(inbox), NEW u,
         Held(u)' = IF About(1, u) THEN inbox[1].text ELSE Held(u),
         NEW i \in 1..Len(inbox), NEW t, Known(i + 1, u, t)
  PROVE  Known(i, u, t)'
<1> DEFINE n == Len(inbox)
<1>1. n \in Nat \ {0} /\ \A j \in 1..(n - 1) : inbox'[j] = inbox[j + 1]
  BY ReadIs
<1>2. (i + 1) - 1 = i
  OBVIOUS
<1>3. \A j \in 1..(i - 1) : j \in 1..(n - 1) /\ (About(j, u)' <=> About(j + 1, u)) /\ inbox'[j].text = inbox[j + 1].text
  BY <1>1 DEF About
<1>4. \A j \in 1..(i - 1) : j + 1 \in 1..i
  OBVIOUS
<1>5. CASE (\A j \in 1..i : ~About(j, u)) /\ t = Held(u)
  <2>1. ~About(1, u) /\ \A j \in 1..(i - 1) : ~About(j, u)'
    BY <1>3, <1>4, <1>5
  <2> QED BY <1>5, <2>1 DEF Known
<1>6. CASE \E j \in 1..i : About(j, u) /\ (\A k \in (j + 1)..i : ~About(k, u)) /\ t = inbox[j].text
  <2>1. PICK j \in 1..i : About(j, u) /\ (\A k \in (j + 1)..i : ~About(k, u)) /\ t = inbox[j].text
    BY <1>6
  <2>2. \A k \in 1..(i - 1) : k >= j => k + 1 \in (j + 1)..i
    OBVIOUS
  <2>3. \A k \in 1..(i - 1) : k >= j => ~About(k, u)'
    BY <1>3, <2>1, <2>2
  <2>4. CASE j = 1
    <3>1. \A k \in 1..(i - 1) : ~About(k, u)'
      BY <2>3, <2>4
    <3>2. t = Held(u)'
      BY <2>1, <2>4
    <3> QED BY <3>1, <3>2 DEF Known
  <2>5. CASE j > 1
    <3>1. j - 1 \in 1..(i - 1) /\ (j - 1) + 1 = j
      BY <2>5
    <3>2. About(j - 1, u)' /\ t = inbox'[j - 1].text
      BY <1>3, <2>1, <3>1
    <3>3. \A k \in ((j - 1) + 1)..(i - 1) : k \in 1..(i - 1) /\ k >= j
      BY <2>5
    <3>4. \A k \in ((j - 1) + 1)..(i - 1) : ~About(k, u)'
      BY <2>3, <3>3
    <3> QED BY <3>1, <3>2, <3>4 DEF Known
  <2> QED BY <2>4, <2>5
<1> QED BY <1>2, <1>5, <1>6 DEF Known

\* The first message finds what the server has.
LEMMA FirstKnows ==
  ASSUME NEW u, NEW t, Known(1, u, t)
  PROVE  t = Held(u)
<1>1. \A j \in 1..0 : FALSE
  OBVIOUS
<1> QED BY <1>1 DEF Known

-----------------------------------------------------------------------------
(* The client.                                                               *)

\* A message the client may send now.
Sendable(msg) ==
  /\ msg.kind \in Notes \cup {"request", "cancel", "exit"}
  /\ msg.kind \in Notes => msg.uri \in UriSet
  /\ msg.kind \in {"didOpen", "didChange"} => msg.text \in Texts
  /\ msg.kind = "didClose" => msg.text = NoText
  /\ msg.kind = "didChange" => view[msg.uri] # NoText
  /\ msg.kind = "request" => msg.q \in Asks /\ msg.id \in Ids /\ msg.sees = view
  /\ msg.kind = "cancel" => msg.id \in Ids

\* Sending it keeps what holds of the inbox, and of all the server has.
LEMMA SendKeeps ==
  ASSUME LInv, NEW msg, Sendable(msg), Send(msg),
         \A u \in UriSet : view'[u] = IF msg.kind \in Notes /\ msg.uri = u THEN msg.text ELSE view[u]
  PROVE  InboxInv' /\ DocsInv' /\ ShownInv' /\ AnswerInv'
<1> DEFINE n == Len(inbox)
<1>0. InboxInv /\ DocsInv /\ ShownInv /\ inbox' = Append(inbox, msg) /\ documents' = documents
      /\ refCacheGeneration' = refCacheGeneration /\ shown' = shown /\ answer' = NoId
  BY DEF LInv, Send
<1>1. PICK S : inbox \in Seq(S)
  BY <1>0 DEF InboxInv
<1>2. /\ \E T : inbox' \in Seq(T)
      /\ Len(inbox') = n + 1 /\ n \in Nat
      /\ inbox'[n + 1] = msg
      /\ \A i \in 1..n : inbox'[i] = inbox[i]
  BY <1>0, <1>1, SendIs
<1>3. \A i \in 1..(n + 1) : \A u, t : Known(i, u, t) => Known(i, u, t)'
  BY <1>0, <1>1, SendKeepsKnown
<1>4. n + 1 \in 1..(n + 1) /\ \A i \in 1..n : i \in 1..(n + 1)
  BY <1>2
<1>5. \A u \in UriSet : Known(n + 1, u, view[u])
  BY <1>0 DEF InboxInv
<1>6. ASSUME NEW m, m = n PROVE (\A u \in UriSet : Known(m + 2, u, view[u]))'
  <2> SUFFICES ASSUME NEW u \in UriSet PROVE Known(m + 2, u, view[u])'
    OBVIOUS
  <2>1. Known(m + 1, u, view[u])
    BY <1>5, <1>6
  <2>2. /\ msg.kind \in Notes /\ msg.uri = u => \A t : t = msg.text => Known(m + 2, u, t)'
        /\ ~(msg.kind \in Notes /\ msg.uri = u) => \A t : t = view[u] => Known(m + 2, u, t)'
    BY <1>0, <1>1, <1>6, <2>1, SendKnows, ZenonT(60)
  <2>3. \A t : t = view'[u] => Known(m + 2, u, t)'
    BY <2>2
  <2> QED BY <2>3 DEF Known
<1>7. ASSUME NEW i \in 1..n PROVE MessageInv(i)'
  <2>1. MessageInv(i)
    BY <1>0 DEF InboxInv
  <2>2. inbox'[i] = inbox[i] /\ \A u, t : Known(i, u, t) => Known(i, u, t)'
    BY <1>2, <1>3, <1>4
  <2> QED BY <2>1, <2>2 DEF MessageInv
<1>8. ASSUME NEW m, m = n PROVE MessageInv(m + 1)'
  <2>1. inbox'[m + 1] = msg /\ \A u, t : Known(m + 1, u, t) => Known(m + 1, u, t)'
    BY <1>2, <1>3, <1>4, <1>8
  <2>2. \A u \in UriSet : Known(m + 1, u, view[u])
    BY <1>5, <1>8
  <2> QED BY <2>1, <2>2 DEF MessageInv, Sendable
<1>9. InboxInv'
  <2>1. \A i \in 1..Len(inbox') : MessageInv(i)'
    <3>1. \A i \in 1..Len(inbox') : i \in 1..n \/ i = n + 1
      BY <1>2
    <3> QED BY <1>7, <1>8, <3>1
  <2>2. \A u \in UriSet : Known(Len(inbox) + 1, u, view[u])'
    <3> SUFFICES ASSUME NEW m, m = n PROVE \A u \in UriSet : Known(Len(inbox) + 1, u, view[u])'
      OBVIOUS
    <3>1. (\A u \in UriSet : Known(m + 2, u, view[u]))'
      BY <1>6
    <3>2. Len(inbox') + 1 = m + 2
      BY <1>2
    <3> QED BY <3>1, <3>2 DEF Known
  <2> QED BY <1>2, <2>1, <2>2 DEF InboxInv
<1>10. DocsInv'
  BY <1>0 DEF DocsInv, DocInv, CacheInv
<1> QED BY <1>0, <1>9, <1>10 DEF ShownInv, AnswerInv

-----------------------------------------------------------------------------
(* Cancels.                                                                  *)

\* A cancel that is sent is one more,
LEMMA CancelSent ==
  ASSUME NEW S, inbox \in Seq(S), NEW msg, inbox' = Append(inbox, msg), NEW id
  PROVE  Cardinality(Cancels(id)') = Cardinality(Cancels(id)) + (IF msg.kind = "cancel" /\ msg.id = id THEN 1 ELSE 0)
         /\ Cardinality(Cancels(id)) \in Nat
<1> DEFINE n == Len(inbox)
           A == Cancels(id)
           B == Cancels(id)'
<1>1. n \in Nat /\ Len(inbox') = n + 1 /\ inbox'[n + 1] = msg /\ \A i \in 1..n : inbox'[i] = inbox[i]
  BY SendIs
<1>2. \A i \in 1..(n + 1) : i \in 1..n \/ i = n + 1
  BY <1>1
<1>3. B = IF msg.kind = "cancel" /\ msg.id = id THEN A \cup {n + 1} ELSE A
  BY <1>1, <1>2 DEF Cancels
<1>4. n + 1 \notin A /\ A \subseteq 1..n
  BY <1>1 DEF Cancels
<1>5. IsFiniteSet(A)
  <2>1. IsFiniteSet(1..n)
    BY <1>1, FS_Interval
  <2> QED BY <1>4, <2>1, FS_Subset
<1> HIDE DEF A, B
<1>6. Cardinality(A) \in Nat /\ Cardinality(A \cup {n + 1}) = Cardinality(A) + 1
  BY <1>4, <1>5, FS_AddElement, FS_CardinalityType
<1>7. CASE msg.kind = "cancel" /\ msg.id = id
  BY <1>3, <1>6, <1>7 DEF A, B
<1>8. CASE ~(msg.kind = "cancel" /\ msg.id = id)
  BY <1>3, <1>6, <1>8 DEF A, B
<1> QED BY <1>7, <1>8

\* and one that is read is one less.
LEMMA CancelRead ==
  ASSUME NEW S, inbox \in Seq(S), inbox # <<>>, inbox' = Tail(inbox), NEW id
  PROVE  Cardinality(Cancels(id)') = Cardinality(Cancels(id)) - (IF inbox[1].kind = "cancel" /\ inbox[1].id = id THEN 1 ELSE 0)
         /\ Cardinality(Cancels(id)) \in Nat /\ Cardinality(Cancels(id)') \in Nat
<1> DEFINE n == Len(inbox)
           A == Cancels(id)
           B == Cancels(id)'
           C == A \ {1}
           f == [i \in B |-> i + 1]
<1>1. n \in Nat \ {0} /\ Len(inbox') = n - 1 /\ \A i \in 1..(n - 1) : inbox'[i] = inbox[i + 1]
  BY ReadIs
<1>2. A \subseteq 1..n /\ B \subseteq 1..(n - 1)
  BY <1>1 DEF Cancels
<1>3. \A i \in B : i + 1 \in C
  BY <1>1 DEF Cancels
<1>4. \A j \in C : j - 1 \in B /\ (j - 1) + 1 = j
  BY <1>1 DEF Cancels
<1>5. 1 \in A <=> inbox[1].kind = "cancel" /\ inbox[1].id = id
  BY <1>1 DEF Cancels
<1>6. IsFiniteSet(A) /\ IsFiniteSet(B)
  <2>1. IsFiniteSet(1..n) /\ IsFiniteSet(1..(n - 1))
    BY <1>1, FS_Interval
  <2> QED BY <1>2, <2>1, FS_Subset
<1> HIDE DEF A, B, n
<1>7. f \in Bijection(B, C)
  <2>1. f \in [B -> C]
    BY <1>3
  <2>2. \A i, j \in B : f[i] = f[j] => i = j
    BY <1>1, <1>2
  <2>3. \A j \in C : \E i \in B : f[i] = j
    BY <1>4
  <2> HIDE DEF f, C
  <2> QED BY <2>1, <2>2, <2>3, Fun_IsBij
<1>8. Cardinality(B) = Cardinality(C) /\ Cardinality(B) \in Nat /\ Cardinality(A) \in Nat
  <2>1. ExistsBijection(B, C)
    BY <1>7 DEF ExistsBijection
  <2> HIDE DEF C
  <2> QED BY <1>6, <2>1, FS_Bijection, FS_CardinalityType
<1>9. CASE 1 \in A
  <2>1. Cardinality(C) = Cardinality(A) - 1
    BY <1>6, <1>9, FS_RemoveElement
  <2>2. inbox[1].kind = "cancel" /\ inbox[1].id = id
    BY <1>5, <1>9
  <2>3. Cardinality(B) = Cardinality(A) - 1
    BY <1>8, <2>1
  <2> QED BY <1>8, <2>2, <2>3 DEF A, B
<1>10. CASE 1 \notin A
  <2>1. C = A
    BY <1>10
  <2>2. ~(inbox[1].kind = "cancel" /\ inbox[1].id = id)
    BY <1>5, <1>10
  <2>3. Cardinality(B) = Cardinality(A)
    BY <1>8, <2>1
  <2> QED BY <1>8, <2>2, <2>3 DEF A, B
<1> QED BY <1>9, <1>10

\* Sending anything but a cancel, and reading anything but a cancel.
LEMMA RefusedAsBefore ==
  ASSUME LInv, NEW msg, inbox' = Append(inbox, msg), msg.kind # "cancel",
         UNCHANGED <<refused, cancelledRequests>>
  PROVE  RefusedInv'
<1>1. PICK S : inbox \in Seq(S)
  BY DEF LInv, InboxInv
<1>2. \A id \in Ids : Cardinality(Cancels(id)') = Cardinality(Cancels(id)) /\ Cardinality(Cancels(id)) \in Nat
  BY <1>1, CancelSent
<1> QED BY <1>2 DEF LInv, RefusedInv

\* The client opens, changes or closes a document: its message, not read yet, is what the server is behind by.
LEMMA ClientNotes ==
  ASSUME LInv, NEW kind, NEW u \in UriSet, NEW text, Note(kind, u, text),
         \/ kind = "didOpen" /\ text \in Texts
         \/ kind = "didChange" /\ text \in Texts /\ HasOpen(u)
         \/ kind = "didClose" /\ text = NoText
  PROVE  LInv'
<1> DEFINE msg == [kind |-> kind, uri |-> u, text |-> text]
<1>1. msg.kind = kind /\ msg.uri = u /\ msg.text = text
  OBVIOUS
<1>2. Send(msg) /\ view' = [view EXCEPT ![u] = text] /\ refused' = refused
  BY DEF Note
<1> HIDE DEF msg
<1>3. kind \in Notes /\ kind # "cancel"
  BY DEF Notes
<1>4. Sendable(msg)
  BY <1>1, <1>3 DEF Sendable, Notes, HasOpen
<1>5. \A v \in UriSet : view'[v] = IF msg.kind \in Notes /\ msg.uri = v THEN msg.text ELSE view[v]
  BY <1>1, <1>2, <1>3 DEF LInv, ViewInv
<1>6. InboxInv' /\ DocsInv' /\ ShownInv' /\ AnswerInv'
  BY <1>2, <1>4, <1>5, SendKeeps
<1>7. RefusedInv'
  BY <1>1, <1>2, <1>3, RefusedAsBefore DEF Send
<1>8. ViewInv'
  BY <1>2 DEF LInv, ViewInv
<1> QED BY <1>6, <1>7, <1>8 DEF LInv

\* The client asks: it remembers the texts it has, which are those the server will have when it comes to the request.
LEMMA ClientAsksInv ==
  ASSUME LInv, NEW id \in Ids, NEW q \in Asks, ClientAsks(id, q)
  PROVE  LInv'
<1> DEFINE msg == [kind |-> "request", id |-> id, q |-> q, sees |-> view]
<1>1. msg.kind = "request" /\ msg.id = id /\ msg.q = q /\ msg.sees = view
  OBVIOUS
<1>2. Send(msg) /\ view' = view /\ refused' = refused
  BY DEF ClientAsks
<1> HIDE DEF msg
<1>4. Sendable(msg)
  BY <1>1 DEF Sendable, Notes
<1>5. \A v \in UriSet : view'[v] = IF msg.kind \in Notes /\ msg.uri = v THEN msg.text ELSE view[v]
  BY <1>1, <1>2 DEF Notes
<1>6. InboxInv' /\ DocsInv' /\ ShownInv' /\ AnswerInv'
  BY <1>2, <1>4, <1>5, SendKeeps
<1>7. RefusedInv'
  BY <1>1, <1>2, RefusedAsBefore DEF Send
<1>8. ViewInv'
  BY <1>2 DEF LInv, ViewInv
<1> QED BY <1>6, <1>7, <1>8 DEF LInv

\* The client ends the session.
LEMMA ClientExitsInv ==
  ASSUME LInv, ClientExits
  PROVE  LInv'
<1> DEFINE msg == [kind |-> "exit"]
<1>1. msg.kind = "exit"
  OBVIOUS
<1>2. Send(msg) /\ view' = view /\ refused' = refused
  BY DEF ClientExits
<1> HIDE DEF msg
<1>4. Sendable(msg)
  BY <1>1 DEF Sendable, Notes
<1>5. \A v \in UriSet : view'[v] = IF msg.kind \in Notes /\ msg.uri = v THEN msg.text ELSE view[v]
  BY <1>1, <1>2 DEF Notes
<1>6. InboxInv' /\ DocsInv' /\ ShownInv' /\ AnswerInv'
  BY <1>2, <1>4, <1>5, SendKeeps
<1>7. RefusedInv'
  BY <1>1, <1>2, RefusedAsBefore DEF Send
<1>8. ViewInv'
  BY <1>2 DEF LInv, ViewInv
<1> QED BY <1>6, <1>7, <1>8 DEF LInv

\* The client cancels a request, answered or not.
LEMMA ClientCancelsInv ==
  ASSUME LInv, NEW id \in Ids, ClientCancels(id)
  PROVE  LInv'
<1> DEFINE msg == [kind |-> "cancel", id |-> id]
<1>1. msg.kind = "cancel" /\ msg.id = id
  OBVIOUS
<1>2. Send(msg) /\ view' = view /\ refused' = [refused EXCEPT ![id] = @ + 1]
  BY DEF ClientCancels
<1> HIDE DEF msg
<1>4. Sendable(msg)
  BY <1>1 DEF Sendable, Notes
<1>5. \A v \in UriSet : view'[v] = IF msg.kind \in Notes /\ msg.uri = v THEN msg.text ELSE view[v]
  BY <1>1, <1>2 DEF Notes
<1>6. InboxInv' /\ DocsInv' /\ ShownInv' /\ AnswerInv'
  BY <1>2, <1>4, <1>5, SendKeeps
<1>7. RefusedInv'
  <2>1. PICK S : inbox \in Seq(S)
    BY DEF LInv, InboxInv
  <2>2. \A i \in Ids : Cardinality(Cancels(i)') = Cardinality(Cancels(i)) + (IF i = id THEN 1 ELSE 0)
                       /\ Cardinality(Cancels(i)) \in Nat
    BY <1>1, <1>2, <2>1, CancelSent DEF Send
  <2>3. cancelledRequests' = cancelledRequests
    BY <1>2 DEF Send
  <2> QED BY <1>2, <2>2, <2>3 DEF LInv, RefusedInv
<1>8. ViewInv'
  BY <1>2 DEF LInv, ViewInv
<1> QED BY <1>6, <1>7, <1>8 DEF LInv

-----------------------------------------------------------------------------
(* The server.                                                               *)

\* Reading the first message keeps what holds of the inbox, if the server then has the
\* text the message gives its document.
LEMMA ReadInbox ==
  ASSUME LInv, NEW kind, Reads(kind),
         \A u \in UriSet : Held(u)' = IF About(1, u) THEN inbox[1].text ELSE Held(u)
  PROVE  InboxInv' /\ ViewInv'
<1> DEFINE n == Len(inbox)
<1>0. InboxInv /\ inbox # <<>> /\ inbox' = Tail(inbox) /\ view' = view
  BY DEF LInv, Reads
<1>1. PICK S : inbox \in Seq(S)
  BY <1>0 DEF InboxInv
<1>2. /\ \E T : inbox' \in Seq(T)
      /\ Len(inbox') = n - 1 /\ n \in Nat \ {0}
      /\ \A i \in 1..(n - 1) : inbox'[i] = inbox[i + 1]
  BY <1>0, <1>1, ReadIs
<1>3. \A i \in 1..n : \A u \in UriSet : \A t : Known(i + 1, u, t) => Known(i, u, t)'
  BY <1>0, <1>1, ReadKeepsKnown
<1>4. ASSUME NEW i \in 1..(n - 1) PROVE MessageInv(i)'
  <2>1. i + 1 \in 1..n /\ i \in 1..n
    BY <1>2
  <2>2. MessageInv(i + 1)
    BY <1>0, <2>1 DEF InboxInv
  <2>3. inbox'[i] = inbox[i + 1] /\ \A u \in UriSet : \A t : Known(i + 1, u, t) => Known(i, u, t)'
    BY <1>2, <1>3, <2>1
  <2> QED BY <2>2, <2>3 DEF MessageInv
<1>5. \A u \in UriSet : Known(n + 1, u, view[u])
  BY <1>0 DEF InboxInv
<1>6. (\A u \in UriSet : Known(Len(inbox) + 1, u, view[u]))'
  <2> SUFFICES ASSUME NEW u \in UriSet PROVE Known(Len(inbox) + 1, u, view[u])'
    OBVIOUS
  <2>1. ASSUME NEW m, m = n PROVE Known(m, u, view[u])'
    <3>1. m \in 1..n /\ Known(m + 1, u, view[u])
      BY <1>2, <1>5, <2>1
    <3>2. \A t : t = view[u] => Known(m, u, t)'
      BY <1>3, <2>1, <3>1
    <3>3. \A t : t = view'[u] => Known(m, u, t)'
      BY <1>0, <3>2
    <3> QED BY <3>3 DEF Known
  <2>2. Len(inbox') + 1 = n
    BY <1>2
  <2> QED BY <2>1, <2>2 DEF Known
<1>7. InboxInv'
  BY <1>2, <1>4, <1>6 DEF InboxInv
<1> QED BY <1>0, <1>7 DEF LInv, ViewInv

\* The first message.
LEMMA FirstIs ==
  ASSUME LInv, NEW kind, Reads(kind)
  PROVE  /\ Head(inbox) = inbox[1] /\ inbox[1].kind = kind /\ MessageInv(1)
         /\ \A u : About(1, u) <=> kind \in Notes /\ inbox[1].uri = u
<1>1. PICK S : inbox \in Seq(S)
  BY DEF LInv, InboxInv
<1>2. inbox # <<>> /\ Head(inbox).kind = kind /\ inbox' = Tail(inbox)
  BY DEF Reads
<1>3. Head(inbox) = inbox[1] /\ Len(inbox) \in Nat \ {0}
  BY <1>1, <1>2, ReadIs
<1>4. 1 \in 1..Len(inbox)
  BY <1>3
<1> QED BY <1>2, <1>3, <1>4 DEF LInv, InboxInv, About

\* Reading anything but a cancel leaves the cancels.
LEMMA ReadRefused ==
  ASSUME LInv, NEW kind, Reads(kind), kind # "cancel", UNCHANGED <<refused, cancelledRequests>>
  PROVE  RefusedInv'
<1>1. PICK S : inbox \in Seq(S)
  BY DEF LInv, InboxInv
<1>2. \A id \in Ids : Cardinality(Cancels(id)') = Cardinality(Cancels(id)) /\ Cardinality(Cancels(id)) \in Nat
  BY <1>1, FirstIs, CancelRead DEF Reads
<1> QED BY <1>2 DEF LInv, RefusedInv

\* A message that is not about a document leaves what the server has.
LEMMA OthersLeave ==
  ASSUME LInv, NEW kind, Reads(kind), kind \notin Notes, documents' = documents
  PROVE  \A u \in UriSet : Held(u)' = IF About(1, u) THEN inbox[1].text ELSE Held(u)
BY FirstIs DEF Held

\* The server notes the cancel.
LEMMA HandleCancelInv ==
  ASSUME LInv, HandleCancel
  PROVE  LInv'
<1>1. Reads("cancel") /\ documents' = documents /\ "cancel" \notin Notes
  BY DEF HandleCancel, Notes
<1>2. InboxInv' /\ ViewInv'
  BY <1>1, OthersLeave, ReadInbox
<1>3. DocsInv' /\ ShownInv' /\ AnswerInv'
  BY DEF LInv, HandleCancel, DocsInv, DocInv, CacheInv, ShownInv, NoReply, AnswerInv
<1>4. RefusedInv'
  <2>1. PICK S : inbox \in Seq(S)
    BY DEF LInv, InboxInv
  <2>2. inbox[1].kind = "cancel" /\ Head(inbox) = inbox[1]
    BY <1>1, FirstIs
  <2>3. \A id \in Ids : Cardinality(Cancels(id)') = Cardinality(Cancels(id)) - (IF inbox[1].id = id THEN 1 ELSE 0)
                        /\ Cardinality(Cancels(id)) \in Nat /\ Cardinality(Cancels(id)') \in Nat
    BY <1>1, <2>1, <2>2, CancelRead DEF Reads
  <2>4. cancelledRequests' = cancelledRequests \cup {inbox[1].id} /\ refused' = refused
    BY <2>2 DEF HandleCancel, NoReply
  <2>5. ASSUME NEW id \in Ids
        PROVE  refused[id] \in Int
               /\ refused[id] >= Cardinality(Cancels(id)') + (IF id \in cancelledRequests' THEN 1 ELSE 0)
    <3>1. refused[id] \in Int
          /\ refused[id] >= Cardinality(Cancels(id)) + (IF id \in cancelledRequests THEN 1 ELSE 0)
      BY DEF LInv, RefusedInv
    <3>2. CASE inbox[1].id = id
      BY <2>3, <3>1, <3>2
    <3>3. CASE inbox[1].id # id
      BY <2>3, <2>4, <3>1, <3>3
    <3> QED BY <3>2, <3>3
  <2> QED BY <2>4, <2>5 DEF LInv, RefusedInv
<1> QED BY <1>2, <1>3, <1>4 DEF LInv

\* The server reads no more after this.
LEMMA HandleExitInv ==
  ASSUME LInv, HandleExit
  PROVE  LInv'
<1>1. Reads("exit") /\ documents' = documents /\ "exit" \notin Notes
  BY DEF HandleExit, Notes
<1>2. InboxInv' /\ ViewInv'
  BY <1>1, OthersLeave, ReadInbox
<1>3. DocsInv' /\ ShownInv' /\ AnswerInv'
  BY DEF LInv, HandleExit, DocsInv, DocInv, CacheInv, ShownInv, NoReply, AnswerInv
<1>4. RefusedInv'
  BY <1>1, ReadRefused DEF HandleExit, NoReply
<1> QED BY <1>2, <1>3, <1>4 DEF LInv

\* The server refuses a request whose identifier it finds among the cancelled.
LEMMA HandleCancelledInv ==
  ASSUME LInv, HandleCancelled
  PROVE  LInv'
<1>1. Reads("request") /\ documents' = documents /\ "request" \notin Notes
  BY DEF HandleCancelled, Notes
<1>2. InboxInv' /\ ViewInv'
  BY <1>1, OthersLeave, ReadInbox
<1>3. DocsInv' /\ ShownInv'
  BY DEF LInv, HandleCancelled, DocsInv, DocInv, CacheInv, ShownInv
<1>4. AnswerInv'
  <2>1. answer'.refused = TRUE
    BY DEF HandleCancelled, Answers
  <2> QED BY <2>1 DEF AnswerInv
<1>5. RefusedInv'
  <2>1. PICK S : inbox \in Seq(S)
    BY DEF LInv, InboxInv
  <2>2. Head(inbox) = inbox[1] /\ inbox[1].kind = "request" /\ inbox[1].id \in Ids
    BY <1>1, FirstIs DEF MessageInv
  <2>3. \A id \in Ids : Cardinality(Cancels(id)') = Cardinality(Cancels(id)) /\ Cardinality(Cancels(id)) \in Nat
    BY <1>1, <2>1, <2>2, CancelRead DEF Reads
  <2> DEFINE r == inbox[1].id
  <2>4. /\ r \in cancelledRequests /\ cancelledRequests' = cancelledRequests \ {r}
        /\ refused' = [refused EXCEPT ![r] = @ - 1]
    BY <2>2 DEF HandleCancelled
  <2> HIDE DEF r
  <2>5. ASSUME NEW id \in Ids
        PROVE  refused'[id] \in Int
               /\ refused'[id] >= Cardinality(Cancels(id)') + (IF id \in cancelledRequests' THEN 1 ELSE 0)
    <3>1. refused[id] \in Int
          /\ refused[id] >= Cardinality(Cancels(id)) + (IF id \in cancelledRequests THEN 1 ELSE 0)
      BY DEF LInv, RefusedInv
    <3>2. refused'[id] = IF id = r THEN refused[id] - 1 ELSE refused[id]
      BY <2>4 DEF LInv, RefusedInv
    <3>3. CASE id = r
      BY <2>3, <2>4, <3>1, <3>2, <3>3
    <3>4. CASE id # r
      BY <2>3, <2>4, <3>1, <3>2, <3>4
    <3> QED BY <3>3, <3>4
  <2>6. refused' = [id \in Ids |-> refused'[id]]
    BY <2>4 DEF LInv, RefusedInv
  <2> QED BY <2>5, <2>6 DEF RefusedInv
<1> QED BY <1>2, <1>3, <1>4, <1>5 DEF LInv

\* The documents after a request: only a cache may have been brought up to date.
LEMMA AfterRequest ==
  ASSUME LInv, NEW q, q.uri \in UriSet, documents' = DocumentsAfter(documents, refCacheGeneration, q),
         UNCHANGED <<refCacheGeneration, shown>>
  PROVE  DocsInv' /\ ShownInv' /\ \A u \in UriSet : Held(u)' = Held(u)
<1> DEFINE w == q.uri
           d == LensCache(documents, w, refCacheGeneration)
<1>0. DocsInv /\ ShownInv
  BY DEF LInv
<1>1. CASE documents' = documents
  BY SMTT(60), <1>0, <1>1 DEF DocsInv, DocInv, CacheInv, ShownInv, Held
<1>2. CASE documents[w].open /\ documents' = [documents EXCEPT ![w] = d]
  <2>1. DocInv(documents[w]) /\ CacheInv(documents[w])
    BY <1>0 DEF DocsInv
  <2>2. IsRecord(documents[w]) /\ (documents[w].refCountGeneration = refCacheGeneration => Counted(documents[w], documents))
    BY <1>2, <2>1 DEF DocInv, CacheInv, IsRecord, Counted
  <2>3. documents'[w] = d /\ \A u \in UriSet : u # w => documents'[u] = documents[u]
    BY <1>0, <1>2, ZenonT(60) DEF DocsInv
  <2> HIDE DEF d
  <2>4. /\ IsRecord(d) /\ d.open = documents[w].open /\ d.content = documents[w].content
        /\ d.tu = documents[w].tu /\ d.diag = documents[w].diag /\ d.refCountGeneration = refCacheGeneration
        /\ Counted(d, documents)
    BY <2>2, LensCacheIs DEF d
  <2>5. Alike(documents, documents')
    BY <2>3, <2>4 DEF Alike
  <2>6. \A n : countReferences(documents', n) = countReferences(documents, n)
    BY <2>5, SameCounts
  <2>7. ASSUME NEW u \in UriSet PROVE DocInv(documents'[u]) /\ CacheInv(documents[u])'
    <3>1. CASE u = w
      <4>1. DocInv(documents'[u])
        BY <1>2, <2>1, <2>3, <2>4, <3>1 DEF DocInv, IsRecord
      <4>2. CacheInv(documents[u])'
        BY <1>0, <2>3, <2>4, <2>6, <3>1 DEF CacheInv, Counted, DocsInv
      <4> QED BY <4>1, <4>2
    <3>2. CASE u # w
      <4>1. documents'[u] = documents[u] /\ DocInv(documents[u]) /\ CacheInv(documents[u])
        BY <1>0, <2>3, <3>2 DEF DocsInv
      <4>2. CacheInv(documents[u])'
        BY SMTT(60), <2>6, <4>1 DEF CacheInv
      <4> QED BY <4>1, <4>2
    <3> QED BY <3>1, <3>2
  <2>8. documents' = [u \in UriSet |-> documents'[u]]
    BY <1>0, <1>2, ZenonT(60) DEF DocsInv
  <2>9. DocsInv'
    BY <1>0, <2>7, <2>8 DEF DocsInv, DocInv
  <2>10. \A u \in UriSet : documents'[u].open = documents[u].open /\ documents'[u].content = documents[u].content
                           /\ documents'[u].diag = documents[u].diag
    BY <2>3, <2>4
  <2> QED BY <1>0, <2>9, <2>10 DEF ShownInv, Held
<1> QED BY <1>1, <1>2 DEF DocumentsAfter, IsOpen

\* The server answers as one that had been started with the client's texts.
LEMMA HandleRequestInv ==
  ASSUME LInv, HandleRequest
  PROVE  LInv'
<1> DEFINE m == inbox[1]
           q == m.q
<1>1. Reads("request") /\ "request" \notin Notes
  BY DEF HandleRequest, Notes
<1>2. Head(inbox) = m /\ m.kind = "request" /\ MessageInv(1) /\ \A u : ~About(1, u)
  BY <1>1, FirstIs
<1>3. q \in Asks /\ \A u \in UriSet : m.sees[u] = Held(u)
  BY <1>2, FirstKnows DEF MessageInv
<1>4. q.uri \in UriSet /\ q.method \in DocumentMethods \cup NameMethods \cup {"shutdown"}
  BY <1>3, AsksAssumption DEF UriSet
<1>5. RefusedInv'
  BY <1>1, ReadRefused DEF HandleRequest
<1>6. CASE q.method = "shutdown"
  <2>1. documents' = documents /\ answer'.q = q
    BY <1>2, <1>6 DEF HandleRequest, Answers
  <2>2. InboxInv' /\ ViewInv'
    BY <1>1, <2>1, OthersLeave, ReadInbox
  <2>3. DocsInv' /\ ShownInv'
    BY <2>1 DEF LInv, HandleRequest, DocsInv, DocInv, CacheInv, ShownInv
  <2>4. AnswerInv'
    BY <1>6, <2>1 DEF AnswerInv
  <2> QED BY <1>5, <2>2, <2>3, <2>4 DEF LInv
<1>7. CASE q.method # "shutdown"
  <2> DEFINE value == ResultOf(documents, refCacheGeneration, q)
  <2>1. documents' = DocumentsAfter(documents, refCacheGeneration, q) /\ UNCHANGED <<refCacheGeneration, shown>>
    BY <1>2, <1>7 DEF HandleRequest
  <2>2. answer'.value[2] = value /\ answer'.sees = m.sees /\ answer'.q = q
    <3> HIDE DEF value
    <3>1. Answers(m, FALSE, value)
      BY <1>2, <1>7 DEF HandleRequest, value
    <3> QED BY <3>1 DEF Answers
  <2>3. DocsInv' /\ ShownInv' /\ \A u \in UriSet : Held(u)' = Held(u)
    BY <1>4, <2>1, AfterRequest
  <2>4. InboxInv' /\ ViewInv'
    BY <1>1, <1>2, <2>3, ReadInbox
  <2>5. value = ResultOf(FreshDocuments(m.sees), 0, q)
    BY <1>3, <1>4, <1>7, AnswersAlike DEF LInv
  <2> HIDE DEF value, q, m
  <2>6. AnswerInv'
    BY <2>2, <2>5 DEF AnswerInv
  <2> QED BY <1>5, <2>3, <2>4, <2>6 DEF LInv
<1> QED BY <1>6, <1>7

\* What a message about document u leaves: the other documents stay, their counts get old.
LEMMA NoteRead ==
  ASSUME LInv, NEW kind \in Notes, Reads(kind), NEW u, u = inbox[1].uri, NEW d,
         documents' = [documents EXCEPT ![u] = d], DocInv(d),
         d.open => d.refCountGeneration \in Int /\ d.refCountGeneration <= refCacheGeneration,
         inbox[1].text = IF d.open THEN d.content ELSE NoText,
         shown' = [shown EXCEPT ![u] = IF d.open THEN d.diag ELSE {}],
         refCacheGeneration' = refCacheGeneration + 1, NoReply, cancelledRequests' = cancelledRequests
  PROVE  LInv'
<1>0. DocsInv /\ ShownInv /\ u \in UriSet
  BY FirstIs DEF LInv, MessageInv
<1>1. documents'[u] = d /\ \A v \in UriSet : v # u => documents'[v] = documents[v]
  BY <1>0 DEF DocsInv
<1>2. \A v \in UriSet : Held(v)' = IF About(1, v) THEN inbox[1].text ELSE Held(v)
  BY <1>1, FirstIs DEF Held
<1>3. InboxInv' /\ ViewInv'
  BY <1>2, ReadInbox
<1>4. ASSUME NEW v \in UriSet PROVE DocInv(documents'[v]) /\ CacheInv(documents[v])'
  <2>1. CASE v = u
    BY <1>0, <1>1, <2>1 DEF CacheInv, DocsInv
  <2>2. CASE v # u
    <3>1. documents'[v] = documents[v] /\ DocInv(documents[v]) /\ CacheInv(documents[v])
      BY <1>0, <1>1, <2>2 DEF DocsInv
    <3>2. CacheInv(documents[v])'
      BY <1>0, <3>1 DEF CacheInv, DocsInv
    <3> QED BY <3>1, <3>2
  <2> QED BY <2>1, <2>2
<1>5. DocsInv'
  <2>1. documents' = [v \in UriSet |-> documents'[v]]
    BY <1>0 DEF DocsInv
  <2> QED BY <1>0, <1>4, <2>1 DEF DocsInv, DocInv
<1>6. ShownInv'
  <2>1. shown' = [v \in UriSet |-> shown'[v]]
    BY <1>0 DEF ShownInv
  <2>2. ASSUME NEW v \in UriSet PROVE shown'[v] = IF documents'[v].open THEN documents'[v].diag ELSE {}
    BY ZenonT(90), <1>0, <1>1 DEF ShownInv
  <2> QED BY <2>1, <2>2 DEF ShownInv
<1>7. RefusedInv'
  BY ReadRefused DEF NoReply, Notes
<1>8. AnswerInv'
  BY DEF AnswerInv, NoReply
<1> QED BY <1>3, <1>5, <1>6, <1>7, <1>8 DEF LInv

\* The server has the new document analysed.
LEMMA HandleDidOpenInv ==
  ASSUME LInv, HandleDidOpen
  PROVE  LInv'
<1> DEFINE m == inbox[1]
           u == m.uri
           d == analyzeDocument(NewDocument(m.text))
<1>1. Reads("didOpen") /\ "didOpen" \in Notes
  BY DEF HandleDidOpen, Notes
<1>2. Head(inbox) = m /\ m.kind = "didOpen" /\ m.text \in Texts
  BY <1>1, FirstIs DEF MessageInv
<1>3. /\ documents' = [documents EXCEPT ![u] = d] /\ shown' = [shown EXCEPT ![u] = d.diag]
      /\ refCacheGeneration' = refCacheGeneration + 1 /\ NoReply /\ cancelledRequests' = cancelledRequests
  BY <1>2 DEF HandleDidOpen
<1> HIDE DEF d
<1>4. /\ IsRecord(d) /\ d.open = TRUE /\ d.content = m.text
      /\ d.tu = parseTranslationUnit(m.text) /\ d.diag = Diagnostics(m.text, parseTranslationUnit(m.text))
      /\ d.refCountGeneration = -1
  BY FreshIs DEF d
<1>5. DocInv(d)
  BY <1>2, <1>4 DEF DocInv, IsRecord
<1>6. d.refCountGeneration \in Int /\ d.refCountGeneration <= refCacheGeneration
  BY <1>4 DEF LInv, DocsInv
<1>7. shown' = [shown EXCEPT ![u] = IF d.open THEN d.diag ELSE {}] /\ inbox[1].text = IF d.open THEN d.content ELSE NoText
  BY <1>3, <1>4
<1> HIDE DEF u, m
<1> QED BY <1>1, <1>3, <1>5, <1>6, <1>7, NoteRead DEF u, m

\* The server drops the document.
LEMMA HandleDidCloseInv ==
  ASSUME LInv, HandleDidClose
  PROVE  LInv'
<1> DEFINE m == inbox[1]
           u == m.uri
           d == Closed
<1>1. Reads("didClose") /\ "didClose" \in Notes
  BY DEF HandleDidClose, Notes
<1>2. Head(inbox) = m /\ m.kind = "didClose" /\ m.text = NoText
  BY <1>1, FirstIs DEF MessageInv
<1>3. /\ documents' = [documents EXCEPT ![u] = d] /\ shown' = [shown EXCEPT ![u] = {}]
      /\ refCacheGeneration' = refCacheGeneration + 1 /\ NoReply /\ cancelledRequests' = cancelledRequests
  BY <1>2 DEF HandleDidClose
<1>4. d.open = FALSE
  BY DEF Closed
<1> HIDE DEF d
<1>5. DocInv(d)
  BY <1>4 DEF DocInv
<1>7. shown' = [shown EXCEPT ![u] = IF d.open THEN d.diag ELSE {}] /\ inbox[1].text = IF d.open THEN d.content ELSE NoText
  BY <1>2, <1>3, <1>4
<1> HIDE DEF u, m
<1> QED BY <1>1, <1>3, <1>4, <1>5, <1>7, NoteRead DEF u, m

\* A change finds its document open: the client had opened it, and not closed it since.
LEMMA HandleDidChangeInv ==
  ASSUME LInv, HandleDidChange
  PROVE  LInv'
<1> DEFINE m == inbox[1]
           u == m.uri
           d == analyzeDocument([documents[u] EXCEPT !.content = m.text])
<1>1. Reads("didChange") /\ "didChange" \in Notes
  BY DEF HandleDidChange, Notes
<1>2. Head(inbox) = m /\ m.kind = "didChange" /\ m.text \in Texts /\ u \in UriSet /\ Held(u) # NoText
  <2>1. Head(inbox) = m /\ m.kind = "didChange" /\ MessageInv(1)
    BY <1>1, FirstIs
  <2>2. m.text \in Texts /\ u \in UriSet
    BY <2>1 DEF MessageInv, Notes
  <2>3. PICK t : Known(1, u, t) /\ t # NoText
    BY <2>1 DEF MessageInv
  <2>4. t = Held(u)
    BY <2>3, FirstKnows
  <2> QED BY <2>1, <2>2, <2>3, <2>4
<1>3. documents[u].open
  BY <1>2 DEF Held
<1>4. DocInv(documents[u]) /\ CacheInv(documents[u])
  BY <1>2 DEF LInv, DocsInv
<1>5. /\ documents' = [documents EXCEPT ![u] = d] /\ shown' = [shown EXCEPT ![u] = d.diag]
      /\ refCacheGeneration' = refCacheGeneration + 1 /\ NoReply /\ cancelledRequests' = cancelledRequests
  BY <1>2, <1>3 DEF HandleDidChange, IsOpen
<1> HIDE DEF d
<1>6. /\ IsRecord(d) /\ d.open = documents[u].open /\ d.content = m.text
      /\ d.tu = parseTranslationUnit(m.text) /\ d.diag = Diagnostics(m.text, parseTranslationUnit(m.text))
      /\ d.refCountGeneration = documents[u].refCountGeneration
  <2>1. IsRecord(documents[u])
    BY <1>3, <1>4 DEF DocInv, IsRecord
  <2> QED BY <2>1, AnalyzedIs DEF d
<1>7. DocInv(d)
  BY <1>2, <1>4, <1>6 DEF DocInv, IsRecord
<1>8. d.refCountGeneration \in Int /\ d.refCountGeneration <= refCacheGeneration
  BY <1>3, <1>4, <1>6 DEF CacheInv
<1>9. shown' = [shown EXCEPT ![u] = IF d.open THEN d.diag ELSE {}] /\ inbox[1].text = IF d.open THEN d.content ELSE NoText
  BY <1>3, <1>5, <1>6
<1> HIDE DEF u, m
<1> QED BY <1>1, <1>5, <1>7, <1>8, <1>9, NoteRead DEF u, m

-----------------------------------------------------------------------------
(* The theorems.                                                             *)

\* The invariant holds at the start,
LEMMA LInitInv == LInit => LInv
<1> SUFFICES ASSUME LInit PROVE LInv
  OBVIOUS
<1>1. \A u \in UriSet : documents[u] = Closed /\ documents[u].open = FALSE
  BY DEF LInit, Closed
<1>2. DocsInv
  BY <1>1 DEF DocsInv, DocInv, CacheInv, LInit
<1>3. ShownInv /\ AnswerInv /\ ViewInv
  BY <1>1 DEF ShownInv, AnswerInv, ViewInv, LInit
<1>4. inbox \in Seq({}) /\ Len(inbox) = 0
  BY DEF LInit
<1>5. \A i \in 1..0 : FALSE
  OBVIOUS
<1>6. InboxInv
  <2>1. \A u \in UriSet : view[u] = Held(u)
    BY <1>1 DEF Held, LInit
  <2>2. \A u \in UriSet : Known(1, u, view[u])
    BY <1>5, <2>1 DEF Known
  <2> QED BY <1>4, <1>5, <2>2 DEF InboxInv
<1>7. RefusedInv
  <2>1. \A id : Cancels(id) = {}
    BY <1>4, <1>5 DEF Cancels
  <2>2. \A id : Cardinality(Cancels(id)) = 0
    BY <2>1, FS_EmptySet
  <2> QED BY <2>2 DEF RefusedInv, LInit
<1> QED BY <1>2, <1>3, <1>6, <1>7 DEF LInv

\* and every step keeps it.
LEMMA LStepInv == LInv /\ [LNext]_lvars => LInv'
<1> SUFFICES ASSUME LInv, [LNext]_lvars PROVE LInv'
  OBVIOUS
<1>1. ASSUME NEW u \in UriSet, NEW text \in Texts, ClientOpens(u, text) \/ ClientChanges(u, text) PROVE LInv'
  BY <1>1, ClientNotes DEF ClientOpens, ClientChanges
<1>2. ASSUME NEW u \in UriSet, ClientCloses(u) PROVE LInv'
  BY <1>2, ClientNotes DEF ClientCloses
<1>3. CASE \E id \in Ids, q \in Asks : ClientAsks(id, q)
  BY <1>3, ClientAsksInv
<1>4. CASE (\E id \in Ids : ClientCancels(id)) \/ ClientExits
  BY <1>4, ClientCancelsInv, ClientExitsInv
<1>5. CASE HandleRequest \/ HandleCancelled \/ HandleCancel \/ HandleExit
  BY <1>5, HandleRequestInv, HandleCancelledInv, HandleCancelInv, HandleExitInv
<1>6. CASE HandleDidOpen \/ HandleDidChange \/ HandleDidClose
  BY <1>6, HandleDidOpenInv, HandleDidChangeInv, HandleDidCloseInv
<1>7. CASE UNCHANGED lvars
  <2>1. InboxInv' /\ ViewInv'
    BY <1>7 DEF lvars, LInv, InboxInv, MessageInv, Known, About, Held, ViewInv
  <2>2. DocsInv' /\ ShownInv' /\ RefusedInv' /\ AnswerInv'
    BY <1>7 DEF lvars, LInv, DocsInv, DocInv, CacheInv, ShownInv, RefusedInv, Cancels, AnswerInv
  <2> QED BY <2>1, <2>2 DEF LInv
<1> QED BY <1>1, <1>2, <1>3, <1>4, <1>5, <1>6, <1>7 DEF LNext, dispatch

\* The invariant holds always.
LEMMA LInvariant == LSpec => []LInv
BY LInitInv, LStepInv, PTL DEF LSpec

\* An answer that is no refusal is the one a server started afresh with the texts the
\* client had when it asked would give, and a cancel refuses at most one request,
\* whatever the texts.
THEOREM AnswersAreFresh ==
  LSpec => []((\A id \in Ids : refused[id] >= 0) /\ AnswerInv)
<1>1. LInv => (\A id \in Ids : refused[id] >= 0) /\ AnswerInv
  <2> SUFFICES ASSUME LInv PROVE \A id \in Ids : refused[id] >= 0
    BY DEF LInv
  <2>1. PICK S : inbox \in Seq(S)
    BY DEF LInv, InboxInv
  <2>2. \A id \in Ids : Cardinality(Cancels(id)) \in Nat
    <3> SUFFICES ASSUME NEW id \in Ids PROVE Cardinality(Cancels(id)) \in Nat
      OBVIOUS
    <3>1. IsFiniteSet(1..Len(inbox)) /\ Cancels(id) \subseteq 1..Len(inbox)
      BY <2>1, FS_Interval DEF Cancels
    <3> QED BY <3>1, FS_Subset, FS_CardinalityType
  <2> QED BY <2>2 DEF LInv, RefusedInv
<1> QED BY <1>1, LInvariant, PTL

\* If no text declares a name twice, the two directions of the call hierarchy agree too.
THEOREM AnswersAreSound ==
  ASSUME DistinctNames
  PROVE  LSpec => []AnswersSound
<1>1. LInv => Mirror
  BY HierarchiesMirror DEF LInv
<1>2. (\A id \in Ids : refused[id] >= 0) /\ AnswerInv /\ Mirror => AnswersSound
  BY DEF AnswerInv, Mirror, AnswersSound
<1> QED BY <1>1, <1>2, AnswersAreFresh, LInvariant, PTL

\* Once the messages about a document are read, the diagnostics shown for it are those
\* of its text.
THEOREM DiagnosticsAreShown == LSpec => []DiagnosticsShown
<1>1. LInv => DiagnosticsShown
  <2> SUFFICES ASSUME LInv, NEW u \in UriSet,
                      \A i \in DOMAIN inbox : inbox[i].kind \in {"didOpen", "didChange", "didClose"} => inbox[i].uri # u
               PROVE  shown[u] = IF HasOpen(u) THEN Diagnostics(view[u], parseTranslationUnit(view[u])) ELSE {}
    BY DEF DiagnosticsShown
  <2>1. PICK S : inbox \in Seq(S)
    BY DEF LInv, InboxInv
  <2>2. \A j \in 1..Len(inbox) : ~About(j, u)
    BY <2>1 DEF About, Notes
  <2>3. (Len(inbox) + 1) - 1 = Len(inbox)
    BY <2>1
  <2>4. view[u] = Held(u)
    BY <2>2, <2>3 DEF LInv, InboxInv, Known
  <2>5. DocInv(documents[u]) /\ shown[u] = IF documents[u].open THEN documents[u].diag ELSE {}
    BY DEF LInv, DocsInv, ShownInv
  <2> QED BY <2>4, <2>5, TextsAssumption DEF Held, DocInv, HasOpen
<1> QED BY <1>1, LInvariant, PTL

=============================================================================
