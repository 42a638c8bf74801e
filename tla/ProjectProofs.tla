--------------------------- MODULE ProjectProofs ----------------------------
(***************************************************************************)
(* Proofs about what livac does with the files of a project: its builds      *)
(* (IncrementalBuild), then its packages (PackageManager).                   *)
(***************************************************************************)
EXTENDS IncrementalBuild, PackageManager, FiniteSetTheorems, FunctionTheorems,
        WellFoundedInduction, TLAPS

-----------------------------------------------------------------------------
(***************************************************************************)
(* Proofs about IncrementalBuild, for any finite set of files, any texts,    *)
(* configurations and workers, and any number of builds and edits.           *)
(*                                                                         *)
(* The invariants come in layers, each on top of the one before:             *)
(*   CrashInv   of every build, edited, failing or killed: the workers       *)
(*              exclude each other, and what is to be linked is cached;      *)
(*   BuildInv   when no build is killed: the two manifests agree;            *)
(*   SoundInv   when besides no file is edited in a build: what is loaded,   *)
(*              compiled, cached and recorded is the text of now;            *)
(*   FreshInv   of the executables: which files are in one, and that an      *)
(*              object that is not newer than one is the object in it;       *)
(*   UsesInv    when besides no edit changes an interface.                   *)
(***************************************************************************)

\* w has read the text of its file.
Loaded(w) == work[w].pc \in {"compile", "lock", "copy", "record"}

\* What a worker holds at each place.
WorkerShape(s) ==
  \/ s.pc \in {"out", "loop", "claim"} /\ s = [pc |-> s.pc]
  \/ s.pc = "load" /\ s = [pc |-> s.pc, file |-> s.file]
  \/ s.pc \in {"compile", "lock", "copy"} /\ s = [pc |-> s.pc, file |-> s.file, text |-> s.text]
  \/ s.pc = "record" /\ s = [pc |-> s.pc, file |-> s.file, text |-> s.text, seen |-> s.seen]

\* The variables of the driver.  A hash is a text, a cache a map from files.
BuildTypeOK ==
  /\ source \in [File -> FileText] /\ mtime \in [File -> Nat] /\ clock \in Nat
  /\ stage \in {"idle", "check", "cached", "compile", "link"} /\ (stage # "idle" => cfg \in Config)
  /\ manifest = [cfg |-> manifest.cfg, entry |-> manifest.entry]
  /\ deps \subseteq File /\ todo \subseteq deps
  /\ DOMAIN manifest.entry \subseteq File /\ DOMAIN objPath \subseteq deps
  /\ DOMAIN objTime = DOMAIN object
  /\ work = [w \in Worker |-> work[w]] /\ \A w \in Worker : WorkerShape(work[w])
  /\ holder \in Worker \cup {NoWorker} /\ failed \in BOOLEAN

\* What executeBuild has and has not set when.
LocalsInv ==
  /\ stage # "compile" => work = AllOut /\ holder = NoWorker /\ todo = {} /\ ~failed
  /\ stage \in {"idle", "check"} => objPath = NoMap
  /\ stage = "idle" => deps = {}
  /\ \A w \in Worker : work[w].pc = "out" => failed \/ todo = {}

\* The files not yet compiled, being compiled and compiled are apart.
ApartInv ==
  /\ \A w \in Worker : Claimed(w) => work[w].file \in deps
  /\ todo \cap DOMAIN objPath = {}
  /\ WorkersExclude

\* The file being recorded has its object, and no one touched the manifest since.
RecordInv ==
  \A w \in Worker : work[w].pc = "record" => work[w].seen = manifest /\ work[w].file \in DOMAIN object

Base == BuildTypeOK /\ LocalsInv /\ ApartInv /\ RecordInv

\* An entry of the manifest has its object, and what is to be linked is in both caches.
ManifestInv ==
  /\ DOMAIN manifest.entry \subseteq DOMAIN object
  /\ \A f \in DOMAIN objPath : f \in DOMAIN manifest.entry \cap DOMAIN entries /\ manifest.cfg = cfg
  /\ stage \in {"cached", "link"} => entries = sema

\* Every file of the build is compiled, being compiled or waiting, unless it failed.
CoverInv ==
  /\ stage # "idle" /\ ~dirty => deps = Scan(source)
  /\ stage \in {"cached", "link"} => deps = DOMAIN objPath
  /\ stage = "compile" /\ ~failed =>
       deps \subseteq DOMAIN objPath \cup todo \cup {work[w].file : w \in {v \in Worker : Claimed(v)}}

CrashInv == Base /\ ManifestInv /\ CoverInv /\ WarmCache

-----------------------------------------------------------------------------
\* The entries of SemaCache, in memory or on disk.
Entries == IF stage = "compile" THEN entries ELSE sema

\* No import of an entry names a file, so its snapshot is empty.
NoImport(e) == e.imports \cap File = {} /\ DOMAIN e.snapshot = {}

\* The two manifests agree on the hashes.
EntriesInv ==
  /\ DOMAIN entries \subseteq File /\ \A f \in DOMAIN entries : NoImport(entries[f])
  /\ DOMAIN sema \subseteq File /\ \A f \in DOMAIN sema : NoImport(sema[f])
  /\ \A f \in DOMAIN manifest.entry :
       f \in DOMAIN Entries /\ Entries[f].hash = manifest.entry[f].hash
  /\ \A w \in Worker : Loaded(w) => work[w].text \in FileText

-----------------------------------------------------------------------------
\* An object of the text that f has, in configuration c.
Good(o, f, c) == o.text = source[f] /\ o.cfg = c

\* What is read is what is compiled.
LoadedInv ==
  /\ stage # "idle" => ~dirty
  /\ stage \notin {"idle", "check"} => DOMAIN hash = deps /\ \A f \in deps : hash[f] = source[f]
  /\ \A w \in Worker : Loaded(w) => work[w].text = source[work[w].file]
  /\ \A w \in Worker : work[w].pc \in {"lock", "copy", "record"} =>
       work[w].file \in DOMAIN built /\ Good(built[work[w].file], work[w].file, cfg)
  /\ \A w \in Worker : work[w].pc = "record" => object[work[w].file] = built[work[w].file]

\* What is compiled is what the manifest says, and what is to be linked.
TextsInv ==
  /\ \A f \in DOMAIN manifest.entry :
       /\ manifest.entry[f].mtime \in Nat /\ manifest.entry[f].mtime <= clock
       /\ manifest.entry[f].mtime = mtime[f] => manifest.entry[f].hash = source[f]
       /\ \/ object[f].text = manifest.entry[f].hash /\ object[f].cfg = manifest.cfg
          \/ \E w \in Worker : work[w].pc = "record" /\ work[w].file = f
  /\ \A f \in DOMAIN objPath : Good(object[f], f, cfg)
  /\ \A f \in DOMAIN objPath : objPath[f] # "cache" => f \in DOMAIN built /\ object[f] = built[f]
  /\ \A f \in File : mtime[f] <= clock

-----------------------------------------------------------------------------
\* An object of the cache, of the build directory or in an executable.
IsObject(o) ==
  \/ \E f \in DOMAIN object : o = object[f]
  \/ \E f \in DOMAIN built : o = built[f]
  \/ \E c \in DOMAIN exe : \E f \in DOMAIN exe[c] : o = exe[c][f]

\* All of them are of accepted texts,
ObjectsInv == \A o : IsObject(o) => o.text \in FileText /\ o.text.ok

\* and, while no interface changes, compiled against the interfaces of now.
UsesInv == \A o : IsObject(o) => o = Compiled(o.text, source, o.cfg)

\* The files that Entry reaches through the imports of the objects in m.
Image(m) ==
  /\ Entry \in DOMAIN m /\ DOMAIN m \subseteq File
  /\ \A f \in DOMAIN m : m[f].text.imports \subseteq DOMAIN m
  /\ \A S \in SUBSET File :
       Entry \in S /\ (\A f \in S \cap DOMAIN m : m[f].text.imports \subseteq S) => DOMAIN m \subseteq S

\* An executable is such an image, and an object that is not newer is in it.
ExeInv ==
  \A c \in DOMAIN exe :
    /\ c \in DOMAIN exeTime /\ exeTime[c] \in Nat /\ exeTime[c] <= clock
    /\ stage # "idle" => exeTime[c] < clock
    /\ \A f \in DOMAIN exe[c] \cap DOMAIN object : objTime[f] <= exeTime[c] => object[f] = exe[c][f]
    /\ Image(exe[c])
-----------------------------------------------------------------------------
(* Steps.                                                                    *)

\* A step of one worker moves that worker alone.
LEMMA StepMoves ==
  ASSUME BuildTypeOK, NEW w \in Worker, NEW from, NEW to, Step(w, from, to)
  PROVE  /\ stage = "compile" /\ work[w].pc = from /\ work'[w] = to
         /\ work' = [v \in Worker |-> work'[v]]
         /\ \A v \in Worker : v # w => work'[v] = work[v]
BY DEF BuildTypeOK, Step

\* The steps that rename the place a worker is at keep what it holds.
LEMMA PlaceMoves ==
  ASSUME BuildTypeOK, NEW w \in Worker, NEW p, work[w].pc \in {"compile", "lock"}
  PROVE  [work[w] EXCEPT !.pc = p] = [pc |-> p, file |-> work[w].file, text |-> work[w].text]
<1>1. work[w] = [pc |-> work[w].pc, file |-> work[w].file, text |-> work[w].text]
  BY DEF BuildTypeOK, WorkerShape
<1> DEFINE q == work[w].pc
           g == work[w].file
           t == work[w].text
<1>2. work[w] = [pc |-> q, file |-> g, text |-> t]
  BY <1>1
<1> HIDE DEF q, g, t
<1>3. [[pc |-> q, file |-> g, text |-> t] EXCEPT !.pc = p] = [pc |-> p, file |-> g, text |-> t]
  OBVIOUS
<1> QED BY <1>2, <1>3 DEF g, t

\* The steps of a worker, told one by one.
LEMMA WorkMoves ==
  ASSUME BuildTypeOK, NEW w \in Worker, Work(w)
  PROVE  /\ stage = "compile"
         /\ work' = [v \in Worker |-> work'[v]]
         /\ \A v \in Worker : v # w => work'[v] = work[v]
         /\ UNCHANGED <<sources, sema, exes, stage, plan, result, dirty, bounds>>
         /\ WorkerShape(work'[w])
         /\ Loop(w) => work[w].pc = "loop" /\ work'[w].pc = (IF failed THEN "out" ELSE "claim")
         /\ Claim(w) => /\ work[w].pc = "claim"
                        /\ \/ work'[w].pc = "out" /\ todo = {} /\ todo' = todo
                           \/ /\ work'[w].pc = "load" /\ work'[w].file \in todo
                              /\ todo' = todo \ {work'[w].file}
         /\ Load(w) => /\ work[w].pc = "load" /\ work'[w].pc = "compile"
                       /\ work'[w].file = work[w].file /\ work'[w].text = source[work[w].file]
         /\ Compile(w) => /\ work[w].pc = "compile" /\ work'[w].pc \in {"out", "lock"}
                          /\ work'[w].pc = "lock" =>
                               work'[w].file = work[w].file /\ work'[w].text = work[w].text
         /\ Lock(w) => /\ work[w].pc = "lock" /\ work'[w].pc = "copy"
                       /\ work'[w].file = work[w].file /\ work'[w].text = work[w].text
         /\ Copy(w) => /\ work[w].pc = "copy" /\ work'[w].pc = "record"
                       /\ work'[w].file = work[w].file /\ work'[w].text = work[w].text
                       /\ work'[w].seen = manifest
         /\ Record(w) => work[w].pc = "record" /\ work'[w].pc = "loop"
<1>1. UNCHANGED <<sources, sema, exes, stage, plan, result, dirty, bounds>>
  BY DEF Work, Loop, Claim, Load, Compile, Lock, Copy, Record
<1>2. CASE Loop(w)
  <2>1. Step(w, "loop", IF failed THEN Out ELSE [pc |-> "claim"])
    BY <1>2 DEF Loop
  <2>2. /\ work[w].pc = "loop" /\ WorkerShape(work'[w])
        /\ work'[w].pc = (IF failed THEN "out" ELSE "claim")
    BY <2>1, StepMoves DEF WorkerShape, Out
  <2> QED BY <1>1, <2>1, <2>2, StepMoves DEF Claim, Load, Compile, Lock, Copy, Record, Step
<1>3. CASE Claim(w)
  <2>1. \E s : Step(w, "claim", s)
    BY <1>3 DEF Claim
  <2>2. /\ work[w].pc = "claim" /\ WorkerShape(work'[w])
        /\ \/ work'[w].pc = "out" /\ todo = {} /\ todo' = todo
           \/ work'[w].pc = "load" /\ work'[w].file \in todo /\ todo' = todo \ {work'[w].file}
    <3>1. CASE todo = {} /\ Step(w, "claim", Out) /\ UNCHANGED todo
      BY <3>1, StepMoves DEF WorkerShape, Out
    <3>2. CASE \E f \in todo :
                 Step(w, "claim", [pc |-> "load", file |-> f]) /\ todo' = todo \ {f}
      <4>1. PICK f \in todo : Step(w, "claim", [pc |-> "load", file |-> f]) /\ todo' = todo \ {f}
        BY <3>2
      <4> QED BY <4>1, StepMoves DEF WorkerShape
    <3> QED BY <1>3, <3>1, <3>2 DEF Claim
  <2> QED BY ZenonT(90), <1>1, <2>1, <2>2, StepMoves DEF Loop, Load, Compile, Lock, Copy, Record, Step
<1>4. CASE Load(w)
  <2>1. Step(w, "load", [pc |-> "compile", file |-> work[w].file, text |-> source[work[w].file]])
    BY <1>4 DEF Load
  <2>2. work[w].pc = "load" /\ WorkerShape(work'[w])
    BY <2>1, StepMoves DEF WorkerShape
  <2> QED BY <1>1, <2>1, <2>2, StepMoves, ZenonT(60) DEF Loop, Claim, Compile, Lock, Copy, Record, Step
<1>5. CASE Compile(w)
  <2>1. \/ Step(w, "compile", Out)
        \/ Step(w, "compile", [pc |-> "lock", file |-> work[w].file, text |-> work[w].text])
    <3>1. \/ Step(w, "compile", Out)
          \/ Step(w, "compile", [work[w] EXCEPT !.pc = "lock"])
      BY <1>5 DEF Compile
    <3>2. work[w].pc = "compile"
      BY <3>1 DEF Step
    <3> QED BY <3>1, <3>2, PlaceMoves
  <2>2. /\ work[w].pc = "compile" /\ WorkerShape(work'[w]) /\ work'[w].pc \in {"out", "lock"}
        /\ work'[w].pc = "lock" => work'[w].file = work[w].file /\ work'[w].text = work[w].text
    BY <2>1, StepMoves DEF WorkerShape, Out
  <2> QED BY <1>1, <2>1, <2>2, StepMoves DEF Loop, Claim, Load, Lock, Copy, Record, Step
<1>6. CASE Lock(w)
  <2>1. Step(w, "lock", [pc |-> "copy", file |-> work[w].file, text |-> work[w].text])
    <3>1. Step(w, "lock", [work[w] EXCEPT !.pc = "copy"])
      BY <1>6 DEF Lock
    <3>2. work[w].pc = "lock"
      BY <3>1 DEF Step
    <3> QED BY <3>1, <3>2, PlaceMoves
  <2>2. work[w].pc = "lock" /\ WorkerShape(work'[w])
    BY <2>1, StepMoves DEF WorkerShape
  <2> QED BY ZenonT(90), <1>1, <2>1, <2>2, StepMoves DEF Loop, Claim, Load, Compile, Copy, Record, Step
<1>7. CASE Copy(w)
  <2>1. Step(w, "copy", [pc |-> "record", file |-> work[w].file, text |-> work[w].text, seen |-> manifest])
    BY <1>7 DEF Copy
  <2>2. work[w].pc = "copy" /\ WorkerShape(work'[w])
    BY <2>1, StepMoves DEF WorkerShape
  <2> QED BY <1>1, <2>1, <2>2, StepMoves, ZenonT(60) DEF Loop, Claim, Load, Compile, Lock, Record, Step
<1>8. CASE Record(w)
  <2>1. Step(w, "record", [pc |-> "loop"])
    BY <1>8 DEF Record
  <2>2. work[w].pc = "record" /\ WorkerShape(work'[w])
    BY <2>1, StepMoves DEF WorkerShape
  <2> QED BY <1>1, <2>1, <2>2, StepMoves DEF Loop, Claim, Load, Compile, Lock, Copy, Step
<1> QED BY <1>2, <1>3, <1>4, <1>5, <1>6, <1>7, <1>8 DEF Work

\* The steps that leave executeBuild.
EndBuild == ReturnUpToDate \/ LinkCached \/ Link \/ LinkFails \/ (Join /\ failed)
Leave == EndBuild \/ Crash

\* executeBuild ends, and its locals are gone.
LEMMA LeaveMoves ==
  ASSUME Leave
  PROVE  /\ stage' = "idle" /\ stage # "idle" /\ work' = AllOut /\ holder' = NoWorker /\ failed' = FALSE
         /\ deps' = {} /\ todo' = {} /\ objPath' = NoMap /\ built' = NoMap /\ entries' = NoMap
         /\ UNCHANGED <<sources, buildCache, cfg, dirty, bounds>>
BY DEF Leave, EndBuild, ReturnUpToDate, LinkCached, Link, LinkFails, Crash, Join, Return

\* The steps of executeBuild, and of whoever is around it.
Stay == UNCHANGED vars \/ LinkCachedFails \/ (Join /\ ~failed)

\* The steps that move the driver alone.
LEMMA StayMoves ==
  ASSUME Stay
  PROVE  /\ UNCHANGED <<sources, buildCache, exes, plan, pool, entries, result, dirty, bounds>>
         /\ \/ stage' = stage /\ sema' = sema
            \/ stage = "cached" /\ stage' = "compile" /\ sema' = sema
            \/ /\ stage = "compile" /\ stage' = "link" /\ sema' = entries /\ ~failed
               /\ \A w \in Worker : work[w].pc = "out"
BY DEF Stay, LinkCachedFails, Join, vars, sources, buildCache, exes, plan, pool, bounds

\* Each step is of one of six kinds.
LEMMA StepKinds ==
  ASSUME [NextOrCrash]_vars
  PROVE  \/ Stay \/ Leave \/ Check
         \/ \E f \in File : \E x \in FileTexts[f] : Edit(f, x)
         \/ \E c \in Config, rebuild \in BOOLEAN : StartBuild(c, rebuild)
         \/ \E w \in Worker : Work(w)
BY DEF NextOrCrash, Next, Driver, Stay, Leave, EndBuild

-----------------------------------------------------------------------------
(* What is reached.                                                          *)

\* Only files are reached.
LEMMA ReachInFile == \A src : Scan(src) \subseteq File
BY DEF Scan, Reach

\* Entry is reached, and what a file that is reached imports.
LEMMA ScanClosed ==
  ASSUME source \in [File -> FileText]
  PROVE  Entry \in Scan(source) /\ \A g \in Scan(source) : source[g].imports \subseteq Scan(source)
<1>1. Entry \in Scan(source)
  BY SourceAssumption DEF Scan, Reach
<1>2. ASSUME NEW g \in Scan(source), NEW h \in source[g].imports PROVE h \in Scan(source)
  <2>1. g \in File /\ source[g] \in FileText /\ h \in File
    BY <1>2, SourceAssumption, ReachInFile
  <2>2. ASSUME NEW S \in SUBSET File, Entry \in S /\ \A k \in S : source[k].imports \subseteq S
        PROVE  h \in S
    <3>1. g \in S
      BY <1>2, <2>2 DEF Scan, Reach
    <3> QED BY <1>2, <2>2, <3>1
  <2> QED BY <2>1, <2>2 DEF Scan, Reach
<1> QED BY <1>1, <1>2

-----------------------------------------------------------------------------
(* The variables of the driver.                                              *)

\* The empty map has no keys.
LEMMA EmptyMap == DOMAIN NoMap = {} /\ NoMap = [x \in {} |-> x]
BY DEF NoMap

\* When no worker runs each is out.
LEMMA AllOutShape ==
  AllOut = [w \in Worker |-> AllOut[w]] /\ \A w \in Worker : AllOut[w].pc = "out" /\ WorkerShape(AllOut[w])
BY DEF AllOut, Out, WorkerShape

\* The base holds at first.
LEMMA BuildInit == Init => Base
<1> SUFFICES ASSUME Init PROVE Base
  OBVIOUS
<1>1. BuildTypeOK
  BY EmptyMap, AllOutShape DEF Init, BuildTypeOK
<1>2. LocalsInv
  BY DEF Init, LocalsInv
<1>3. ApartInv
  BY AllOutShape, WorkerAssumption, EmptyMap DEF Init, ApartInv, WorkersExclude, Claimed, Holding
<1>4. RecordInv
  BY AllOutShape DEF Init, RecordInv
<1> QED BY <1>1, <1>2, <1>3, <1>4 DEF Base

\* A step of a worker keeps the variables in their ranges.
LEMMA WorkKeepsType == 
  ASSUME Base, NEW w \in Worker, Work(w) 
  PROVE  BuildTypeOK'
<1> USE DEF Base
<1>1. /\ stage = "compile" /\ work' = [v \in Worker |-> work'[v]]
      /\ \A v \in Worker : WorkerShape(work'[v])
      /\ UNCHANGED <<sources, sema, exes, stage, plan, result, dirty, bounds>>
  BY WorkMoves DEF BuildTypeOK
<1>2. todo' \subseteq todo /\ holder' \in Worker \cup {NoWorker} /\ failed' \in BOOLEAN
  BY ZenonT(60) DEF BuildTypeOK, Work, Loop, Claim, Load, Compile, Lock, Copy, Record
<1>3. /\ manifest' = [cfg |-> manifest'.cfg, entry |-> manifest'.entry]
      /\ DOMAIN manifest'.entry \subseteq File /\ DOMAIN objPath' \subseteq deps
  <2>1. CASE Record(w)
    <3> DEFINE f == work[w].file
               kept == IF work[w].seen.cfg = cfg THEN work[w].seen.entry ELSE NoMap
               e == Put(kept, f, [hash |-> hash[f], mtime |-> mtime[f]])
    <3>1. manifest' = [cfg |-> cfg, entry |-> e] /\ objPath' = Put(objPath, f, "build")
      BY <2>1 DEF Record
    <3>2. f \in deps
      BY <2>1, WorkMoves DEF ApartInv, Claimed
    <3>3. DOMAIN kept \subseteq File
      BY <2>1, WorkMoves, EmptyMap DEF RecordInv, BuildTypeOK
    <3> HIDE DEF kept
    <3>4. DOMAIN e \subseteq File
      BY <3>2, <3>3 DEF BuildTypeOK, Put
    <3> HIDE DEF e
    <3>5. DOMAIN objPath' \subseteq deps
      BY <3>1, <3>2 DEF BuildTypeOK, Put
    <3>6. manifest'.entry = e
      BY <3>1
    <3>7. manifest' = [cfg |-> manifest'.cfg, entry |-> manifest'.entry]
      BY <3>1
    <3> QED BY <3>4, <3>5, <3>6, <3>7
  <2> QED BY <2>1 DEF BuildTypeOK, Work, Loop, Claim, Load, Compile, Lock, Copy, buildCache
<1>4. DOMAIN objTime' = DOMAIN object'
  BY DEF BuildTypeOK, Work, Loop, Claim, Load, Compile, Lock, Copy, Record, buildCache, Put
<1> QED BY <1>1, <1>2, <1>3, <1>4 DEF BuildTypeOK, sources, plan

\* A step of a worker keeps the workers apart.
LEMMA WorkKeepsApart ==
  ASSUME Base, NEW w \in Worker, Work(w)
  PROVE  ApartInv'
<1> USE DEF Base
<1>1. /\ work' = [v \in Worker |-> work'[v]] /\ deps' = deps
      /\ \A v \in Worker : v # w => work'[v] = work[v]
  BY WorkMoves DEF plan
<1>2. CASE Loop(w) \/ (Claim(w) /\ todo' = todo /\ work'[w].pc = "out")
  <2>1. ~Claimed(w) /\ ~Holding(w) /\ ~Claimed(w)' /\ ~Holding(w)'
    BY <1>2, WorkMoves DEF Claimed, Holding
  <2>2. \A v \in Worker : (Claimed(v)' <=> Claimed(v)) /\ (Holding(v)' <=> Holding(v))
                            /\ (Claimed(v) => work'[v] = work[v])
    BY <1>1, <2>1 DEF Claimed, Holding
  <2>3. UNCHANGED <<todo, objPath, holder>>
    BY <1>2 DEF Loop, Claim
  <2> QED BY <1>1, <2>2, <2>3 DEF ApartInv, WorkersExclude
<1>3. ASSUME NEW f \in todo, Claim(w), work'[w].pc = "load", work'[w].file = f, todo' = todo \ {f}
      PROVE  ApartInv'
  <2>1. ~Claimed(w) /\ ~Holding(w) /\ Claimed(w)' /\ ~Holding(w)' /\ work'[w].file = f
    BY <1>3, WorkMoves DEF Claimed, Holding
  <2>2. \A v \in Worker : v # w => (Claimed(v)' <=> Claimed(v)) /\ (Holding(v)' <=> Holding(v))
    BY <1>1 DEF Claimed, Holding
  <2>3. UNCHANGED <<objPath, holder>> /\ f \in deps /\ f \notin DOMAIN objPath
    BY <1>3 DEF Claim, ApartInv, BuildTypeOK
  <2>4. \A v \in Worker : Claimed(v) => work[v].file \notin todo
    BY DEF ApartInv, WorkersExclude
  <2>5. \A v \in Worker : (Holding(v) <=> holder = v)' 
    BY <2>1, <2>2, <2>3 DEF ApartInv, WorkersExclude
  <2>6. \A v \in Worker : Claimed(v)' /\ v # w => Claimed(v) /\ work'[v] = work[v] /\ work[v].file # f
    BY <1>1, <2>2, <2>4
  <2> QED BY <1>1, <1>3, <2>1, <2>3, <2>5, <2>6 DEF ApartInv, WorkersExclude
<1>4. CASE \/ Load(w) \/ Lock(w) \/ Copy(w)
           \/ Compile(w) /\ work'[w].pc = "lock"
  <2>1. Claimed(w) /\ Claimed(w)' /\ work'[w].file = work[w].file
    BY <1>4, WorkMoves DEF Claimed
  <2>2. \A v \in Worker : (Claimed(v)' <=> Claimed(v)) /\ work'[v].file = work[v].file
    BY <1>1, <2>1 DEF Claimed
  <2>3. UNCHANGED <<todo, objPath>>
    BY <1>4 DEF Load, Lock, Copy, Compile
  <2>4. \A v \in Worker : v # w => (Holding(v)' <=> Holding(v))
    BY <1>1 DEF Holding
  <2>5. \A v \in Worker : (Holding(v) <=> holder = v)'
    <3>1. CASE Lock(w)
      <4>1. holder = NoWorker /\ holder' = w /\ Holding(w)'
        BY <3>1, WorkMoves DEF Lock, Holding
      <4> QED BY <4>1, <2>4, WorkerAssumption DEF ApartInv, WorkersExclude
    <3>2. CASE ~Lock(w)
      <4>1. holder' = holder /\ (Holding(w)' <=> Holding(w))
        BY <1>4, <3>2, WorkMoves DEF Load, Copy, Compile, Holding
      <4> QED BY <4>1, <2>4 DEF ApartInv, WorkersExclude
    <3> QED BY <3>1, <3>2
  <2> QED BY <1>1, <2>2, <2>3, <2>5 DEF ApartInv, WorkersExclude
<1>5. CASE Compile(w) /\ work'[w].pc = "out"
  <2>1. ~Claimed(w)' /\ ~Holding(w)' /\ ~Holding(w)
    BY <1>5, WorkMoves DEF Claimed, Holding
  <2>2. \A v \in Worker : Claimed(v)' => v # w /\ Claimed(v) /\ work'[v] = work[v]
    BY <1>1, <2>1 DEF Claimed
  <2>3. UNCHANGED <<todo, objPath, holder>>
    BY <1>5 DEF Compile
  <2>4. \A v \in Worker : (Holding(v)' <=> Holding(v))
    BY <1>1, <2>1 DEF Holding
  <2> QED BY <1>1, <2>2, <2>3, <2>4 DEF ApartInv, WorkersExclude
<1>6. CASE Record(w)
  <2> DEFINE f == work[w].file
  <2>1. Claimed(w) /\ Holding(w) /\ ~Claimed(w)' /\ ~Holding(w)'
    BY <1>6, WorkMoves DEF Claimed, Holding
  <2>2. todo' = todo /\ holder' = NoWorker /\ DOMAIN objPath' = DOMAIN objPath \cup {f}
    BY <1>6 DEF Record, Put
  <2>3. \A v \in Worker : Claimed(v)' => v # w /\ Claimed(v) /\ work'[v] = work[v]
    BY <1>1, <2>1 DEF Claimed
  <2>4. \A v \in Worker : ~Holding(v)' /\ holder' # v
    BY <1>1, <2>1, <2>2, WorkerAssumption DEF Holding, ApartInv, WorkersExclude
  <2>5. f \notin todo /\ \A v \in Worker : Claimed(v) /\ v # w => work[v].file # f
    BY <2>1 DEF ApartInv, WorkersExclude
  <2> HIDE DEF f
  <2> QED BY <1>1, <2>2, <2>3, <2>4, <2>5 DEF ApartInv, WorkersExclude
<1> QED BY <1>2, <1>3, <1>4, <1>5, <1>6, WorkMoves DEF Work

\* A step of a worker leaves what another is recording alone.
LEMMA WorkKeepsRecord ==
  ASSUME Base, NEW w \in Worker, Work(w)
  PROVE  RecordInv'
<1> USE DEF Base
<1>1. \A v \in Worker : v # w => work'[v] = work[v]
  BY WorkMoves
<1>2. DOMAIN object \subseteq DOMAIN object'
  <2>1. CASE Copy(w)
    BY <2>1 DEF Copy, Put
  <2> QED BY <2>1 DEF Work, Loop, Claim, Load, Compile, Lock, Record, buildCache
<1>3. \A v \in Worker : v # w /\ work[v].pc = "record" => manifest' = manifest
  <2>1. CASE Record(w)
    <3>1. Holding(w)
      BY <2>1, WorkMoves DEF Holding
    <3> QED BY <3>1 DEF ApartInv, WorkersExclude, Holding
  <2> QED BY <2>1 DEF Work, Loop, Claim, Load, Compile, Lock, Copy, buildCache
<1>4. work'[w].pc = "record" => work'[w].seen = manifest' /\ work'[w].file \in DOMAIN object'
  <2>1. CASE Copy(w)
    <3>1. manifest' = manifest /\ work[w].file \in DOMAIN object'
      BY <2>1 DEF Copy, Put
    <3> QED BY <2>1, <3>1, WorkMoves
  <2>2. CASE ~Copy(w)
    <3>1. work'[w].pc # "record"
      BY <2>2, WorkMoves DEF Work
    <3> QED BY <3>1
  <2> QED BY <2>1, <2>2
<1> QED BY <1>1, <1>2, <1>3, <1>4 DEF RecordInv

\* The base of all that follows: it holds whatever happens around the builds.
LEMMA BaseStep ==
  ASSUME Base, [NextOrCrash]_vars
  PROVE  Base'
<1> USE DEF Base
<1>1. CASE Stay
  <2>1. BuildTypeOK'
    BY <1>1, StayMoves DEF BuildTypeOK, sources, buildCache, plan, pool
  <2>2. LocalsInv'
    <3>1. UNCHANGED <<deps, todo, work, holder, failed, objPath>>
      BY <1>1, StayMoves DEF plan, pool
    <3>2. CASE stage' # "link" \/ stage = "link"
      BY <1>1, <3>1, <3>2, StayMoves DEF LocalsInv
    <3>3. CASE stage' = "link" /\ stage # "link"
      <4>1. ~failed /\ \A w \in Worker : work[w].pc = "out" /\ work[w] = Out
        BY <1>1, <3>3, StayMoves DEF BuildTypeOK, WorkerShape, Out
      <4>2. work = AllOut
        BY <4>1 DEF BuildTypeOK, AllOut
      <4>3. holder = NoWorker
        BY <4>1 DEF ApartInv, WorkersExclude, Holding, BuildTypeOK
      <4>4. todo = {}
        BY <4>1, WorkerAssumption DEF LocalsInv
      <4> QED BY <3>1, <3>3, <4>1, <4>2, <4>3, <4>4 DEF LocalsInv
    <3> QED BY <3>2, <3>3
  <2>3. ApartInv' /\ RecordInv'
    BY <1>1, StayMoves DEF ApartInv, RecordInv, WorkersExclude, Claimed, Holding, plan, pool, buildCache
  <2> QED BY <2>1, <2>2, <2>3
<1>2. CASE Leave
  <2>1. BuildTypeOK'
    BY <1>2, LeaveMoves, AllOutShape, EmptyMap DEF BuildTypeOK, sources, buildCache
  <2>2. LocalsInv'
    BY <1>2, LeaveMoves DEF LocalsInv
  <2>3. ApartInv' /\ RecordInv'
    BY <1>2, LeaveMoves, AllOutShape, EmptyMap, WorkerAssumption
    DEF ApartInv, RecordInv, WorkersExclude, Claimed, Holding
  <2> QED BY <2>1, <2>2, <2>3
<1>3. CASE Check
  <2>1. /\ stage = "check" /\ stage' \in {"cached", "compile"} /\ todo' \subseteq deps /\ deps' = deps /\ cfg' = cfg
        /\ objPath' = [f \in deps \ todo' |-> "cache"]
        /\ UNCHANGED <<sources, buildCache, sema, holder, failed>>
    BY <1>3 DEF Check, NeedsRecompile, NeedsResema
  <2>2. \/ stage' = "cached" /\ todo' = {} /\ work' = AllOut
        \/ stage' = "compile" /\ work' = [w \in Worker |-> [pc |-> "loop"]]
    BY <1>3 DEF Check
  <2>3. /\ work' = [w \in Worker |-> work'[w]]
        /\ \A w \in Worker : WorkerShape(work'[w]) /\ work'[w].pc \in {"out", "loop"}
    BY <2>2, AllOutShape DEF WorkerShape
  <2>4. stage' = "compile" => \A w \in Worker : work'[w].pc = "loop"
    BY <2>2
  <2>5. holder = NoWorker /\ failed = FALSE
    BY <2>1 DEF LocalsInv
  <2>6. BuildTypeOK'
    BY <2>1, <2>3 DEF BuildTypeOK, sources, buildCache
  <2>7. LocalsInv'
    BY <2>1, <2>2, <2>4, <2>5 DEF LocalsInv
  <2>8. ApartInv' /\ RecordInv'
    BY <2>1, <2>3, <2>5, WorkerAssumption DEF ApartInv, RecordInv, WorkersExclude, Claimed, Holding
  <2> QED BY <2>6, <2>7, <2>8
<1>4. ASSUME NEW f \in File, NEW x \in FileTexts[f], Edit(f, x) PROVE Base'
  <2>1. /\ source' = [source EXCEPT ![f] = x] /\ clock' = clock + 1 /\ mtime' = [mtime EXCEPT ![f] = clock']
        /\ UNCHANGED <<buildCache, sema, exes, stage, plan, pool, entries, result, builds>>
    BY <1>4 DEF Edit
  <2>2. x \in FileText
    BY <1>4 DEF FileText
  <2>3. BuildTypeOK'
    BY <2>1, <2>2 DEF BuildTypeOK, buildCache, plan, pool
  <2>4. LocalsInv' /\ ApartInv' /\ RecordInv'
    BY <2>1 DEF LocalsInv, ApartInv, RecordInv, WorkersExclude, Claimed, Holding, buildCache, plan, pool
  <2> QED BY <2>3, <2>4
<1>5. ASSUME NEW c \in Config, NEW rebuild \in BOOLEAN, StartBuild(c, rebuild) PROVE Base'
  <2>1. /\ stage = "idle" /\ stage' = "check" /\ cfg' = c /\ deps' = Scan(source) /\ clock' = clock + 1
        /\ UNCHANGED <<source, mtime, sema, exes, pool>>
    BY <1>5 DEF StartBuild
  <2>2. Prune(deps')
    BY <1>5 DEF StartBuild
  <2>3. /\ manifest' = [cfg |-> manifest.cfg, entry |-> Keep(manifest.entry, deps')]
        /\ \E S : object' = Keep(object, S) /\ objTime' = Keep(objTime, S)
    BY <2>2 DEF Prune, BuildTypeOK
  <2>4. /\ manifest' = [cfg |-> manifest'.cfg, entry |-> manifest'.entry]
        /\ DOMAIN manifest'.entry \subseteq File /\ DOMAIN objTime' = DOMAIN object'
    BY <2>3 DEF Keep, BuildTypeOK
  <2>5. /\ work = AllOut /\ holder = NoWorker /\ todo = {} /\ failed = FALSE
        /\ objPath = NoMap
    BY <2>1 DEF LocalsInv, BuildTypeOK
  <2>6. work' = work /\ holder' = holder /\ todo' = todo /\ failed' = failed /\ objPath' = objPath
    BY <2>1 DEF pool
  <2>7. BuildTypeOK'
    BY <2>1, <2>4, <2>5, <2>6, ReachInFile, AllOutShape, EmptyMap DEF BuildTypeOK
  <2>8. LocalsInv'
    BY <2>1, <2>5, <2>6 DEF LocalsInv
  <2>9. ApartInv' /\ RecordInv'
    BY <2>5, <2>6, AllOutShape, EmptyMap, WorkerAssumption
    DEF ApartInv, RecordInv, WorkersExclude, Claimed, Holding
  <2> QED BY <2>7, <2>8, <2>9
<1>6. ASSUME NEW w \in Worker, Work(w) PROVE Base'
  <2>1. BuildTypeOK' /\ ApartInv' /\ RecordInv'
    BY <1>6, WorkKeepsType, WorkKeepsApart, WorkKeepsRecord
  <2>2. LocalsInv'
    <3>1. stage = "compile" /\ stage' = stage
      BY <1>6, WorkMoves
    <3>2. (failed => failed') /\ todo' \subseteq todo
      BY <1>6, ZenonT(60) DEF Work, Loop, Claim, Load, Compile, Lock, Copy, Record, BuildTypeOK
    <3>3. \A v \in Worker : v # w => work'[v] = work[v]
      BY <1>6, WorkMoves
    <3>4. work'[w].pc = "out" => failed' \/ todo' = {}
      <4>1. CASE Compile(w)
        <5> DEFINE ok == work[w].text.ok /\ \A g \in work[w].text.imports : Accepted(g, source)
        <5>1. /\ Step(w, "compile", IF ok THEN [work[w] EXCEPT !.pc = "lock"] ELSE Out)
              /\ failed' = (failed \/ ~ok)
          BY <4>1 DEF Compile
        <5> HIDE DEF ok
        <5>2. ok => work'[w] = [pc |-> "lock", file |-> work[w].file, text |-> work[w].text]
          BY <5>1, StepMoves, PlaceMoves
        <5>3. CASE ok
          BY <5>2, <5>3
        <5>4. CASE ~ok
          BY <5>1, <5>4
        <5> QED BY <5>3, <5>4
      <4>2. CASE Loop(w)
        BY <4>2, <1>6, WorkMoves DEF Loop
      <4> QED BY <4>1, <4>2, <1>6, WorkMoves DEF Work
    <3> QED BY <3>1, <3>2, <3>3, <3>4 DEF LocalsInv
  <2> QED BY <2>1, <2>2
<1> QED BY <1>1, <1>2, <1>3, <1>4, <1>5, <1>6, StepKinds

-----------------------------------------------------------------------------
(* The caches are complete after a build that succeeded.                     *)

\* A file that is not to be compiled is in both caches.
LEMMA CachedFiles ==
  ASSUME Check, NEW f \in deps, f \notin todo'
  PROVE  /\ ~force /\ manifest.cfg = cfg /\ hash' = [g \in deps |-> CurrentHash(g)]
         /\ f \in DOMAIN manifest.entry /\ f \in DOMAIN object /\ f \in DOMAIN sema
         /\ manifest.entry[f].hash = CurrentHash(f)
<1> DEFINE h == [g \in deps |-> CurrentHash(g)]
<1>1. hash' = h /\ todo' = IF force THEN deps ELSE NeedsRecompile(h) \cup NeedsResema(h)
  BY DEF Check
<1>2. ~force /\ f \notin NeedsRecompile(h) /\ f \notin NeedsResema(h)
  BY <1>1
<1>3. h[f] = CurrentHash(f)
  OBVIOUS
<1> HIDE DEF h
<1>4. /\ manifest.cfg = cfg /\ f \in DOMAIN manifest.entry /\ f \in DOMAIN object
      /\ manifest.entry[f].hash = h[f]
  BY <1>2 DEF NeedsRecompile
<1>5. f \in DOMAIN sema
  BY <1>2 DEF NeedsResema, SemaStale
<1> QED BY <1>1, <1>2, <1>3, <1>4, <1>5 DEF h

\* At first the caches are empty, and nothing has succeeded.
LEMMA WarmInit == Init => ManifestInv /\ CoverInv /\ WarmCache
<1> SUFFICES ASSUME Init PROVE ManifestInv /\ CoverInv /\ WarmCache
  OBVIOUS
<1>1. ManifestInv
  BY EmptyMap DEF Init, ManifestInv
<1>2. CoverInv /\ WarmCache
  BY DEF Init, CoverInv, WarmCache, Succeeded
<1> QED BY <1>1, <1>2

\* A record adds to both caches, and drops no file that is to be linked.
LEMMA WorkKeepsManifest ==
  ASSUME Base, ManifestInv, NEW w \in Worker, Work(w)
  PROVE  ManifestInv'
<1> USE DEF Base
<1>1. stage = "compile" /\ stage' = stage /\ cfg' = cfg
  BY WorkMoves DEF plan
<1>2. CASE Record(w)
  <2> DEFINE f == work[w].file
             kept == IF manifest.cfg = cfg THEN manifest.entry ELSE NoMap
             r == [hash |-> hash[f], mtime |-> mtime[f]]
  <2>1. f \in DOMAIN object /\ work[w].seen = manifest
    BY <1>2, WorkMoves DEF RecordInv
  <2>2. /\ manifest' = [cfg |-> cfg, entry |-> Put(kept, f, r)]
        /\ entries' = Put(entries, f, SemaEntry(f, work[w].text)) /\ objPath' = Put(objPath, f, "build")
        /\ object' = object
    BY <1>2, <2>1 DEF Record
  <2>3. manifest'.cfg = cfg /\ manifest'.entry = Put(kept, f, r)
    BY <2>2
  <2>4. DOMAIN manifest'.entry = DOMAIN kept \cup {f} /\ DOMAIN entries' = DOMAIN entries \cup {f}
        /\ DOMAIN objPath' = DOMAIN objPath \cup {f}
    BY <2>2, <2>3 DEF Put
  <2>5. DOMAIN kept \subseteq DOMAIN manifest.entry /\ (manifest.cfg = cfg => DOMAIN kept = DOMAIN manifest.entry)
    BY EmptyMap
  <2> HIDE DEF f, kept
  <2> QED BY <1>1, <2>1, <2>2, <2>3, <2>4, <2>5 DEF ManifestInv
<1>3. CASE Copy(w)
  <2>1. UNCHANGED <<manifest, entries, objPath>> /\ DOMAIN object \subseteq DOMAIN object'
    BY <1>3 DEF Copy, Put
  <2> QED BY <1>1, <2>1 DEF ManifestInv
<1>4. CASE ~Record(w) /\ ~Copy(w)
  <2>1. UNCHANGED <<manifest, entries, objPath, object>>
    BY <1>4 DEF Work, Loop, Claim, Load, Compile, Lock, buildCache
  <2> QED BY <1>1, <2>1 DEF ManifestInv
<1> QED BY <1>2, <1>3, <1>4

\* No step of a worker loses a file of the build, unless the build fails.
LEMMA WorkKeepsCover ==
  ASSUME Base, CoverInv, NEW w \in Worker, Work(w)
  PROVE  CoverInv'
<1> USE DEF Base
<1>1. /\ stage = "compile" /\ stage' = stage /\ deps' = deps /\ dirty' = dirty /\ source' = source
      /\ \A v \in Worker : v # w => work'[v] = work[v]
  BY WorkMoves DEF plan, sources
<1>2. ASSUME ~failed', NEW f \in deps
      PROVE  f \in DOMAIN objPath' \/ f \in todo' \/ \E v \in Worker : Claimed(v)' /\ work'[v].file = f
  <2>1. failed = FALSE /\ (failed' => FALSE)
    BY <1>2 DEF Work, Loop, Claim, Load, Compile, Lock, Copy, Record, BuildTypeOK
  <2>2. f \in DOMAIN objPath \/ f \in todo \/ \E v \in Worker : Claimed(v) /\ work[v].file = f
    BY <1>1, <2>1 DEF CoverInv
  <2>3. CASE f \in DOMAIN objPath
    BY <2>3 DEF Work, Loop, Claim, Load, Compile, Lock, Copy, Record, Put
  <2>4. CASE f \in todo
    <3>1. CASE Claim(w)
      BY <2>4, <3>1, WorkMoves DEF Claimed
    <3>2. CASE ~Claim(w)
      BY <2>4, <3>2 DEF Work, Loop, Load, Compile, Lock, Copy, Record
    <3> QED BY <3>1, <3>2
  <2>5. ASSUME NEW v \in Worker, v # w, Claimed(v), work[v].file = f
        PROVE  Claimed(v)' /\ work'[v].file = f
    BY <1>1, <2>5 DEF Claimed
  <2>6. CASE Claimed(w) /\ work[w].file = f
    <3>1. CASE Record(w)
      BY <2>6, <3>1 DEF Record, Put
    <3>2. CASE Compile(w)
      <4>1. work[w].text.ok /\ \A g \in work[w].text.imports : Accepted(g, source)
        BY <2>1, <3>2 DEF Compile
      <4>2. Step(w, "compile", [work[w] EXCEPT !.pc = "lock"])
        BY <3>2, <4>1 DEF Compile
      <4>3. work'[w] = [pc |-> "lock", file |-> work[w].file, text |-> work[w].text]
        BY <4>2, <3>2, WorkMoves, StepMoves, PlaceMoves
      <4> QED BY <2>6, <4>3 DEF Claimed
    <3>3. CASE ~Record(w) /\ ~Compile(w)
      BY <2>6, <3>3, WorkMoves DEF Claimed, Work
    <3> QED BY <3>1, <3>2, <3>3
  <2> QED BY <2>2, <2>3, <2>4, <2>5, <2>6
<1> QED BY <1>1, <1>2 DEF CoverInv

\* Every step keeps the caches complete.
LEMMA WarmStep ==
  ASSUME CrashInv, [NextOrCrash]_vars
  PROVE  CrashInv'
<1> USE DEF CrashInv
<1>1. CASE Stay
  <2>1. /\ UNCHANGED <<source, manifest, object, entries, objPath, cfg, deps, dirty, todo, work, failed>>
        /\ result' = result
    BY <1>1, StayMoves DEF sources, buildCache, plan, pool
  <2>2. \/ stage' = stage /\ sema' = sema
        \/ stage = "cached" /\ stage' = "compile" /\ sema' = sema
        \/ /\ stage = "compile" /\ stage' = "link" /\ sema' = entries /\ ~failed
           /\ \A w \in Worker : work[w].pc = "out"
    BY <1>1, StayMoves
  <2>3. ManifestInv'
    BY <2>1, <2>2 DEF ManifestInv
  <2>4. CoverInv'
    <3>1. \A w \in Worker : Claimed(w)' <=> Claimed(w)
      BY <2>1 DEF Claimed
    <3>2. CASE stage' = stage
      BY <2>1, <3>1, <3>2 DEF CoverInv
    <3>3. CASE stage = "cached" /\ stage' = "compile"
      BY <2>1, <3>3 DEF CoverInv
    <3>4. CASE /\ stage = "compile" /\ stage' = "link" /\ ~failed
               /\ \A w \in Worker : work[w].pc = "out"
      <4>1. todo = {} /\ \A w \in Worker : ~Claimed(w)
        BY <3>4, WorkerAssumption DEF Base, LocalsInv, Claimed
      <4>2. deps = DOMAIN objPath
        BY <3>4, <4>1 DEF CoverInv, Base, BuildTypeOK
      <4> QED BY <2>1, <3>4, <4>2 DEF CoverInv
    <3> QED BY <2>2, <3>2, <3>3, <3>4
  <2>5. WarmCache'
    BY <2>1, <2>2 DEF WarmCache, Succeeded
  <2> QED BY <2>3, <2>4, <2>5, BaseStep
<1>2. CASE Leave
  <2>1. /\ stage' = "idle" /\ stage # "idle" /\ objPath' = NoMap
        /\ UNCHANGED <<source, manifest, object, dirty>>
    BY <1>2, LeaveMoves DEF sources, buildCache
  <2>2. ManifestInv'
    BY <2>1, EmptyMap DEF ManifestInv
  <2>3. CoverInv'
    BY <2>1 DEF CoverInv
  <2>4. result' = "ok" => stage \in {"cached", "link"} /\ sema' = sema
    BY <1>2 DEF Leave, EndBuild, ReturnUpToDate, LinkCached, Link, LinkFails, Crash, Join, Return
  <2>5. WarmCache'
    <3>1. ASSUME result' = "ok", ~dirty
          PROVE  Scan(source) \subseteq DOMAIN manifest.entry \cap DOMAIN object \cap DOMAIN sema
      <4>1. deps = Scan(source) /\ deps = DOMAIN objPath /\ entries = sema
        BY <2>1, <2>4, <3>1 DEF CoverInv, ManifestInv
      <4> QED BY <4>1 DEF ManifestInv
    <3>2. CASE result' = "ok" /\ ~dirty
      BY <2>1, <2>4, <3>1, <3>2 DEF WarmCache
    <3>3. CASE ~(result' = "ok" /\ ~dirty)
      BY <2>1, <3>3 DEF WarmCache, Succeeded
    <3> QED BY <3>2, <3>3
  <2> QED BY <2>2, <2>3, <2>5, BaseStep
<1>3. CASE Check
  <2>1. /\ stage = "check" /\ stage' \in {"cached", "compile"} /\ entries' = sema
        /\ objPath' = [f \in deps \ todo' |-> "cache"] /\ todo' \subseteq deps
        /\ (stage' = "cached" => todo' = {})
        /\ UNCHANGED <<source, cfg, deps, dirty, manifest, object, sema>>
    BY <1>3 DEF Check, NeedsRecompile, NeedsResema, sources, buildCache
  <2>2. ManifestInv'
    BY <1>3, <2>1, CachedFiles DEF ManifestInv
  <2>3. CoverInv'
    BY <2>1 DEF CoverInv
  <2> QED BY <2>1, <2>2, <2>3, BaseStep DEF WarmCache, Succeeded
<1>4. ASSUME NEW f \in File, NEW x \in FileTexts[f], Edit(f, x) PROVE CrashInv'
  <2>1. dirty' = TRUE /\ UNCHANGED <<buildCache, sema, exes, stage, plan, pool, entries, result>>
    BY <1>4 DEF Edit
  <2>2. ManifestInv'
    BY <2>1 DEF ManifestInv, buildCache, plan, pool
  <2>3. CoverInv'
    BY <2>1 DEF CoverInv, Claimed, plan, pool
  <2> QED BY <2>1, <2>2, <2>3, BaseStep DEF WarmCache, Succeeded
<1>5. ASSUME NEW c \in Config, NEW rebuild \in BOOLEAN, StartBuild(c, rebuild) PROVE CrashInv'
  <2>1. /\ stage = "idle" /\ stage' = "check" /\ deps' = Scan(source) /\ source' = source
        /\ UNCHANGED pool
    BY <1>5 DEF StartBuild
  <2>2. manifest'.entry = Keep(manifest.entry, deps')
        /\ object' = Keep(object, File \ (DOMAIN manifest.entry \ deps'))
    <3>1. Prune(deps')
      BY <1>5 DEF StartBuild
    <3> QED BY <3>1 DEF Prune, Base, BuildTypeOK
  <2>3. DOMAIN manifest'.entry \subseteq DOMAIN object' /\ objPath' = NoMap
    BY <2>1, <2>2 DEF Keep, ManifestInv, Base, BuildTypeOK, LocalsInv, pool
  <2>4. ManifestInv'
    BY <2>1, <2>3, EmptyMap DEF ManifestInv
  <2>5. CoverInv'
    BY <2>1 DEF CoverInv
  <2> QED BY <2>1, <2>4, <2>5, BaseStep DEF WarmCache, Succeeded
<1>6. ASSUME NEW w \in Worker, Work(w) PROVE CrashInv'
  <2>1. ManifestInv' /\ CoverInv'
    BY <1>6, WorkKeepsManifest, WorkKeepsCover
  <2>2. stage' # "idle"
    BY <1>6, WorkMoves DEF Base
  <2> QED BY <2>1, <2>2, BaseStep DEF WarmCache, Succeeded
<1> QED BY <1>1, <1>2, <1>3, <1>4, <1>5, <1>6, StepKinds

\* The mutual exclusion of the workers, with kills and edits at any moment.
THEOREM WorkersApart == CrashSpec => []WorkersExclude
<1>1. Init => Base
  BY BuildInit
<1>2. Base /\ [NextOrCrash]_vars => Base'
  BY BaseStep
<1>3. Base => WorkersExclude
  BY DEF Base, ApartInv
<1> QED BY <1>1, <1>2, <1>3, PTL DEF CrashSpec

\* A build that says it succeeded leaves the caches complete, whatever failed, was
\* edited or was killed before.
THEOREM CachesWarm == CrashSpec => []WarmCache
<1>1. Init => CrashInv
  BY BuildInit, WarmInit DEF CrashInv
<1>2. CrashInv /\ [NextOrCrash]_vars => CrashInv'
  BY WarmStep
<1>3. CrashInv => WarmCache
  BY DEF CrashInv
<1> QED BY <1>1, <1>2, <1>3, PTL DEF CrashSpec

-----------------------------------------------------------------------------
(* Nothing unchanged is compiled again, when no build is killed.             *)

BuildInv == CrashInv /\ EntriesInv

\* At first the manifests are empty.
LEMMA EntriesInit == Init => EntriesInv
<1> SUFFICES ASSUME Init PROVE EntriesInv
  OBVIOUS
<1>1. DOMAIN entries = {} /\ DOMAIN sema = {} /\ DOMAIN manifest.entry = {}
  BY EmptyMap DEF Init
<1>2. \A w \in Worker : ~Loaded(w)
  BY AllOutShape DEF Init, Loaded
<1> QED BY <1>1, <1>2 DEF EntriesInv

\* A record enters one hash in both manifests.
LEMMA WorkKeepsEntries ==
  ASSUME BuildInv, NEW w \in Worker, Work(w)
  PROVE  EntriesInv'
<1> USE DEF BuildInv, CrashInv, Base
<1>1. /\ stage = "compile" /\ stage' = stage /\ sema' = sema
      /\ \A v \in Worker : v # w => work'[v] = work[v]
  BY WorkMoves
<1>2. \A v \in Worker : Loaded(v)' => work'[v].text \in FileText
  <2>1. ASSUME Loaded(w)' PROVE work'[w].text \in FileText
    <3>1. CASE Load(w)
      <4>1. work[w].file \in File
        BY <3>1, WorkMoves DEF ApartInv, Claimed, BuildTypeOK
      <4> QED BY <3>1, <4>1, WorkMoves DEF BuildTypeOK
    <3>2. CASE ~Load(w)
      <4>1. Loaded(w) /\ work'[w].text = work[w].text
        BY <2>1, <3>2, WorkMoves DEF Loaded, Work
      <4> QED BY <4>1 DEF EntriesInv
    <3> QED BY <3>1, <3>2
  <2> QED BY <1>1, <2>1 DEF EntriesInv, Loaded
<1>3. CASE Record(w)
  <2> DEFINE f == work[w].file
             kept == IF manifest.cfg = cfg THEN manifest.entry ELSE NoMap
             r == [hash |-> hash[f], mtime |-> mtime[f]]
             e == SemaEntry(f, work[w].text)
  <2>1. work[w].seen = manifest /\ f \in File /\ work[w].text \in FileText
    BY <1>3, WorkMoves DEF RecordInv, ApartInv, Claimed, Loaded, EntriesInv, BuildTypeOK
  <2>2. manifest' = [cfg |-> cfg, entry |-> Put(kept, f, r)] /\ entries' = Put(entries, f, e)
    BY <1>3, <2>1 DEF Record
  <2>3. e.hash = hash[f] /\ NoImport(e)
    <3>1. \A g \in work[w].text.imports : ImportName(g) \notin File
      BY <2>1, SourceAssumption, ImportAssumption
    <3>2. e.hash = hash[f] /\ e.imports = {ImportName(g) : g \in work[w].text.imports}
          /\ DOMAIN e.snapshot = e.imports \cap DOMAIN entries
      BY DEF SemaEntry
    <3> QED BY <3>1, <3>2 DEF NoImport, EntriesInv
  <2>4. manifest'.entry = Put(kept, f, r) /\ r.hash = hash[f]
    BY <2>2
  <2>5. \A g \in DOMAIN kept : g \in DOMAIN manifest.entry /\ kept[g] = manifest.entry[g]
    BY EmptyMap
  <2> HIDE DEF f, kept, e, r
  <2>6. DOMAIN entries' \subseteq File /\ \A g \in DOMAIN entries' : NoImport(entries'[g])
    BY <2>1, <2>2, <2>3 DEF EntriesInv, Put
  <2>7. \A g \in DOMAIN manifest'.entry :
          g \in DOMAIN entries' /\ entries'[g].hash = manifest'.entry[g].hash
    BY <1>1, <2>2, <2>3, <2>4, <2>5 DEF EntriesInv, Entries, Put
  <2> QED BY <1>1, <1>2, <2>6, <2>7 DEF EntriesInv, Entries, NoImport
<1>4. CASE ~Record(w)
  <2>1. UNCHANGED <<manifest, entries>>
    BY <1>4 DEF Work, Loop, Claim, Load, Compile, Lock, Copy, buildCache
  <2> QED BY <1>1, <1>2, <2>1 DEF EntriesInv, Entries, NoImport
<1> QED BY <1>3, <1>4

\* Every step but a kill keeps the manifests in agreement.
LEMMA BuildStep ==
  ASSUME BuildInv, [Next]_vars
  PROVE  BuildInv'
<1> USE DEF BuildInv, CrashInv
<1>1. [NextOrCrash]_vars
  BY DEF NextOrCrash
<1>2. CASE Stay
  <2>1. UNCHANGED <<manifest, entries, work>>
    BY <1>2, StayMoves DEF buildCache, pool
  <2>2. Entries' = Entries
    BY <1>2, <2>1, StayMoves DEF Entries, ManifestInv
  <2>3. sema' \in {sema, entries}
    BY <1>2, StayMoves
  <2> QED BY <1>1, <2>1, <2>2, <2>3, WarmStep DEF EntriesInv, NoImport, Loaded
<1>3. CASE EndBuild
  <2>1. /\ stage' = "idle" /\ entries' = NoMap /\ UNCHANGED manifest /\ work' = AllOut
    BY <1>3, LeaveMoves DEF Leave, buildCache
  <2>2. sema' = Entries /\ Entries' = sema'
    <3>1. \/ stage \in {"cached", "link"} /\ sema' = sema
          \/ stage = "compile" /\ sema' = entries
      BY <1>3 DEF EndBuild, ReturnUpToDate, LinkCached, Link, LinkFails, Join
    <3> QED BY <3>1, <2>1 DEF Entries
  <2>3. Entries \in {sema, entries}
    BY DEF Entries
  <2> QED BY <1>1, <2>1, <2>2, <2>3, WarmStep, EmptyMap, AllOutShape DEF EntriesInv, NoImport, Loaded
<1>4. CASE Check
  <2>1. /\ stage = "check" /\ stage' \in {"cached", "compile"} /\ entries' = sema /\ UNCHANGED <<manifest, sema>>
        /\ \A w \in Worker : work'[w].pc \in {"out", "loop"}
    BY <1>4, AllOutShape DEF Check, buildCache
  <2>2. Entries = sema /\ Entries' = sema
    BY <2>1 DEF Entries
  <2> QED BY <1>1, <2>1, <2>2, WarmStep DEF EntriesInv, NoImport, Loaded
<1>5. ASSUME NEW f \in File, NEW x \in FileTexts[f], Edit(f, x) PROVE BuildInv'
  <2>1. UNCHANGED <<buildCache, sema, stage, pool, entries>>
    BY <1>5 DEF Edit
  <2> QED BY <1>1, <2>1, WarmStep DEF EntriesInv, NoImport, Loaded, Entries, buildCache, pool
<1>6. ASSUME NEW c \in Config, NEW rebuild \in BOOLEAN, StartBuild(c, rebuild) PROVE BuildInv'
  <2>1. stage = "idle" /\ stage' = "check" /\ UNCHANGED <<sema, entries, work>>
    BY <1>6 DEF StartBuild, pool
  <2>2. manifest'.entry = Keep(manifest.entry, deps')
    <3>1. Prune(deps')
      BY <1>6 DEF StartBuild
    <3> QED BY <3>1 DEF Prune, Base, BuildTypeOK
  <2>3. \A g \in DOMAIN manifest'.entry : g \in DOMAIN manifest.entry /\ manifest'.entry[g] = manifest.entry[g]
    BY <2>2 DEF Keep
  <2> QED BY <1>1, <2>1, <2>3, WarmStep DEF EntriesInv, NoImport, Loaded, Entries
<1>7. ASSUME NEW w \in Worker, Work(w) PROVE BuildInv'
  BY <1>1, <1>7, WorkKeepsEntries, WarmStep
<1>8. [Next]_vars => \/ Stay \/ EndBuild \/ Check
                     \/ \E f \in File : \E x \in FileTexts[f] : Edit(f, x)
                     \/ \E c \in Config, rebuild \in BOOLEAN : StartBuild(c, rebuild)
                     \/ \E w \in Worker : Work(w)
  BY DEF Next, Driver, Stay, EndBuild
<1> QED BY <1>2, <1>3, <1>4, <1>5, <1>6, <1>7, <1>8

\* What a check plans to compile has changed, if it is not forced.
LEMMA PlanIsNeeded ==
  ASSUME BuildInv, Check, ~force, cfg = manifest.cfg, NEW f \in todo'
  PROVE  Reach(f, source) \cap Changed # {}
<1> DEFINE h == [g \in deps |-> CurrentHash(g)]
<1>1. f \in NeedsRecompile(h) \cup NeedsResema(h) /\ stage = "check"
  BY DEF Check
<1>2. f \in deps /\ f \in File
  BY <1>1 DEF NeedsRecompile, NeedsResema, BuildInv, CrashInv, Base, BuildTypeOK
<1>3. f \in Reach(f, source)
  BY <1>2 DEF Reach
<1>4. f \in Changed
  <2> SUFFICES ASSUME f \in DOMAIN manifest.entry, manifest.entry[f].hash = source[f] PROVE FALSE
    BY <1>2 DEF Changed
  <2>1. h[f] = source[f]
    BY <1>2 DEF CurrentHash
  <2>2. f \in DOMAIN object /\ f \in DOMAIN sema /\ sema[f].hash = source[f]
    BY <1>1 DEF BuildInv, CrashInv, ManifestInv, EntriesInv, Entries
  <2> HIDE DEF h
  <2>3. f \notin NeedsRecompile(h)
    BY <2>1, <2>2 DEF NeedsRecompile
  <2>4. f \notin SemaStale(h)
    BY <2>1, <2>2 DEF SemaStale, BuildInv, EntriesInv, NoImport
  <2>5. \A S \in SUBSET deps : {g \in deps \cap DOMAIN sema : sema[g].imports \cap S # {}} = {}
    <3>1. deps \subseteq File
      BY DEF BuildInv, CrashInv, Base, BuildTypeOK
    <3> QED BY <3>1 DEF BuildInv, EntriesInv, NoImport
  <2>6. SemaStale(h) \in SUBSET deps
    BY DEF SemaStale
  <2>7. f \notin NeedsResema(h)
    BY <2>4, <2>5, <2>6 DEF NeedsResema
  <2> QED BY <1>1, <2>3, <2>7
<1> QED BY <1>3, <1>4

\* Without --rebuild, and in the configuration of the cache, nothing is compiled that
\* neither changed nor reaches a changed file.
THEOREM NothingNeedless == Spec => NoNeedlessRecompile
<1>1. Init => BuildInv
  BY BuildInit, WarmInit, EntriesInit DEF BuildInv, CrashInv
<1>2. BuildInv /\ [Next]_vars => BuildInv'
  BY BuildStep
<1>3. BuildInv /\ [Next]_vars =>
        [stage = "check" /\ stage' \in {"cached", "compile"} /\ ~force /\ cfg = manifest.cfg
           => \A f \in todo' : Reach(f, source) \cap Changed # {}]_vars
  <2> SUFFICES ASSUME BuildInv, Next, stage = "check", stage' \in {"cached", "compile"}, ~force,
                      cfg = manifest.cfg, NEW f \in todo'
               PROVE  Reach(f, source) \cap Changed # {}
    OBVIOUS
  <2>1. Check
    <3>1. \A g \in File : \A x \in FileTexts[g] : ~Edit(g, x)
      BY DEF Edit
    <3>2. \A c \in Config, rebuild \in BOOLEAN : ~StartBuild(c, rebuild)
      BY DEF StartBuild
    <3>3. \A w \in Worker : ~Work(w)
      BY WorkMoves DEF BuildInv, CrashInv, Base
    <3>4. Driver => Check
      BY DEF Driver, ReturnUpToDate, LinkCached, LinkCachedFails, Join, Link, LinkFails
    <3> QED BY <3>1, <3>2, <3>3, <3>4 DEF Next
  <2> QED BY <2>1, PlanIsNeeded
<1> QED BY <1>1, <1>2, <1>3, PTL DEF Spec, NoNeedlessRecompile

-----------------------------------------------------------------------------
(* The cache is sound, when no file is edited in a build and none is killed. *)

Quiet == "editInBuild" \notin Env

SoundInv == BuildInv /\ LoadedInv /\ TextsInv

\* At first nothing is loaded and nothing recorded.
LEMMA SoundInit == Init => LoadedInv /\ TextsInv
<1> SUFFICES ASSUME Init PROVE LoadedInv /\ TextsInv
  OBVIOUS
<1>1. \A w \in Worker : work[w].pc = "out"
  BY AllOutShape DEF Init
<1>2. DOMAIN manifest.entry = {} /\ DOMAIN objPath = {} /\ \A f \in File : mtime[f] <= clock
  BY EmptyMap DEF Init
<1> QED BY <1>1, <1>2 DEF Init, LoadedInv, TextsInv, Loaded

\* The files of two workers that compile are two files.
LEMMA OtherFile ==
  ASSUME Base, NEW v \in Worker, NEW w \in Worker, v # w, Claimed(v), Claimed(w)
  PROVE  work[v].file # work[w].file
BY DEF Base, ApartInv, WorkersExclude

\* A worker compiles the text of its file, and no other worker interferes.
LEMMA WorkKeepsLoaded ==
  ASSUME SoundInv, NEW w \in Worker, Work(w)
  PROVE  LoadedInv'
<1> USE DEF SoundInv, BuildInv, CrashInv
<1>1. /\ stage = "compile" /\ UNCHANGED <<stage, source, cfg, deps, hash, dirty>>
      /\ \A v \in Worker : v # w => work'[v] = work[v]
  BY WorkMoves DEF Base, sources, plan
<1>2. Loaded(w)' => work'[w].text = source[work'[w].file]
  BY WorkMoves DEF Base, Loaded, Work, LoadedInv
<1>3. ASSUME NEW v \in Worker, work'[v].pc \in {"lock", "copy", "record"}
      PROVE  work'[v].file \in DOMAIN built' /\ Good(built'[work'[v].file], work'[v].file, cfg)
  <2>1. CASE v = w /\ Compile(w)
    <3> DEFINE f == work[w].file
               t == work[w].text
    <3>1. work'[w].pc = "lock" /\ work'[w].file = f /\ work[w].pc = "compile"
      BY <1>3, <2>1, WorkMoves DEF Base
    <3>2. t = source[f]
      BY <3>1 DEF LoadedInv, Loaded
    <3>3. built' = Put(built, f, Compiled(t, source, cfg))
      BY <2>1, <3>1 DEF Compile, Step, Out
    <3>4. Compiled(t, source, cfg).text = t /\ Compiled(t, source, cfg).cfg = cfg
      BY DEF Compiled
    <3> HIDE DEF f, t
    <3> QED BY <2>1, <3>1, <3>2, <3>3, <3>4 DEF Put, Good
  <2>2. CASE v = w /\ ~Compile(w)
    <3>1. work[w].pc \in {"lock", "copy"} /\ work'[w].file = work[w].file /\ built' = built
      BY <1>3, <2>2, WorkMoves, ZenonT(60) DEF Base, Work, Loop, Claim, Load, Lock, Copy, Record
    <3> QED BY <2>2, <3>1 DEF LoadedInv, Good
  <2>3. CASE v # w
    <3>1. /\ work'[v] = work[v] /\ work[v].file \in DOMAIN built
          /\ Good(built[work[v].file], work[v].file, cfg)
      BY <1>1, <1>3, <2>3 DEF LoadedInv, Good
    <3>2. CASE Compile(w)
      <4>1. work[v].file # work[w].file
        BY <1>3, <2>3, <3>1, <3>2, WorkMoves, OtherFile DEF Base, Claimed
      <4>2. built' = built \/ \E o : built' = Put(built, work[w].file, o)
        BY <3>2 DEF Compile
      <4> QED BY <3>1, <4>1, <4>2 DEF Put
    <3>3. CASE ~Compile(w)
      BY <3>1, <3>3 DEF Work, Loop, Claim, Load, Lock, Copy, Record
    <3> QED BY <3>2, <3>3
  <2> QED BY <2>1, <2>2, <2>3
<1>4. ASSUME NEW v \in Worker, work'[v].pc = "record"
      PROVE  object'[work'[v].file] = built'[work'[v].file]
  <2>1. CASE v = w
    <3>1. Copy(w) /\ work'[w].file = work[w].file
      BY <1>4, <2>1, WorkMoves DEF Base, Work
    <3>2. object' = Put(object, work[w].file, built[work[w].file]) /\ built' = built
      BY <3>1 DEF Copy
    <3> QED BY <2>1, <3>1, <3>2 DEF Put
  <2>2. CASE v # w
    <3>1. /\ work'[v] = work[v] /\ object[work[v].file] = built[work[v].file]
          /\ work[v].file \in DOMAIN object /\ work[v].file \in DOMAIN built
      BY <1>1, <1>4, <2>2 DEF LoadedInv, Base, RecordInv
    <3>2. CASE Compile(w) \/ Copy(w)
      <4>1. work[v].file # work[w].file
        BY <1>4, <2>2, <3>1, <3>2, WorkMoves, OtherFile DEF Base, Claimed
      <4>2. built' = built \/ \E o : built' = Put(built, work[w].file, o)
        BY <3>2 DEF Compile, Copy
      <4>3. object' = object \/ \E o : object' = Put(object, work[w].file, o)
        BY <3>2 DEF Compile, Copy, buildCache
      <4> QED BY <3>1, <4>1, <4>2, <4>3 DEF Put
    <3>3. CASE ~Compile(w) /\ ~Copy(w)
      BY <3>1, <3>3 DEF Work, Loop, Claim, Load, Lock, Record, buildCache
    <3> QED BY <3>2, <3>3
  <2> QED BY <2>1, <2>2
<1>5. \A v \in Worker : Loaded(v)' => work'[v].text = source'[work'[v].file]
  BY <1>1, <1>2 DEF Loaded, LoadedInv
<1> QED BY <1>1, <1>3, <1>4, <1>5 DEF LoadedInv, Good

\* A worker copies and records what it compiled.
LEMMA WorkKeepsTexts ==
  ASSUME SoundInv, NEW w \in Worker, Work(w)
  PROVE  TextsInv'
<1> USE DEF SoundInv, BuildInv, CrashInv
<1> DEFINE f == work[w].file
<1>1. /\ stage = "compile" /\ UNCHANGED <<stage, source, mtime, clock, cfg, deps, hash>>
      /\ \A v \in Worker : v # w => work'[v] = work[v]
  BY WorkMoves DEF Base, sources, plan
<1>2. CASE Record(w)
  <2> DEFINE kept == IF manifest.cfg = cfg THEN manifest.entry ELSE NoMap
             r == [hash |-> hash[f], mtime |-> mtime[f]]
  <2>1. /\ work[w].pc = "record" /\ work[w].seen = manifest /\ f \in deps /\ f \in File
        /\ object[f] = built[f] /\ f \in DOMAIN built /\ Good(built[f], f, cfg)
    BY <1>2, WorkMoves DEF Base, BuildTypeOK, ApartInv, RecordInv, Claimed, LoadedInv
  <2>2. manifest' = [cfg |-> cfg, entry |-> Put(kept, f, r)] /\ objPath' = Put(objPath, f, "build")
        /\ UNCHANGED <<object, built>>
    BY <1>2, <2>1 DEF Record
  <2>3. manifest'.entry = Put(kept, f, r) /\ manifest'.cfg = cfg
    BY <2>2
  <2>4. \A g \in DOMAIN kept : g \in DOMAIN manifest.entry /\ kept[g] = manifest.entry[g] /\ manifest.cfg = cfg
    BY EmptyMap
  <2>5. /\ r.hash = source[f] /\ r.mtime = mtime[f] /\ mtime[f] \in Nat /\ mtime[f] <= clock
        /\ object[f].text = r.hash /\ object[f].cfg = cfg
    BY <1>1, <2>1 DEF LoadedInv, TextsInv, Good, Base, BuildTypeOK
  <2> HIDE DEF f, kept, r
  <2>6. ASSUME NEW g \in DOMAIN manifest'.entry
        PROVE  LET e == manifest'.entry[g] IN
               /\ e.mtime \in Nat /\ e.mtime <= clock /\ (e.mtime = mtime[g] => e.hash = source[g])
               /\ \/ object[g].text = e.hash /\ object[g].cfg = cfg
                  \/ \E v \in Worker : work'[v].pc = "record" /\ work'[v].file = g
    <3>1. CASE g = f
      BY <2>3, <2>5, <3>1 DEF Put
    <3>2. CASE g # f
      <4>1. g \in DOMAIN manifest.entry /\ manifest'.entry[g] = manifest.entry[g] /\ manifest.cfg = cfg
        BY <2>3, <2>4, <2>6, <3>2 DEF Put
      <4>2. \A v \in Worker : work[v].file = g => v # w
        BY <3>2 DEF f
      <4> QED BY <1>1, <4>1, <4>2 DEF TextsInv
    <3> QED BY <3>1, <3>2
  <2>7. ASSUME NEW g \in DOMAIN objPath'
        PROVE  Good(object[g], g, cfg) /\ (objPath'[g] # "cache" => g \in DOMAIN built /\ object[g] = built[g])
    BY <2>1, <2>2, <2>7 DEF Put, TextsInv
  <2> QED BY <1>1, <2>2, <2>3, <2>6, <2>7 DEF TextsInv, Good
<1>3. CASE Copy(w) \/ Compile(w)
  <2>1. /\ work[w].pc # "record" /\ f \notin DOMAIN objPath
        /\ UNCHANGED <<manifest, objPath>>
        /\ Copy(w) => work'[w].pc = "record" /\ work'[w].file = f
    BY <1>3, WorkMoves DEF Base, ApartInv, WorkersExclude, Claimed, Copy, Compile, buildCache
  <2>2. \A g : g # f => (g \in DOMAIN object => object'[g] = object[g])
                     /\ (g \in DOMAIN built => g \in DOMAIN built' /\ built'[g] = built[g])
    BY <1>3 DEF Copy, Compile, buildCache, Put
  <2>3. Compile(w) => object' = object
    BY DEF Compile, buildCache
  <2>4. DOMAIN manifest.entry \subseteq DOMAIN object /\ DOMAIN objPath \subseteq DOMAIN object
    BY DEF ManifestInv
  <2> HIDE DEF f
  <2>5. ASSUME NEW g \in DOMAIN manifest.entry
        PROVE  LET e == manifest.entry[g] IN
               /\ e.mtime \in Nat /\ e.mtime <= clock /\ (e.mtime = mtime[g] => e.hash = source[g])
               /\ \/ object'[g].text = e.hash /\ object'[g].cfg = manifest.cfg
                  \/ \E v \in Worker : work'[v].pc = "record" /\ work'[v].file = g
    <3>1. CASE g = f /\ Copy(w)
      BY <2>1, <3>1 DEF TextsInv
    <3>2. CASE g # f \/ Compile(w)
      BY <1>1, <2>1, <2>2, <2>3, <2>4, <3>2 DEF TextsInv
    <3> QED BY <1>3, <3>1, <3>2
  <2>6. ASSUME NEW g \in DOMAIN objPath
        PROVE  /\ Good(object'[g], g, cfg)
               /\ objPath[g] # "cache" => g \in DOMAIN built' /\ object'[g] = built'[g]
    <3>1. g # f /\ g \in DOMAIN object
      BY <2>1, <2>4
    <3> QED BY <2>2, <3>1 DEF TextsInv
  <2> QED BY <1>1, <2>1, <2>5, <2>6 DEF TextsInv, Good
<1>4. CASE ~Record(w) /\ ~Copy(w) /\ ~Compile(w)
  <2>1. work[w].pc # "record" /\ UNCHANGED <<manifest, objPath, object, built>>
    BY <1>4, WorkMoves, ZenonT(60) DEF Base, Work, Loop, Claim, Load, Lock, buildCache
  <2> QED BY <1>1, <2>1 DEF TextsInv, Good
<1> QED BY <1>2, <1>3, <1>4

\* Every step keeps the cache sound, when edits come between the builds only.
LEMMA SoundStep ==
  ASSUME Quiet, SoundInv, [Next]_vars
  PROVE  SoundInv'
<1> USE DEF SoundInv
<1>1. BuildInv'
  BY BuildStep
<1>2. CASE Stay
  <2>1. UNCHANGED <<source, mtime, clock, manifest, object, cfg, deps, hash, dirty, work, built, objPath>>
    BY <1>2, StayMoves DEF sources, buildCache, plan, pool
  <2>2. stage' \in {"idle", "check"} <=> stage \in {"idle", "check"}
    BY <1>2, StayMoves
  <2>3. stage' = "idle" <=> stage = "idle"
    BY <1>2, StayMoves
  <2>4. LoadedInv'
    BY <2>1, <2>2, <2>3 DEF LoadedInv, Loaded, Good
  <2>5. TextsInv'
    BY <2>1 DEF TextsInv, Good
  <2> QED BY <1>1, <2>4, <2>5
<1>3. CASE EndBuild
  <2>1. /\ stage' = "idle" /\ objPath' = NoMap /\ UNCHANGED <<source, mtime, clock, manifest, object>>
        /\ \A w \in Worker : work'[w].pc = "out"
    BY <1>3, LeaveMoves, AllOutShape DEF Leave, sources, buildCache
  <2>2. \A w \in Worker : work[w].pc = "out"
    <3>1. stage # "compile" \/ \A w \in Worker : work[w].pc = "out"
      BY <1>3 DEF EndBuild, ReturnUpToDate, LinkCached, Link, LinkFails, Join
    <3> QED BY <3>1, AllOutShape DEF BuildInv, CrashInv, Base, LocalsInv
  <2>3. LoadedInv'
    BY <2>1 DEF LoadedInv, Loaded
  <2>4. TextsInv'
    BY <2>1, <2>2, EmptyMap DEF TextsInv
  <2> QED BY <1>1, <2>3, <2>4
<1>4. CASE Check
  <2>1. /\ stage = "check" /\ hash' = [f \in deps |-> CurrentHash(f)] /\ todo' \subseteq deps
        /\ objPath' = [f \in deps \ todo' |-> "cache"]
        /\ UNCHANGED <<source, mtime, clock, cfg, deps, dirty, manifest, object, built>>
        /\ \A w \in Worker : work'[w].pc \in {"out", "loop"}
    BY <1>4, AllOutShape DEF Check, NeedsRecompile, NeedsResema, sources, buildCache
  <2>2. \A w \in Worker : work[w].pc = "out"
    BY <2>1, AllOutShape DEF BuildInv, CrashInv, Base, LocalsInv
  <2>3. \A f \in deps : CurrentHash(f) = source[f]
    BY DEF CurrentHash, TextsInv
  <2>4. LoadedInv'
    BY <2>1, <2>3 DEF LoadedInv, Loaded
  <2>5. \A f \in deps \ todo' : Good(object[f], f, cfg)
    BY <1>4, <2>2, <2>3, CachedFiles DEF TextsInv, Good
  <2>6. TextsInv'
    BY <2>1, <2>2, <2>5 DEF TextsInv, Good
  <2> QED BY <1>1, <2>4, <2>6
<1>5. ASSUME NEW f \in File, NEW x \in FileTexts[f], Edit(f, x) PROVE SoundInv'
  <2>1. /\ stage = "idle" /\ stage' = stage /\ source' = [source EXCEPT ![f] = x]
        /\ clock' = clock + 1 /\ mtime' = [mtime EXCEPT ![f] = clock']
        /\ UNCHANGED <<manifest, object, work, built, objPath, cfg>>
    BY <1>5 DEF Edit, Quiet, buildCache, plan, pool
  <2>2. objPath = NoMap /\ \A w \in Worker : work[w].pc = "out"
    BY <2>1, AllOutShape DEF BuildInv, CrashInv, Base, LocalsInv
  <2>3. LoadedInv'
    BY <2>1, <2>2 DEF LoadedInv, Loaded
  <2>4. /\ source \in [File -> FileText] /\ mtime \in [File -> Nat] /\ clock \in Nat
        /\ DOMAIN manifest.entry \subseteq File
    BY DEF BuildInv, CrashInv, Base, BuildTypeOK
  <2>5. \A g \in DOMAIN manifest.entry : manifest.entry[g].mtime = mtime'[g] => g # f
    BY <2>1, <2>4 DEF TextsInv
  <2>6. \A g \in File : (g # f => source'[g] = source[g] /\ mtime'[g] = mtime[g]) /\ mtime'[g] <= clock'
    BY <2>1, <2>4 DEF TextsInv
  <2>7. \A g \in DOMAIN manifest.entry : manifest.entry[g].mtime <= clock'
    BY <2>1, <2>4 DEF TextsInv
  <2>8. TextsInv'
    BY <2>1, <2>2, <2>4, <2>5, <2>6, <2>7, EmptyMap DEF TextsInv
  <2> QED BY <1>1, <2>3, <2>8
<1>6. ASSUME NEW c \in Config, NEW rebuild \in BOOLEAN, StartBuild(c, rebuild) PROVE SoundInv'
  <2>1. /\ stage = "idle" /\ stage' = "check" /\ dirty' = FALSE /\ clock' = clock + 1
        /\ UNCHANGED <<source, mtime, work, built, objPath>>
    BY <1>6 DEF StartBuild, pool
  <2>2. objPath = NoMap /\ \A w \in Worker : work[w].pc = "out"
    BY <2>1, AllOutShape DEF BuildInv, CrashInv, Base, LocalsInv
  <2>3. LoadedInv'
    BY <2>1, <2>2 DEF LoadedInv, Loaded
  <2>4. /\ manifest' = [cfg |-> manifest.cfg, entry |-> Keep(manifest.entry, deps')]
        /\ object' = Keep(object, File \ (DOMAIN manifest.entry \ deps'))
    <3>1. Prune(deps')
      BY <1>6 DEF StartBuild
    <3> QED BY <3>1 DEF Prune, BuildInv, CrashInv, Base, BuildTypeOK
  <2>5. manifest'.cfg = manifest.cfg /\ manifest'.entry = Keep(manifest.entry, deps')
    BY <2>4
  <2>6. \A g \in DOMAIN manifest'.entry :
          /\ g \in DOMAIN manifest.entry /\ manifest'.entry[g] = manifest.entry[g]
          /\ object'[g] = object[g]
    BY <2>4, <2>5 DEF Keep, BuildInv, CrashInv, ManifestInv, Base, BuildTypeOK
  <2>7. /\ clock \in Nat /\ \A g \in File : mtime[g] \in Nat
    BY DEF BuildInv, CrashInv, Base, BuildTypeOK
  <2>8. TextsInv'
    BY <2>1, <2>2, <2>5, <2>6, <2>7, EmptyMap DEF TextsInv
  <2> QED BY <1>1, <2>3, <2>8
<1>7. ASSUME NEW w \in Worker, Work(w) PROVE SoundInv'
  BY <1>1, <1>7, WorkKeepsLoaded, WorkKeepsTexts
<1>8. [Next]_vars => \/ Stay \/ EndBuild \/ Check
                     \/ \E f \in File : \E x \in FileTexts[f] : Edit(f, x)
                     \/ \E c \in Config, rebuild \in BOOLEAN : StartBuild(c, rebuild)
                     \/ \E w \in Worker : Work(w)
  BY DEF Next, Driver, Stay, EndBuild
<1> QED BY <1>2, <1>3, <1>4, <1>5, <1>6, <1>7, <1>8

\* When files are edited between the builds only, what the next check trusts is so.
THEOREM CacheIsSound == "editInBuild" \notin Env => (Spec => []CacheSound)
<1>1. Init => SoundInv
  BY BuildInit, WarmInit, EntriesInit, SoundInit DEF SoundInv, BuildInv, CrashInv
<1>2. Quiet /\ SoundInv /\ [Next]_vars => SoundInv'
  BY SoundStep
<1>3. SoundInv => CacheSound
  BY DEF SoundInv, BuildInv, CrashInv, Base, ApartInv, ManifestInv, TextsInv, CacheSound
<1>4. Quiet => (Spec => []SoundInv)
  <2> SUFFICES ASSUME Quiet PROVE Spec => []SoundInv
    OBVIOUS
  <2>1. SoundInv /\ [Next]_vars => SoundInv'
    BY <1>2
  <2> QED BY <1>1, <2>1, PTL DEF Spec
<1> QED BY <1>3, <1>4, PTL DEF Quiet

-----------------------------------------------------------------------------
(* The executables.                                                          *)

\* An image of the texts of now is that of the files of the program,
LEMMA ImageOfScan ==
  ASSUME source \in [File -> FileText], NEW m, DOMAIN m = Scan(source),
         \A f \in DOMAIN m : m[f].text = source[f]
  PROVE  Image(m)
<1>1. /\ Entry \in DOMAIN m /\ DOMAIN m \subseteq File
      /\ \A f \in DOMAIN m : m[f].text.imports \subseteq DOMAIN m
  BY ScanClosed, ReachInFile
<1>2. ASSUME NEW S \in SUBSET File, Entry \in S, \A f \in S \cap DOMAIN m : m[f].text.imports \subseteq S,
             NEW f \in DOMAIN m
      PROVE  f \in S
  <2> DEFINE R == S \cap Scan(source)
  <2>1. R \in SUBSET File /\ Entry \in R
    BY <1>2, ScanClosed
  <2>2. \A g \in R : source[g].imports \subseteq R
    BY <1>2, ScanClosed
  <2> HIDE DEF R
  <2>3. f \in R
    BY <2>1, <2>2 DEF Scan, Reach
  <2> QED BY <2>3 DEF R
<1> QED BY <1>1, <1>2 DEF Image

\* and the other way around.
LEMMA ImageIsScan ==
  ASSUME source \in [File -> FileText], NEW m, Image(m),
         \A f \in Scan(source) \cap DOMAIN m : m[f].text = source[f]
  PROVE  DOMAIN m = Scan(source)
<1> DEFINE R == Scan(source) \cap DOMAIN m
<1>1. R \in SUBSET File /\ Entry \in R
  BY ScanClosed, ReachInFile DEF Image
<1>2. \A g \in R : source[g].imports \subseteq R
  BY ScanClosed DEF Image
<1>3. \A g \in R : m[g].text.imports \subseteq R
  BY <1>2
<1>4. R \cap DOMAIN m = R
  OBVIOUS
<1> HIDE DEF R
<1>5. Scan(source) \subseteq R
  BY <1>1, <1>2 DEF Scan, Reach
<1>6. DOMAIN m \subseteq R
  BY <1>1, <1>3, <1>4 DEF Image
<1> QED BY <1>5, <1>6 DEF R

\* What linkObjects links.
Linkable == [f \in deps |-> IF objPath[f] = "cache" THEN object[f] ELSE built[f]]

\* It is of the files of the program, from their texts of now.
LEMMA LinkableFiles ==
  ASSUME SoundInv, stage \in {"cached", "link"}
  PROVE  /\ deps = Scan(source) /\ DOMAIN Linkable = deps
         /\ \A f \in deps : f \in DOMAIN object /\ Linkable[f] = object[f] /\ Good(object[f], f, cfg)
<1>1. deps = Scan(source) /\ deps = DOMAIN objPath
  BY DEF SoundInv, LoadedInv, BuildInv, CrashInv, CoverInv
<1>2. \A f \in deps : f \in DOMAIN object /\ Good(object[f], f, cfg)
  BY <1>1 DEF SoundInv, TextsInv, BuildInv, CrashInv, ManifestInv
<1>3. \A f \in deps : Linkable[f] = object[f]
  BY <1>1 DEF SoundInv, TextsInv, Linkable
<1> QED BY <1>1, <1>2, <1>3 DEF Linkable

\* The steps that link.
Links == LinkCached \/ Link

\* They put it in place of the executable, and time it.
LEMMA LinkMoves ==
  ASSUME Links
  PROVE  /\ stage \in {"cached", "link"} /\ stage' = "idle" /\ result' = "ok"
         /\ exe' = Put(exe, cfg, Linkable) /\ exeTime' = Put(exeTime, cfg, clock)
         /\ UNCHANGED <<source, mtime, clock, manifest, object, objTime, cfg, dirty>> /\ built' = NoMap
BY DEF Links, LinkCached, Link, Linked, Return, Linkable, sources, buildCache

\* No other step changes an executable.
LEMMA OthersKeepExe ==
  ASSUME [Next]_vars, ~Links
  PROVE  UNCHANGED exes
BY ZenonT(60)
    DEF Next, Driver, Work, Links, vars, Edit, StartBuild, Check, ReturnUpToDate, LinkCachedFails,
        Join, LinkFails, Loop, Claim, Load, Compile, Lock, Copy, Record, exes

\* Every new object is compiled by a worker, now.
LEMMA ObjectsCome ==
  ASSUME SoundInv, [Next]_vars, NEW o, IsObject(o)'
  PROVE  \/ IsObject(o)
         \/ \E w \in Worker : /\ work[w].pc = "compile" /\ work[w].text.ok
                              /\ o = Compiled(work[w].text, source, cfg) /\ source' = source
<1>1. ASSUME NEW f \in DOMAIN object', o = object'[f] PROVE IsObject(o)
  <2>1. CASE \E w \in Worker : Copy(w)
    <3>1. PICK w \in Worker : Copy(w)
      BY <2>1
    <3>2. work[w].file \in DOMAIN built /\ object' = Put(object, work[w].file, built[work[w].file])
      BY <3>1, WorkMoves DEF Work, Copy, SoundInv, LoadedInv, BuildInv, CrashInv, Base
    <3> QED BY <1>1, <3>2 DEF Put, IsObject
  <2>2. CASE \E c \in Config, rebuild \in BOOLEAN : StartBuild(c, rebuild)
    <3>1. PICK S : object' = Keep(object, S)
      BY <2>2 DEF StartBuild, Prune
    <3> QED BY <1>1, <3>1 DEF Keep, IsObject
  <2>3. CASE object' = object
    BY <1>1, <2>3 DEF IsObject
  <2> QED BY <2>1, <2>2, <2>3, ZenonT(60)
      DEF Next, Driver, Work, vars, buildCache, Edit, Check, ReturnUpToDate, LinkCached,
          LinkCachedFails, Join, Link, LinkFails, Loop, Claim, Load, Compile, Lock, Record
<1>2. ASSUME NEW f \in DOMAIN built', o = built'[f]
      PROVE  \/ IsObject(o)
             \/ \E w \in Worker : /\ work[w].pc = "compile" /\ work[w].text.ok
                                  /\ o = Compiled(work[w].text, source, cfg) /\ source' = source
  <2>1. CASE \E w \in Worker : Compile(w)
    <3>1. PICK w \in Worker : Compile(w)
      BY <2>1
    <3>2. work[w].pc = "compile" /\ source' = source
      BY <3>1 DEF Compile, Step, sources
    <3>3. CASE built' = built
      BY <1>2, <3>3 DEF IsObject
    <3>4. CASE work[w].text.ok /\ built' = Put(built, work[w].file, Compiled(work[w].text, source, cfg))
      BY <1>2, <3>2, <3>4 DEF Put, IsObject
    <3> QED BY <3>1, <3>3, <3>4 DEF Compile
  <2>2. CASE built' = built
    BY <1>2, <2>2 DEF IsObject
  <2>3. CASE built' = NoMap
    BY <1>2, <2>3, EmptyMap
  <2> QED BY <2>1, <2>2, <2>3, ZenonT(60)
      DEF Next, Driver, Work, vars, pool, Edit, StartBuild, Check, ReturnUpToDate, LinkCached,
          LinkCachedFails, Join, Link, LinkFails, Loop, Claim, Load, Lock, Copy, Record, Return
<1>3. ASSUME NEW c \in DOMAIN exe', NEW f \in DOMAIN exe'[c], o = exe'[c][f] PROVE IsObject(o)
  <2>1. CASE Links
    <3>1. stage \in {"cached", "link"} /\ exe' = Put(exe, cfg, Linkable)
      BY <2>1, LinkMoves
    <3>2. CASE c = cfg
      <4>1. exe'[c] = Linkable
        BY <3>1, <3>2 DEF Put
      <4>2. f \in DOMAIN object /\ o = object[f]
        BY <1>3, <3>1, <4>1, LinkableFiles
      <4> QED BY <4>2 DEF IsObject
    <3>3. CASE c # cfg
      BY <1>3, <3>1, <3>3 DEF Put, IsObject
    <3> QED BY <3>2, <3>3
  <2>2. CASE ~Links
    BY <1>3, <2>2, OthersKeepExe DEF exes, IsObject
  <2> QED BY <2>1, <2>2
<1> QED BY <1>1, <1>2, <1>3 DEF IsObject

FreshInv == SoundInv /\ ObjectsInv /\ ExeInv /\ LinkedTexts

\* At first there is no object.
LEMMA FreshInit == Init => ObjectsInv /\ UsesInv /\ ExeInv /\ LinkedTexts
<1> SUFFICES ASSUME Init PROVE ObjectsInv /\ UsesInv /\ ExeInv /\ LinkedTexts
  OBVIOUS
<1>1. DOMAIN object = {} /\ DOMAIN built = {} /\ DOMAIN exe = {} /\ result = "none"
  BY EmptyMap DEF Init
<1> QED BY <1>1 DEF ObjectsInv, UsesInv, IsObject, ExeInv, LinkedTexts, Succeeded

\* Every object is of an accepted text.
LEMMA ObjectsStep ==
  ASSUME SoundInv, ObjectsInv, [Next]_vars
  PROVE  ObjectsInv'
<1> SUFFICES ASSUME NEW o, IsObject(o)' PROVE o.text \in FileText /\ o.text.ok
  BY DEF ObjectsInv
<1>1. ASSUME NEW w \in Worker, work[w].pc = "compile", work[w].text.ok, o = Compiled(work[w].text, source, cfg)
      PROVE  o.text \in FileText /\ o.text.ok
  <2>1. work[w].text \in FileText
    BY <1>1 DEF SoundInv, BuildInv, EntriesInv, Loaded
  <2>2. o.text = work[w].text
    BY <1>1 DEF Compiled
  <2> QED BY <1>1, <2>1, <2>2
<1> QED BY <1>1, ObjectsCome DEF ObjectsInv

\* Every executable stays an image, and an object written after it is newer.
LEMMA ExeStep ==
  ASSUME SoundInv, ExeInv, [Next]_vars
  PROVE  ExeInv'
<1> SUFFICES ASSUME NEW c \in DOMAIN exe'
             PROVE  /\ c \in DOMAIN exeTime' /\ exeTime'[c] \in Nat /\ exeTime'[c] <= clock'
                    /\ stage' # "idle" => exeTime'[c] < clock'
                    /\ \A f \in DOMAIN exe'[c] \cap DOMAIN object' :
                         objTime'[f] <= exeTime'[c] => object'[f] = exe'[c][f]
                    /\ Image(exe'[c])
  BY DEF ExeInv, Image
<1> USE DEF SoundInv, BuildInv, CrashInv
<1>1. clock \in Nat /\ clock' \in Nat /\ clock <= clock' /\ source \in [File -> FileText]
  <2>1. clock' = clock \/ clock' = clock + 1
    BY ZenonT(60)
        DEF Next, Driver, Work, vars, sources, Edit, StartBuild, Check, ReturnUpToDate,
            LinkCached, LinkCachedFails, Join, Link, LinkFails, Loop, Claim, Load, Compile,
            Lock, Copy, Record
  <2> QED BY <2>1 DEF Base, BuildTypeOK
<1>2. CASE Links /\ c = cfg
  <2>1. /\ stage \in {"cached", "link"} /\ stage' = "idle" /\ object' = object
        /\ exe' = Put(exe, cfg, Linkable) /\ exeTime' = Put(exeTime, cfg, clock) /\ clock' = clock
    BY <1>2, LinkMoves
  <2>2. exe'[c] = Linkable /\ c \in DOMAIN exeTime' /\ exeTime'[c] = clock
    BY <1>2, <2>1 DEF Put
  <2>3. Image(Linkable) /\ \A f \in DOMAIN Linkable : Linkable[f] = object[f]
    BY <1>1, <2>1, LinkableFiles, ImageOfScan DEF Good
  <2> QED BY <1>1, <2>1, <2>2, <2>3
<1>3. CASE Links /\ c # cfg
  <2>1. /\ stage' = "idle" /\ UNCHANGED <<object, objTime, clock>>
        /\ exe' = Put(exe, cfg, Linkable) /\ exeTime' = Put(exeTime, cfg, clock)
    BY <1>3, LinkMoves
  <2>2. c \in DOMAIN exe /\ exe'[c] = exe[c]
    BY <1>3, <2>1 DEF Put
  <2>3. c \in DOMAIN exeTime => c \in DOMAIN exeTime' /\ exeTime'[c] = exeTime[c]
    BY <1>3, <2>1 DEF Put
  <2> QED BY <2>1, <2>2, <2>3 DEF ExeInv
<1>4. CASE ~Links
  <2>1. exe' = exe /\ exeTime' = exeTime
    BY <1>4, OthersKeepExe DEF exes
  <2>2. exeTime[c] \in Nat /\ exeTime[c] <= clock /\ c \in DOMAIN exeTime /\ Image(exe[c])
    BY <2>1 DEF ExeInv
  <2>3. stage' # "idle" => exeTime[c] < clock'
    <3>1. CASE stage = "idle" /\ stage' # "idle"
      <4>1. clock' = clock + 1
        BY <3>1 DEF Next, Driver, Work, vars, sources, Edit, StartBuild, Check, ReturnUpToDate, LinkCached,
                    LinkCachedFails, Join, Link, LinkFails, Loop, Claim, Load, Compile, Lock, Copy, Record, Step
      <4> QED BY <1>1, <2>2, <4>1
    <3>2. CASE stage # "idle"
      BY <1>1, <2>1, <2>2, <3>2 DEF ExeInv
    <3> QED BY <3>1, <3>2
  <2>4. ASSUME NEW f \in DOMAIN exe[c] \cap DOMAIN object', objTime'[f] <= exeTime[c]
        PROVE  object'[f] = exe[c][f]
    <3>1. CASE \E w \in Worker : Copy(w)
      <4>1. PICK w \in Worker : Copy(w)
        BY <3>1
      <4>2. /\ stage = "compile" /\ object' = Put(object, work[w].file, built[work[w].file])
            /\ objTime' = Put(objTime, work[w].file, clock)
        BY <4>1 DEF Copy, Step
      <4>3. exeTime[c] < clock
        BY <2>1, <4>2 DEF ExeInv
      <4>4. f # work[w].file
        BY <1>1, <2>2, <2>4, <4>2, <4>3 DEF Put
      <4> QED BY <2>1, <2>4, <4>2, <4>4 DEF ExeInv, Put, Base, BuildTypeOK
    <3>2. CASE \E d \in Config, rebuild \in BOOLEAN : StartBuild(d, rebuild)
      <4>1. PICK S : object' = Keep(object, S) /\ objTime' = Keep(objTime, S)
        BY <3>2 DEF StartBuild, Prune
      <4> QED BY <2>1, <2>4, <4>1 DEF ExeInv, Keep, Base, BuildTypeOK
    <3>3. CASE object' = object /\ objTime' = objTime
      BY <2>1, <2>4, <3>3 DEF ExeInv
    <3> QED BY <3>1, <3>2, <3>3, ZenonT(60)
        DEF Next, Driver, Work, vars, buildCache, Edit, Check, ReturnUpToDate, LinkCached,
            LinkCachedFails, Join, Link, LinkFails, Loop, Claim, Load, Compile, Lock, Record
  <2> QED BY <1>1, <2>1, <2>2, <2>3, <2>4
<1> QED BY <1>2, <1>3, <1>4

\* A build that succeeds has linked the texts of now, be it by an earlier build.
LEMMA LinkedStep ==
  ASSUME FreshInv, [Next]_vars
  PROVE  LinkedTexts'
<1> USE DEF FreshInv, SoundInv, BuildInv, CrashInv
<1> SUFFICES ASSUME Succeeded'
             PROVE  /\ cfg' \in DOMAIN exe' /\ DOMAIN exe'[cfg'] = Scan(source')
                    /\ \A f \in Scan(source') : exe'[cfg'][f].text = source'[f] /\ exe'[cfg'][f].cfg = cfg'
  BY DEF LinkedTexts
<1>1. source \in [File -> FileText]
  BY DEF Base, BuildTypeOK
<1>2. CASE Links
  <2>1. stage \in {"cached", "link"} /\ exe' = Put(exe, cfg, Linkable) /\ UNCHANGED <<source, cfg>>
    BY <1>2, LinkMoves
  <2>2. cfg \in DOMAIN exe' /\ exe'[cfg] = Linkable
    BY <2>1 DEF Put
  <2> QED BY <2>1, <2>2, LinkableFiles DEF Good
<1>3. CASE ReturnUpToDate
  <2>1. /\ stage = "cached" /\ cfg \in DOMAIN exe /\ UNCHANGED <<source, cfg, exe>>
        /\ \A f \in deps : f \in DOMAIN object /\ objTime[f] <= exeTime[cfg]
    BY <1>3 DEF ReturnUpToDate, UpToDate, Return, sources, exes
  <2>2. deps = Scan(source) /\ \A f \in deps : Good(object[f], f, cfg)
    BY <2>1, LinkableFiles
  <2>3. \A f \in Scan(source) \cap DOMAIN exe[cfg] : exe[cfg][f] = object[f]
    BY <2>1, <2>2 DEF ExeInv
  <2>4. DOMAIN exe[cfg] = Scan(source)
    <3>1. Image(exe[cfg]) /\ \A f \in Scan(source) \cap DOMAIN exe[cfg] : exe[cfg][f].text = source[f]
      BY <2>1, <2>2, <2>3 DEF ExeInv, Good
    <3> QED BY <1>1, <3>1, ImageIsScan
  <2> QED BY <2>1, <2>2, <2>3, <2>4 DEF Good
<1>4. CASE Stay
  <2>1. UNCHANGED <<source, exe, cfg, result, dirty>> /\ stage = "idle"
    BY <1>4, StayMoves DEF Succeeded, sources, exes, plan
  <2> QED BY <2>1 DEF LinkedTexts, Succeeded
<1>5. CASE LinkFails \/ (Join /\ failed) \/ Check
  BY <1>5 DEF LinkFails, Join, Return, Check, Succeeded
<1>6. ASSUME NEW f \in File, NEW x \in FileTexts[f], Edit(f, x) PROVE FALSE
  BY <1>6 DEF Edit, Succeeded
<1>7. ASSUME NEW c \in Config, NEW rebuild \in BOOLEAN, StartBuild(c, rebuild) PROVE FALSE
  BY <1>7 DEF StartBuild, Succeeded
<1>8. ASSUME NEW w \in Worker, Work(w) PROVE FALSE
  BY <1>8, WorkMoves DEF Base, Succeeded
<1> QED BY <1>2, <1>3, <1>4, <1>5, <1>6, <1>7, <1>8 DEF Next, Driver, Links, Stay

\* Every step keeps the executables fresh, when edits come between the builds only.
LEMMA FreshStep == ASSUME Quiet, FreshInv, [Next]_vars PROVE FreshInv'
BY SoundStep, ObjectsStep, ExeStep, LinkedStep DEF FreshInv

\* Hence they are fresh in every such behaviour.
LEMMA FreshSpec == Quiet => (Spec => []FreshInv)
<1> SUFFICES ASSUME Quiet PROVE Spec => []FreshInv
  OBVIOUS
<1>1. Init => FreshInv
  BY BuildInit, WarmInit, EntriesInit, SoundInit, FreshInit DEF FreshInv, SoundInv, BuildInv, CrashInv
<1>2. FreshInv /\ [Next]_vars => FreshInv'
  BY FreshStep
<1> QED BY <1>1, <1>2, PTL DEF Spec

\* When files are edited between the builds only, a build that says it succeeded has
\* linked the texts of now.
THEOREM TextsAreLinked == "editInBuild" \notin Env => (Spec => []LinkedTexts)
<1>1. FreshInv => LinkedTexts
  BY DEF FreshInv
<1> QED BY <1>1, FreshSpec, PTL DEF Quiet

-----------------------------------------------------------------------------
(* Builds are fresh, when besides no edit changes an interface.              *)

NoInterfaces == "interface" \notin Env

\* No step changes an interface.
LEMMA SameInterfaces ==
  ASSUME NoInterfaces, BuildTypeOK, [Next]_vars
  PROVE  \A g \in File : source'[g].iface = source[g].iface
<1>1. ASSUME NEW f \in File, NEW x \in FileTexts[f], Edit(f, x), NEW g \in File
      PROVE  source'[g].iface = source[g].iface
  <2>1. source' = [source EXCEPT ![f] = x] /\ x.iface = source[f].iface
    BY <1>1 DEF Edit, NoInterfaces
  <2> QED BY <2>1 DEF BuildTypeOK
<1>2. CASE source' = source
  BY <1>2
<1> QED BY <1>1, <1>2, ZenonT(60)
    DEF Next, Driver, Work, vars, sources, StartBuild, Check, ReturnUpToDate, LinkCached,
        LinkCachedFails, Join, Link, LinkFails, Loop, Claim, Load, Compile, Lock, Copy, Record

\* Then every object stays compiled against the interfaces of now.
LEMMA UsesStep ==
  ASSUME NoInterfaces, SoundInv, ObjectsInv, UsesInv, [Next]_vars
  PROVE  UsesInv'
<1> SUFFICES ASSUME NEW o, IsObject(o)' PROVE o = Compiled(o.text, source', o.cfg)
  BY DEF UsesInv
<1>1. ASSUME NEW t \in FileText, NEW c PROVE Compiled(t, source', c) = Compiled(t, source, c)
  <2>1. t.imports \subseteq File
    BY SourceAssumption
  <2>2. \A g \in t.imports : source'[g].iface = source[g].iface
    BY <2>1, SameInterfaces DEF SoundInv, BuildInv, CrashInv, Base
  <2> QED BY <2>2 DEF Compiled
<1>2. CASE IsObject(o)
  <2>1. o.text \in FileText /\ o = Compiled(o.text, source, o.cfg)
    BY <1>2 DEF ObjectsInv, UsesInv
  <2> QED BY <2>1, <1>1
<1>3. ASSUME NEW w \in Worker, o = Compiled(work[w].text, source, cfg), source' = source
      PROVE  o = Compiled(o.text, source', o.cfg)
  <2>1. o.text = work[w].text /\ o.cfg = cfg
    BY <1>3 DEF Compiled
  <2> QED BY <1>3, <2>1
<1> QED BY <1>2, <1>3, ObjectsCome

FreshUsesInv == FreshInv /\ UsesInv

\* Hence it is so in every such behaviour.
LEMMA UsesSpec == Quiet /\ NoInterfaces => (Spec => []FreshUsesInv)
<1> SUFFICES ASSUME Quiet, NoInterfaces PROVE Spec => []FreshUsesInv
  OBVIOUS
<1>1. Init => FreshUsesInv
  BY BuildInit, WarmInit, EntriesInit, SoundInit, FreshInit DEF FreshUsesInv, FreshInv, SoundInv, BuildInv, CrashInv
<1>2. FreshUsesInv /\ [Next]_vars => FreshUsesInv'
  BY FreshStep, UsesStep DEF FreshUsesInv, FreshInv
<1> QED BY <1>1, <1>2, PTL DEF Spec

\* When moreover no edit changes an interface, a build that says it succeeded gives what
\* a build from scratch would: the texts of now, compiled against the interfaces of now.
THEOREM BuildsAreFresh == "editInBuild" \notin Env /\ "interface" \notin Env => (Spec => []FreshBuild)
<1>1. FreshUsesInv => FreshBuild
  <2> SUFFICES ASSUME FreshUsesInv PROVE FreshBuild
    OBVIOUS
  <2>1. LinkedTexts
    BY DEF FreshUsesInv, FreshInv
  <2>2. ASSUME Succeeded, NEW f \in DOMAIN exe[cfg], NEW g \in DOMAIN exe[cfg][f].uses
        PROVE  exe[cfg][f].uses[g] = source[g].iface
    <3> DEFINE o == exe[cfg][f]
    <3>1. IsObject(o)
      BY <2>1, <2>2 DEF LinkedTexts, IsObject
    <3>2. o = Compiled(o.text, source, o.cfg)
      BY <3>1 DEF FreshUsesInv, UsesInv
    <3>3. o.uses = [h \in o.text.imports |-> source[h].iface]
      BY <3>2 DEF Compiled
    <3> QED BY <3>3, <2>2
  <2> QED BY <2>1, <2>2 DEF FreshBuild, LinkedInterfaces
<1> QED BY <1>1, UsesSpec, PTL DEF Quiet, NoInterfaces

\* CleanBuild speaks of the same sources.
LEMMA CleanSources ==
  /\ Clean!FileText = FileText
  /\ \A src : Clean!Accepted(Entry, src) <=> Accepted(Entry, src)
  /\ \A src, c : Clean!FromScratch(src, c) = FromScratch(src, c)
<1>1. Clean!FileText = FileText
  BY DEF Clean!FileText, FileText
<1>2. \A f, src : Clean!Reach(f, src) = Reach(f, src)
  BY DEF Clean!Reach, Reach
<1>3. \A src : Clean!Accepted(Entry, src) <=> Accepted(Entry, src)
  BY <1>2 DEF Clean!Accepted, Accepted
<1>4. \A t, src, c : Clean!Compiled(t, src, c) = Compiled(t, src, c)
  BY DEF Clean!Compiled, Compiled
<1>5. \A src : Clean!Scan(src) = Scan(src)
  BY <1>2 DEF Clean!Scan, Scan
<1>6. \A src, c : Clean!FromScratch(src, c) = FromScratch(src, c)
  BY <1>4, <1>5 DEF Clean!FromScratch, FromScratch
<1> QED BY <1>1, <1>3, <1>6

\* What is linked is a build from scratch.
LEMMA LinksClean ==
  ASSUME FreshUsesInv, Links
  PROVE  cfg \in Config /\ Clean!Build(cfg)
<1> USE DEF FreshUsesInv, FreshInv, SoundInv, BuildInv, CrashInv
<1>1. stage \in {"cached", "link"} /\ exe' = Put(exe, cfg, Linkable) /\ source' = source
  BY LinkMoves
<1>2. cfg \in Config
  BY <1>1 DEF Base, BuildTypeOK
<1>3. ASSUME NEW f \in Scan(source)
      PROVE  Linkable[f] = Compiled(source[f], source, cfg) /\ source[f].ok
  <2>1. f \in DOMAIN object /\ Linkable[f] = object[f] /\ object[f].text = source[f] /\ object[f].cfg = cfg
    BY <1>1, LinkableFiles DEF Good
  <2>2. IsObject(object[f])
    BY <2>1 DEF IsObject
  <2> QED BY <2>1, <2>2 DEF ObjectsInv, UsesInv
<1>4. Linkable = FromScratch(source, cfg)
  <2>1. Linkable = [f \in Scan(source) |-> Linkable[f]]
    BY <1>1, LinkableFiles DEF Linkable
  <2> QED BY <2>1, <1>3 DEF FromScratch
<1>5. Accepted(Entry, source)
  BY <1>3 DEF Accepted, Scan
<1>6. exe' = [d \in DOMAIN exe \cup {cfg} |-> IF d = cfg THEN FromScratch(source, cfg) ELSE exe[d]]
  BY <1>1, <1>4 DEF Put
<1> QED BY <1>1, <1>2, <1>5, <1>6, CleanSources DEF Clean!Build

\* Each step is one of CleanBuild or changes neither sources nor executables.
LEMMA StepIsClean ==
  ASSUME FreshUsesInv, [Next]_vars
  PROVE  [Clean!Next]_<<source, exe>>
<1>1. CASE Links
  BY <1>1, LinksClean DEF Clean!Next
<1>2. ASSUME NEW f \in File, NEW x \in FileTexts[f], Edit(f, x) PROVE Clean!Next
  <2>1. source' = [source EXCEPT ![f] = x] /\ exe' = exe /\ x \in FileText
    BY <1>2 DEF Edit, exes, FileText
  <2> QED BY <2>1, CleanSources DEF Clean!Next, Clean!Edit
<1>3. CASE source' = source /\ ~Links
  BY <1>3, OthersKeepExe DEF exes
<1> QED BY <1>1, <1>2, <1>3, ZenonT(60)
    DEF Next, Driver, Work, vars, sources, StartBuild, Check, ReturnUpToDate, LinkCached,
        LinkCachedFails, Join, Link, LinkFails, Loop, Claim, Load, Compile, Lock, Copy, Record

\* Under the same conditions the caches do not show: IncrementalBuild implements CleanBuild.
THEOREM ImplementsCleanBuild == "editInBuild" \notin Env /\ "interface" \notin Env => (Spec => CleanBuildSpec)
<1>1. Init => Clean!Init
  <2> SUFFICES ASSUME Init PROVE Clean!Init
    OBVIOUS
  <2>1. source \in [File -> FileText] /\ exe = NoMap
    BY DEF Init
  <2>2. exe = [c \in {} |-> {}]
    BY <2>1 DEF NoMap
  <2> QED BY <2>1, <2>2, CleanSources DEF Clean!Init
<1>2. FreshUsesInv /\ [Next]_vars => [Clean!Next]_<<source, exe>>
  BY StepIsClean
<1> QED BY <1>1, <1>2, UsesSpec, PTL DEF Quiet, NoInterfaces, Spec, CleanBuildSpec, Clean!Spec

-----------------------------------------------------------------------------
(***************************************************************************)
(* Proofs about PackageManager, for any registry, manifests and requests,    *)
(* and any number of commands, failures and kills.                           *)
(*                                                                         *)
(* The resolution marks a package before it treats what the package needs.   *)
(* So the packages on the way are among the resolved (MarkedInv), and what   *)
(* a resolved package needs is resolved or still to be treated (TreeInv):    *)
(* when nothing is left the resolved are closed under need, and nothing that *)
(* is not in every closed set was ever put in.                               *)
(***************************************************************************)

IsRelease(p, v) == p \in Packages /\ v \in Releases[p]

\* The dependencies at level i of the recursion.
Deps(i) == pending[i].deps

\* The variables.
PkgBase ==
  /\ PkgTypeOK
  /\ disk = [p \in Packages |-> disk[p]]
  /\ \A d \in wanted : d.name \in Packages
  /\ command = [op |-> command.op, dep |-> command.dep, outcome |-> command.outcome,
                faulty |-> command.faulty, at |-> command.at]
  /\ command.op = "install" => command.dep.name \in Packages
  /\ command.op \in {"build", "install", "remove"}

\* The stack of the recursion while a command runs.
StackInv ==
  command.outcome = "running" =>
    /\ Len(pending) \in Nat \ {0} /\ command.op \in {"build", "install"}
    /\ \E S : pending \in Seq(S)
    /\ \A i \in 1..Len(pending) :
         pending[i] = [of |-> pending[i].of, deps |-> Deps(i)] /\ \A d \in Deps(i) : d.name \in Packages

\* What is resolved is a sequence of releases, of different packages.
ResolvedInv ==
  /\ \E S : resolved \in Seq(S)
  /\ \A i \in 1..Len(resolved) :
       resolved[i] = <<resolved[i][1], resolved[i][2]>> /\ IsRelease(resolved[i][1], resolved[i][2])
  /\ \A i, j \in 1..Len(resolved) : resolved[i][1] = resolved[j][1] => i = j

\* A package on the way is resolved already.
MarkedInv == resolving \subseteq ResolvedNames

PkgInv == PkgBase /\ StackInv /\ ResolvedInv /\ MarkedInv /\ RefusedForAReason

\* A resolution runs, or was the last thing done.
Current == command.outcome = "running" \/ (command.op = "build" /\ command.outcome = "ok")

\* What it started from.
Goal == IF command.op = "build" THEN wanted ELSE {command.dep}

\* Something left to be treated.
Waiting(d) == command.outcome = "running" /\ \E i \in 1..Len(pending) : d \in Deps(i)

IsResolved(r) == r \in ToSet(resolved)

\* What the command or a resolved package depends on.
Meant(d) == d \in Goal \/ \E r : IsResolved(r) /\ d \in Requires[r]

\* packages/ holds what is resolved, and each for a dependency somebody has.
OnDisk == \A r : IsResolved(r) => disk[r[1]] = r[2]
ForSomebody ==
  /\ \A r : IsResolved(r) => \E d : Meant(d) /\ d.name = r[1] /\ SatisfiedBy(d.constraint, r[2])
  /\ \A d : Waiting(d) => Meant(d)

\* Nothing that is needed so far is forgotten.
NoneForgotten == \A d : Meant(d) => d.name \in ResolvedNames \/ Waiting(d)

\* names holds what is needed, as far as it is known by now.
Meets(names) ==
  /\ \A d \in Goal : d.name \in names
  /\ \A r : IsResolved(r) /\ r[1] \in names => \A d \in Requires[r] : d.name \in names

\* Nothing is resolved, or waits, that need not be.
NoneElse ==
  \A names : Meets(names) => ResolvedNames \subseteq names /\ \A d : Waiting(d) => d.name \in names

TreeInv == Current => OnDisk /\ ForSomebody /\ NoneForgotten /\ NoneElse

\* What a build that went on has written.
LockInv ==
  command.op = "build" /\ command.outcome = "ok" =>
    (wanted # {} => lock = ToSet(resolved))

-----------------------------------------------------------------------------
(* Versions.                                                                 *)

\* Below is a strict order.
LEMMA BelowOrders ==
  ASSUME NEW u \in Version, NEW v \in Version, NEW w \in Version
  PROVE  ~Below(u, u) /\ (Below(u, v) /\ Below(v, w) => Below(u, w))
BY DEF Version, Below

\* queryRegistry finds a best release when there is an acceptable one.
LEMMA BestIsAcceptable ==
  ASSUME NEW d, d.name \in Packages, Acceptable(d) # {}
  PROVE  Best(d) \in Acceptable(d)
<1> DEFINE A == Acceptable(d)
           Better(v) == {w \in A : Below(v, w)}
           T == {Better(v) : v \in A}
<1>1. A \in SUBSET Releases[d.name] /\ IsFiniteSet(Releases[d.name]) /\ A \subseteq Version
  BY PackagesAssumption DEF Acceptable
<1>2. IsFiniteSet(A) /\ A # {}
  <2> HIDE DEF A
  <2>1. IsFiniteSet(A)
    BY <1>1, FS_Subset
  <2> QED BY <2>1 DEF A
<1> HIDE DEF A
<1>3. T \subseteq FiniteSubsetsOf(A) /\ T # {}
  <2>1. \A v \in A : Better(v) \in SUBSET A
    OBVIOUS
  <2>2. \A v \in A : IsFiniteSet(Better(v))
    BY <1>2, <2>1, FS_Subset
  <2> QED BY <1>2, <2>1, <2>2 DEF FiniteSubsetsOf
<1>4. PICK X \in T : \A Y \in T : <<Y, X>> \notin StrictSubsetOrdering(A)
  <2> HIDE DEF T
  <2> QED BY <1>2, <1>3, WFMin, FS_StrictSubsetOrderingWellFounded
<1>5. PICK v \in A : X = Better(v)
  OBVIOUS
<1>6. \A w \in A : ~Below(v, w)
  <2> SUFFICES ASSUME NEW w \in A, Below(v, w) PROVE FALSE
    OBVIOUS
  <2>1. w \in Better(v) /\ w \notin Better(w)
    BY <1>1, BelowOrders
  <2>2. \A x \in Better(w) : x \in Better(v)
    BY <1>1, BelowOrders
  <2>3. Better(w) \in SUBSET A /\ Better(v) \in SUBSET A /\ Better(w) \in T
    OBVIOUS
  <2> HIDE DEF Better, T
  <2>4. <<Better(w), Better(v)>> \in StrictSubsetOrdering(A)
    BY <2>1, <2>2, <2>3 DEF StrictSubsetOrdering
  <2> QED BY <1>4, <1>5, <2>3, <2>4
<1>7. \E x \in A : \A w \in A : ~Below(x, w)
  BY <1>6
<1> QED BY <1>7 DEF Best, A

\* What Local or Fetch takes is a release that satisfies the constraint.
LEMMA TakenIsRelease ==
  ASSUME PkgBase, NEW d, d.name \in Packages
  PROVE  /\ Local(d) => IsRelease(d.name, disk[d.name]) /\ SatisfiedBy(d.constraint, disk[d.name])
         /\ Acceptable(d) # {} => IsRelease(d.name, Best(d)) /\ SatisfiedBy(d.constraint, Best(d)) /\ Best(d) # NoVersion
<1>1. disk[d.name] \in Releases[d.name] \cup {NoVersion}
  BY DEF PkgBase, PkgTypeOK
<1>2. Local(d) => IsRelease(d.name, disk[d.name]) /\ SatisfiedBy(d.constraint, disk[d.name])
  BY <1>1 DEF Local, IsRelease
<1>3. Acceptable(d) # {} => Best(d) \in Releases[d.name] /\ SatisfiedBy(d.constraint, Best(d))
  BY BestIsAcceptable DEF Acceptable
<1> QED BY <1>2, <1>3, PackagesAssumption DEF IsRelease
-----------------------------------------------------------------------------
(* The two sequences.                                                        *)

\* The resolved and their names, by position.
LEMMA ResolvedAre ==
  ASSUME NEW S, resolved \in Seq(S)
  PROVE  /\ \A r : IsResolved(r) <=> \E i \in 1..Len(resolved) : resolved[i] = r
         /\ \A p : p \in ResolvedNames <=> \E i \in 1..Len(resolved) : resolved[i][1] = p
BY DEF IsResolved, ResolvedNames, ToSet

\* What descending into a package adds to the resolved.
LEMMA ResolvedGrows ==
  ASSUME ResolvedInv, NEW d, NEW v, IsRelease(d.name, v), d.name \notin ResolvedNames,
         resolved' = Append(resolved, <<d.name, v>>)
  PROVE  /\ ResolvedInv'
         /\ \A r : (IsResolved(r))' <=> IsResolved(r) \/ r = <<d.name, v>>
         /\ ResolvedNames' = ResolvedNames \cup {d.name}
<1>1. PICK S : resolved \in Seq(S)
  BY DEF ResolvedInv
<1> DEFINE T == S \cup {<<d.name, v>>}
           n == Len(resolved)
<1>2. resolved \in Seq(T) /\ resolved' \in Seq(T) /\ n \in Nat
  BY <1>1
<1>3. Len(resolved') = n + 1 /\ resolved'[n + 1] = <<d.name, v>> /\ \A i \in 1..n : resolved'[i] = resolved[i]
  BY <1>1
<1> HIDE DEF T, n
<1>4. \A i \in 1..Len(resolved') : i \in 1..n \/ i = n + 1
  BY <1>2, <1>3
<1>5. \A r : (IsResolved(r))' <=> \E i \in 1..Len(resolved') : resolved'[i] = r
  BY <1>2 DEF IsResolved, ToSet
<1>6. \A p : p \in ResolvedNames' <=> \E r : (IsResolved(r))' /\ r[1] = p
  BY DEF ResolvedNames, IsResolved
<1>7. \A r : (IsResolved(r))' <=> IsResolved(r) \/ r = <<d.name, v>>
  <2>1. \A r : IsResolved(r) <=> \E i \in 1..n : resolved[i] = r
    BY <1>1, ResolvedAre DEF n
  <2> SUFFICES ASSUME NEW r PROVE (IsResolved(r))' <=> IsResolved(r) \/ r = <<d.name, v>>
    OBVIOUS
  <2>2. ASSUME (IsResolved(r))' PROVE IsResolved(r) \/ r = <<d.name, v>>
    BY <1>3, <1>4, <1>5, <2>1, <2>2
  <2>3. ASSUME IsResolved(r) PROVE (IsResolved(r))'
    BY <1>2, <1>3, <1>5, <2>1, <2>3
  <2>4. (IsResolved(<<d.name, v>>))'
    BY <1>2, <1>3, <1>5
  <2> QED BY <2>2, <2>3, <2>4
<1>8. \A p : p \in ResolvedNames' <=> p \in ResolvedNames \cup {d.name}
  <2>1. \A p : p \in ResolvedNames <=> \E r : IsResolved(r) /\ r[1] = p
    BY DEF ResolvedNames, IsResolved
  <2> QED BY ZenonT(90), <1>6, <1>7, <2>1
<1>9. ASSUME NEW i \in 1..Len(resolved'), NEW j \in 1..Len(resolved'), resolved'[i][1] = resolved'[j][1] PROVE i = j
  <2>1. \A k \in 1..n : resolved[k][1] # d.name
    BY <1>1, ResolvedAre DEF n
  <2>2. CASE i \in 1..n /\ j \in 1..n
    BY <1>3, <1>9, <2>2 DEF ResolvedInv, n
  <2>3. CASE i = n + 1 \/ j = n + 1
    BY <1>3, <1>4, <1>9, <2>1, <2>3
  <2> QED BY <1>4, <2>2, <2>3
<1>10. \A i \in 1..Len(resolved') :
         resolved'[i] = <<resolved'[i][1], resolved'[i][2]>> /\ IsRelease(resolved'[i][1], resolved'[i][2])
  BY <1>3, <1>4 DEF ResolvedInv, n
<1>11. ResolvedInv'
  BY <1>2, <1>9, <1>10 DEF ResolvedInv, IsRelease
<1> QED BY <1>7, <1>8, <1>11

\* An element of the stack, and the stack with one more.
IsCall(e) == e = [of |-> e.of, deps |-> e.deps]
IsPush(t, s, e) == t = Append(s, e)

\* A stack of calls.
IsStack(s) ==
  /\ Len(s) \in Nat \ {0} /\ \E S : s \in Seq(S)
  /\ \A i \in 1..Len(s) : s[i] = [of |-> s[i].of, deps |-> s[i].deps]

\* What one treated dependency leaves of it,
LEMMA WithoutIs ==
  ASSUME IsStack(pending), NEW d
  PROVE  /\ IsStack(Without(d)) /\ Len(Without(d)) = Len(pending)
         /\ \A i \in 1..Len(pending) :
              Without(d)[i].deps = IF i = Len(pending) THEN Deps(i) \ {d} ELSE Deps(i)
<1> DEFINE n == Len(pending)
           w == Without(d)
<1>1. PICK S : pending \in Seq(S)
  BY DEF IsStack
<1>2. n \in 1..n /\ n \in Nat
  BY DEF IsStack
<1>3. w = [pending EXCEPT ![n].deps = @ \ {d}]
  BY DEF Without
<1> DEFINE top == [pending[n] EXCEPT !.deps = @ \ {d}]
<1>4. top = [of |-> pending[n].of, deps |-> Deps(n) \ {d}] /\ top.deps = Deps(n) \ {d}
         /\ top = [of |-> top.of, deps |-> top.deps]
  <2> DEFINE e == pending[n]
  <2>1. e = [of |-> e.of, deps |-> e.deps]
    BY <1>2 DEF IsStack
  <2>2. top = [e EXCEPT !.deps = e.deps \ {d}] /\ e.deps = Deps(n) /\ e.of = pending[n].of
    BY DEF Deps
  <2> HIDE DEF e, top
  <2> QED BY <2>1, <2>2
<1>5. w = [pending EXCEPT ![n] = top]
  BY <1>3
<1> HIDE DEF top, w
<1>6. w \in Seq(S \cup {top}) /\ Len(w) = n /\ \A i \in 1..n : w[i] = IF i = n THEN top ELSE pending[i]
  <2>1. pending \in Seq(S \cup {top})
    BY <1>1
  <2> HIDE DEF n
  <2> QED BY <1>2, <1>5, <2>1 DEF n
<1>7. \A i \in 1..n : w[i] = [of |-> w[i].of, deps |-> w[i].deps]
  BY <1>4, <1>6 DEF IsStack
<1>8. \A i \in 1..n : w[i].deps = IF i = n THEN Deps(i) \ {d} ELSE Deps(i)
  BY <1>4, <1>6 DEF Deps
<1>9. IsStack(w)
  BY <1>2, <1>6, <1>7 DEF IsStack
<1> QED BY <1>6, <1>8, <1>9 DEF w

\* what a new call adds,
LEMMA PushIs ==
  ASSUME NEW s, IsStack(s), NEW e, IsCall(e), NEW t, IsPush(t, s, e)
  PROVE  /\ IsStack(t) /\ Len(t) = Len(s) + 1 /\ t[Len(s) + 1] = e
         /\ \A i \in 1..Len(s) : t[i] = s[i]
<1> DEFINE n == Len(s)
<1>1. PICK S : s \in Seq(S)
  BY DEF IsStack
<1>2. t \in Seq(S \cup {e}) /\ Len(t) = n + 1 /\ t[n + 1] = e /\ \A i \in 1..n : t[i] = s[i]
  BY <1>1 DEF IsPush
<1>4. n \in Nat \ {0} /\ \A i \in 1..n + 1 : i \in 1..n \/ i = n + 1
  BY DEF IsStack
<1>5. IsStack(t)
  <2>1. Len(t) \in Nat \ {0} /\ \E X : t \in Seq(X)
    BY <1>2, <1>4
  <2>2. \A i \in 1..Len(t) : t[i] = [of |-> t[i].of, deps |-> t[i].deps]
    BY <1>2, <1>4 DEF IsStack, IsCall
  <2> QED BY <2>1, <2>2 DEF IsStack
<1> QED BY <1>2, <1>5

\* and what a return takes away.
LEMMA PopIs ==
  ASSUME IsStack(pending), Len(pending) > 1, NEW t, t = Front(pending)
  PROVE  /\ IsStack(t) /\ Len(t) = Len(pending) - 1
         /\ \A i \in 1..(Len(pending) - 1) : t[i] = pending[i]
<1>1. PICK S : pending \in Seq(S)
  BY DEF IsStack
<1>2. Len(pending) \in Nat /\ t = SubSeq(pending, 1, Len(pending) - 1)
  BY DEF IsStack, Front
<1>3. t \in Seq(S) /\ Len(t) = Len(pending) - 1 /\ \A i \in 1..(Len(pending) - 1) : t[i] = pending[i]
  BY <1>1, <1>2
<1>4. Len(t) \in Nat \ {0} /\ \E X : t \in Seq(X)
  <2>1. \E X : t \in Seq(X)
    BY <1>3
  <2>2. Len(t) \in Nat \ {0}
    <3>1. Len(t) = Len(pending) - 1 /\ Len(pending) \in Nat /\ Len(pending) > 1
      BY <1>2, <1>3
    <3> DEFINE m == Len(pending)
               k == Len(t)
    <3>2. k = m - 1 /\ m \in Nat /\ m > 1
      BY <3>1
    <3> HIDE DEF m, k
    <3>3. k \in Nat \ {0}
      BY <3>2
    <3> QED BY <3>3 DEF k
  <2> QED BY <2>1, <2>2
<1>5. \A i \in 1..Len(t) : t[i] = pending[i] /\ i \in 1..Len(pending)
  BY <1>2, <1>3
<1>6. \A i \in 1..Len(t) : t[i] = [of |-> t[i].of, deps |-> t[i].deps]
  BY <1>5 DEF IsStack
<1> QED BY <1>3, <1>4, <1>6 DEF IsStack

-----------------------------------------------------------------------------
(* Types, the stack and the marks.                                           *)

\* While a command runs, pending is a stack of calls whose dependencies are on packages.
LEMMA StackWhileRunning ==
  ASSUME StackInv, command.outcome = "running"
  PROVE  /\ IsStack(pending) /\ Left = Deps(Len(pending)) /\ Len(pending) \in 1..Len(pending)
         /\ \A i \in 1..Len(pending) : \A d \in Deps(i) : d.name \in Packages
<1>1. Len(pending) \in Nat \ {0} /\ \E S : pending \in Seq(S)
  BY DEF StackInv
<1>2. Left = Deps(Len(pending))
  BY DEF Left, Last, Deps
<1>3. \A i \in 1..Len(pending) : pending[i] = [of |-> pending[i].of, deps |-> pending[i].deps]
  BY DEF StackInv, Deps
<1>4. \A i \in 1..Len(pending) : \A d \in Deps(i) : d.name \in Packages
  BY DEF StackInv
<1> QED BY <1>1, <1>2, <1>3, <1>4 DEF IsStack

\* StackInv' from what the step makes of the stack.
LEMMA StackAgain ==
  ASSUME IsStack(pending'), command'.op \in {"build", "install"},
         \A i \in 1..Len(pending') : \A d \in pending'[i].deps : d.name \in Packages
  PROVE  StackInv'
<1>1. \E S : pending' \in Seq(S)
  BY DEF IsStack
<1>2. Len(pending') \in Nat \ {0} /\ \A i \in 1..Len(pending') : pending'[i] = [of |-> pending'[i].of, deps |-> pending'[i].deps]
  BY DEF IsStack
<1> QED BY <1>1, <1>2 DEF StackInv, Deps

\* The dependencies in the stack after a descent into a package.
LEMMA DescentIs ==
  ASSUME StackInv, command.outcome = "running", NEW d, NEW v,
         pending' = Append(Without(d), [of |-> d.name, deps |-> Requires[<<d.name, v>>]])
  PROVE  /\ IsStack(pending') /\ Len(pending') = Len(pending) + 1 /\ Len(pending) \in Nat \ {0}
         /\ pending'[Len(pending) + 1].deps = Requires[<<d.name, v>>]
         /\ \A i \in 1..Len(pending) :
              pending'[i].deps = IF i = Len(pending) THEN Deps(i) \ {d} ELSE Deps(i)
<1> DEFINE w == Without(d)
<1>1. IsStack(pending)
  BY StackWhileRunning
<1>2. /\ IsStack(w) /\ Len(w) = Len(pending)
      /\ \A i \in 1..Len(pending) : w[i].deps = IF i = Len(pending) THEN Deps(i) \ {d} ELSE Deps(i)
  BY <1>1, WithoutIs
<1> DEFINE e == [of |-> d.name, deps |-> Requires[<<d.name, v>>]]
           t == pending'
<1>3. t = Append(w, e) /\ e = [of |-> e.of, deps |-> e.deps] /\ e.deps = Requires[<<d.name, v>>]
  OBVIOUS
<1> HIDE DEF w, e, t
<1>4. /\ IsStack(t) /\ Len(t) = Len(w) + 1 /\ t[Len(w) + 1] = e
      /\ \A i \in 1..Len(w) : t[i] = w[i]
  <2>1. IsStack(w) /\ IsCall(e) /\ IsPush(t, w, e)
    BY <1>2, <1>3 DEF IsCall, IsPush
  <2> QED BY ONLY <2>1, PushIs
<1>5. Len(pending) \in Nat \ {0}
  BY <1>1 DEF IsStack
<1> QED BY <1>2, <1>3, <1>4, <1>5 DEF t

\* A descent keeps the stack, the order of the resolved, and the marks.
LEMMA DescendKeeps ==
  ASSUME PkgInv, command.outcome = "running", NEW d \in Left, NEW v, IsRelease(d.name, v),
         d.name \notin ResolvedNames, Descend(d, v), command' = command
  PROVE  StackInv' /\ ResolvedInv' /\ MarkedInv'
<1> DEFINE n == Len(pending)
<1>1. StackInv /\ ResolvedInv /\ MarkedInv
  BY DEF PkgInv
<1>2. /\ IsStack(pending') /\ Len(pending') = n + 1 /\ n \in Nat \ {0}
      /\ pending'[n + 1].deps = Requires[<<d.name, v>>]
      /\ \A i \in 1..n : pending'[i].deps \subseteq Deps(i)
  <2>1. pending' = Append(Without(d), [of |-> d.name, deps |-> Requires[<<d.name, v>>]])
    BY DEF Descend
  <2>2. /\ IsStack(pending') /\ Len(pending') = n + 1 /\ n \in Nat \ {0}
        /\ pending'[n + 1].deps = Requires[<<d.name, v>>]
        /\ \A i \in 1..n : pending'[i].deps = IF i = n THEN Deps(i) \ {d} ELSE Deps(i)
    BY <1>1, <2>1, DescentIs
  <2> HIDE DEF n
  <2> QED BY <2>2
<1>3. \A i \in 1..n : \A e \in Deps(i) : e.name \in Packages
  BY <1>1, StackWhileRunning
<1>4. \A e \in Requires[<<d.name, v>>] : e.name \in Packages
  BY PackagesAssumption DEF IsRelease
<1>5. \A i \in 1..Len(pending') : \A e \in pending'[i].deps : e.name \in Packages
  <2> HIDE DEF n
  <2>1. \A i \in 1..Len(pending') : i \in 1..n \/ i = n + 1
    BY <1>2
  <2> QED BY <1>2, <1>3, <1>4, <2>1
<1>6. StackInv'
  <2>1. command'.op \in {"build", "install"}
    BY <1>1 DEF StackInv
  <2> QED BY <1>2, <1>5, <2>1, StackAgain
<1>7. ResolvedInv' /\ ResolvedNames' = ResolvedNames \cup {d.name}
  BY <1>1, ResolvedGrows DEF Descend
<1>8. MarkedInv'
  BY <1>1, <1>7 DEF MarkedInv, Descend
<1> QED BY <1>6, <1>7, <1>8

\* Each action keeps PkgInv: a package taken from packages/,
LEMMA TakeLocalTypes ==
  ASSUME PkgInv, ~Idle, NEW d \in Left, TakeLocal(d)
  PROVE  PkgInv'
<1>0. command.outcome = "running" /\ StackInv /\ PkgBase
  BY DEF Idle, PkgInv
<1>1. d.name \in Packages
  BY <1>0, StackWhileRunning
<1>2. IsRelease(d.name, disk[d.name])
  BY <1>0, <1>1, TakenIsRelease DEF TakeLocal
<1>3. StackInv' /\ ResolvedInv' /\ MarkedInv'
  BY <1>0, <1>2, DescendKeeps DEF TakeLocal, Unresolved
<1>4. resolving' \subseteq Packages
  BY <1>0, <1>1 DEF PkgBase, PkgTypeOK, TakeLocal, Descend
<1>5. PkgBase'
  BY <1>0, <1>4 DEF PkgBase, PkgTypeOK, TakeLocal
<1>6. RefusedForAReason'
  BY <1>0 DEF RefusedForAReason, TakeLocal
<1> QED BY <1>3, <1>5, <1>6 DEF PkgInv

\* a package fetched,
LEMMA FetchTypes ==
  ASSUME PkgInv, ~Idle, NEW d \in Left, Fetch(d)
  PROVE  PkgInv'
<1>0. command.outcome = "running" /\ StackInv /\ PkgBase
  BY DEF Idle, PkgInv
<1>1. d.name \in Packages
  BY <1>0, StackWhileRunning
<1>2. IsRelease(d.name, Best(d))
  BY <1>0, <1>1, TakenIsRelease DEF Fetch
<1>3. StackInv' /\ ResolvedInv' /\ MarkedInv'
  BY <1>0, <1>2, DescendKeeps DEF Fetch, Unresolved
<1>4. resolving' \subseteq Packages
  BY <1>0, <1>1 DEF PkgBase, PkgTypeOK, Fetch, Descend
<1>5. disk' = [p \in Packages |-> disk'[p]] /\ \A p \in Packages : disk'[p] \in Releases[p] \cup {NoVersion}
  BY <1>0, <1>2 DEF PkgBase, PkgTypeOK, Fetch, IsRelease
<1>6. PkgBase'
  BY <1>0, <1>4, <1>5 DEF PkgBase, PkgTypeOK, Fetch
<1>7. RefusedForAReason'
  BY <1>0 DEF RefusedForAReason, Fetch
<1> QED BY <1>3, <1>6, <1>7 DEF PkgInv

\* a dependency that is resolved already,
LEMMA SkipTypes ==
  ASSUME PkgInv, ~Idle, NEW d \in Left, SkipResolved(d)
  PROVE  PkgInv'
<1>0. command.outcome = "running" /\ StackInv /\ PkgBase /\ ResolvedInv /\ MarkedInv
  BY DEF Idle, PkgInv
<1>1. IsStack(pending) /\ \A i \in 1..Len(pending) : \A e \in Deps(i) : e.name \in Packages
  BY <1>0, StackWhileRunning
<1>2. /\ IsStack(pending') /\ Len(pending') = Len(pending)
      /\ \A i \in 1..Len(pending) : pending'[i].deps = IF i = Len(pending) THEN Deps(i) \ {d} ELSE Deps(i)
  BY <1>1, WithoutIs DEF SkipResolved
<1>3. \A i \in 1..Len(pending') : \A e \in pending'[i].deps : e.name \in Packages
  BY <1>1, <1>2
<1>4. StackInv'
  <2>1. command'.op \in {"build", "install"}
    BY <1>0 DEF StackInv, SkipResolved
  <2> QED BY <1>2, <1>3, <2>1, StackAgain
<1>5. ResolvedInv' /\ MarkedInv'
  BY <1>0 DEF ResolvedInv, MarkedInv, ResolvedNames, SkipResolved
<1>6. PkgBase'
  BY <1>0 DEF PkgBase, PkgTypeOK, SkipResolved
<1>7. RefusedForAReason'
  BY <1>0 DEF RefusedForAReason, SkipResolved
<1> QED BY <1>4, <1>5, <1>6, <1>7 DEF PkgInv

\* the end of a call,
LEMMA LeaveTypes ==
  ASSUME PkgInv, ~Idle, LeaveTree
  PROVE  PkgInv'
<1>0. command.outcome = "running" /\ StackInv /\ PkgBase /\ ResolvedInv /\ MarkedInv
  BY DEF Idle, PkgInv
<1>1. IsStack(pending) /\ \A i \in 1..Len(pending) : \A e \in Deps(i) : e.name \in Packages
  BY <1>0, StackWhileRunning
<1>2. /\ IsStack(pending') /\ Len(pending') = Len(pending) - 1
      /\ \A i \in 1..(Len(pending) - 1) : pending'[i] = pending[i]
  BY <1>1, PopIs DEF LeaveTree
<1>3. \A i \in 1..Len(pending') : \A e \in pending'[i].deps : e.name \in Packages
  <2>1. \A i \in 1..Len(pending') : i \in 1..Len(pending) /\ pending'[i] = pending[i]
    BY <1>1, <1>2 DEF IsStack
  <2> QED BY <1>1, <2>1 DEF Deps
<1>4. StackInv'
  <2>1. command'.op \in {"build", "install"}
    BY <1>0 DEF StackInv, LeaveTree
  <2> QED BY <1>2, <1>3, <2>1, StackAgain
<1>5. ResolvedInv' /\ MarkedInv'
  BY <1>0 DEF ResolvedInv, MarkedInv, ResolvedNames, LeaveTree
<1>6. PkgBase'
  BY <1>0 DEF PkgBase, PkgTypeOK, LeaveTree
<1>7. RefusedForAReason'
  BY <1>0 DEF RefusedForAReason, LeaveTree
<1> QED BY <1>4, <1>5, <1>6, <1>7 DEF PkgInv

\* A dependency that is refused has no acceptable release: it is not on the way, for
\* what is on the way is resolved.
LEMMA RefusedTypes ==
  ASSUME PkgInv, ~Idle, NEW d \in Left, Refused(d)
  PROVE  PkgInv'
<1>0. StackInv /\ PkgBase /\ ResolvedInv /\ MarkedInv
  BY DEF Idle, PkgInv
<1>1. command'.outcome = "failed" /\ command'.at = d /\ command'.op = command.op
      /\ command'.dep = command.dep /\ command'.faulty = command.faulty
      /\ command' = [op |-> command.op, dep |-> command.dep, outcome |-> "failed", faulty |-> command.faulty, at |-> d]
  <2>1. command = [op |-> command.op, dep |-> command.dep, outcome |-> command.outcome,
                   faulty |-> command.faulty, at |-> command.at]
    BY <1>0 DEF PkgBase
  <2>2. command' = [command EXCEPT !.outcome = "failed", !.at = d]
    BY DEF Refused, Gives
  <2> QED BY <2>1, <2>2
<1>2. ~Local(d) /\ Acceptable(d) = {}
  BY <1>0 DEF Refused, MarkedInv
<1>3. RefusedForAReason'
  BY <1>1, <1>2 DEF RefusedForAReason, Local, Acceptable, Refused
<1>4. ResolvedInv' /\ MarkedInv' /\ StackInv'
  BY <1>0, <1>1 DEF ResolvedInv, MarkedInv, ResolvedNames, Refused, StackInv
<1>5. PkgBase'
  BY <1>0, <1>1 DEF PkgBase, PkgTypeOK, Refused
<1> QED BY <1>3, <1>4, <1>5 DEF PkgInv

\* A fetch that fails,
LEMMA FetchFailsTypes ==
  ASSUME PkgInv, ~Idle, NEW d \in Left, FetchFails(d)
  PROVE  PkgInv'
<1>0. command.outcome = "running" /\ StackInv /\ PkgBase /\ ResolvedInv /\ MarkedInv
  BY DEF Idle, PkgInv
<1>1. d.name \in Packages
  BY <1>0, StackWhileRunning
<1>2. PICK outcome \in {"failed", "killed"} : command' = [command EXCEPT !.outcome = outcome, !.at = d, !.faulty = TRUE]
  BY DEF FetchFails
<1>3. command'.outcome = outcome /\ command'.faulty /\ command'.op = command.op /\ command'.dep = command.dep
      /\ command' = [op |-> command'.op, dep |-> command'.dep, outcome |-> command'.outcome,
                     faulty |-> command'.faulty, at |-> command'.at]
  <2>1. command = [op |-> command.op, dep |-> command.dep, outcome |-> command.outcome,
                   faulty |-> command.faulty, at |-> command.at]
    BY <1>0 DEF PkgBase
  <2> QED BY <1>2, <2>1
<1>4. IsRelease(d.name, Best(d))
  BY <1>0, <1>1, TakenIsRelease DEF FetchFails
<1>5. disk' = [p \in Packages |-> disk'[p]] /\ \A p \in Packages : disk'[p] \in Releases[p] \cup {NoVersion}
  <2>1. PICK v \in {disk[d.name], Best(d)} : disk' = [disk EXCEPT ![d.name] = v]
    BY DEF FetchFails
  <2> QED BY <1>0, <1>4, <2>1 DEF PkgBase, PkgTypeOK, IsRelease
<1>6. RefusedForAReason'
  BY <1>3 DEF RefusedForAReason
<1>7. ResolvedInv' /\ MarkedInv' /\ StackInv'
  BY <1>0, <1>3 DEF ResolvedInv, MarkedInv, ResolvedNames, FetchFails, StackInv
<1>8. faults' \in 0..MaxFaults
  BY <1>0, PackagesAssumption DEF PkgBase, PkgTypeOK, FetchFails
<1>9. PkgBase'
  BY <1>0, <1>3, <1>5, <1>8 DEF PkgBase, PkgTypeOK, FetchFails
<1> QED BY <1>6, <1>7, <1>9 DEF PkgInv

\* a kill,
LEMMA KillTypes ==
  ASSUME PkgInv, ~Idle, Kill
  PROVE  PkgInv'
<1>0. command.outcome = "running" /\ StackInv /\ PkgBase /\ ResolvedInv /\ MarkedInv
  BY DEF Idle, PkgInv
<1>1. command'.outcome = "killed" /\ command'.op = command.op /\ command'.dep = command.dep
      /\ command' = [op |-> command'.op, dep |-> command'.dep, outcome |-> command'.outcome,
                     faulty |-> command'.faulty, at |-> command'.at]
  <2>1. command = [op |-> command.op, dep |-> command.dep, outcome |-> command.outcome,
                   faulty |-> command.faulty, at |-> command.at]
    BY <1>0 DEF PkgBase
  <2> QED BY <2>1 DEF Kill
<1>2. faults' \in 0..MaxFaults
  BY <1>0, PackagesAssumption DEF PkgBase, PkgTypeOK, Kill
<1>3. RefusedForAReason' /\ ResolvedInv' /\ MarkedInv' /\ StackInv'
  BY <1>0, <1>1 DEF RefusedForAReason, ResolvedInv, MarkedInv, ResolvedNames, Kill, StackInv
<1>4. PkgBase'
  BY <1>0, <1>1, <1>2 DEF PkgBase, PkgTypeOK, Kill
<1> QED BY <1>3, <1>4 DEF PkgInv

\* A resolution that ends well.
LEMMA OkIs ==
  ASSUME PkgBase, Gives("ok", NoDep)
  PROVE  /\ command'.outcome = "ok" /\ command'.op = command.op /\ command'.dep = command.dep
         /\ command' = [op |-> command'.op, dep |-> command'.dep, outcome |-> command'.outcome,
                        faulty |-> command'.faulty, at |-> command'.at]
<1>1. command = [op |-> command.op, dep |-> command.dep, outcome |-> command.outcome,
                 faulty |-> command.faulty, at |-> command.at]
  BY DEF PkgBase
<1> QED BY <1>1 DEF Gives

\* a build that goes on to compile,
LEMMA BuildResolvedTypes ==
  ASSUME PkgInv, ~Idle, BuildResolved
  PROVE  PkgInv'
<1>0. StackInv /\ PkgBase /\ ResolvedInv /\ MarkedInv /\ Gives("ok", NoDep)
  BY DEF Idle, PkgInv, BuildResolved
<1>1. /\ command'.outcome = "ok" /\ command'.op = command.op /\ command'.dep = command.dep
      /\ command' = [op |-> command'.op, dep |-> command'.dep, outcome |-> command'.outcome,
                     faulty |-> command'.faulty, at |-> command'.at]
  BY <1>0, OkIs
<1>3. RefusedForAReason' /\ ResolvedInv' /\ MarkedInv' /\ StackInv'
  BY <1>0, <1>1 DEF RefusedForAReason, ResolvedInv, MarkedInv, ResolvedNames, BuildResolved, StackInv
<1>4. PkgBase'
  BY <1>0, <1>1 DEF PkgBase, PkgTypeOK, BuildResolved
<1> QED BY <1>3, <1>4 DEF PkgInv

\* What install writes into liva.toml still names each package once.
LEMMA WithDepIs ==
  ASSUME PkgBase, NEW d, d.name \in Packages
  PROVE  /\ \A e \in WithDep(d, disk) : e.name \in Packages
         /\ \A e, f \in WithDep(d, disk) : e.name = f.name => e = f
<1> DEFINE x == IF d.constraint = Latest THEN Dep(d.name, Exact(disk[d.name])) ELSE d
<1>1. x.name = d.name
  BY DEF Dep
<1>2. \A e \in WithDep(d, disk) : e = x \/ (e \in wanted /\ e.name # d.name)
  BY DEF WithDep
<1> HIDE DEF x
<1> QED BY <1>1, <1>2 DEF PkgBase, PkgTypeOK

\* an install that ends well,
LEMMA InstallResolvedTypes ==
  ASSUME PkgInv, ~Idle, InstallResolved
  PROVE  PkgInv'
<1>0. StackInv /\ PkgBase /\ ResolvedInv /\ MarkedInv /\ Gives("ok", NoDep)
  BY DEF Idle, PkgInv, InstallResolved
<1>1. /\ command'.outcome = "ok" /\ command'.op = command.op /\ command'.dep = command.dep
      /\ command' = [op |-> command'.op, dep |-> command'.dep, outcome |-> command'.outcome,
                     faulty |-> command'.faulty, at |-> command'.at]
  BY <1>0, OkIs
<1>2. command.dep.name \in Packages /\ wanted' = WithDep(command.dep, disk)
  BY <1>0 DEF PkgBase, InstallResolved, Installed
<1>3. /\ \A e \in wanted' : e.name \in Packages
      /\ \A e, f \in wanted' : e.name = f.name => e = f
  BY <1>0, <1>2, WithDepIs
<1>4. RefusedForAReason' /\ ResolvedInv' /\ MarkedInv' /\ StackInv'
  BY <1>0, <1>1 DEF RefusedForAReason, ResolvedInv, MarkedInv, ResolvedNames, InstallResolved, StackInv
<1>5. PkgBase'
  BY <1>0, <1>1, <1>3 DEF PkgBase, PkgTypeOK, InstallResolved
<1> QED BY <1>4, <1>5 DEF PkgInv

\* The fields of a command that begins.
LEMMA BegunIs ==
  ASSUME NEW op, NEW d
  PROVE  /\ Begun(op, d).op = op /\ Begun(op, d).dep = d /\ Begun(op, d).outcome = "running"
         /\ Begun(op, d) = [op |-> Begun(op, d).op, dep |-> Begun(op, d).dep, outcome |-> Begun(op, d).outcome,
                            faulty |-> Begun(op, d).faulty, at |-> Begun(op, d).at]
<1>1. Begun(op, d) = [op |-> op, dep |-> d, outcome |-> "running", faulty |-> FALSE, at |-> d]
  BY DEF Begun
<1> QED BY <1>1

\* The fields of a command that is done at once.
LEMMA DoneIs ==
  ASSUME NEW op, NEW d, NEW c, c = [Begun(op, d) EXCEPT !.outcome = "ok"]
  PROVE  /\ c.op = op /\ c.dep = d /\ c.outcome = "ok"
         /\ c = [op |-> c.op, dep |-> c.dep, outcome |-> c.outcome, faulty |-> c.faulty, at |-> c.at]
<1> DEFINE b == Begun(op, d)
<1>1. b = [op |-> b.op, dep |-> b.dep, outcome |-> b.outcome, faulty |-> b.faulty, at |-> b.at] /\ b.op = op /\ b.dep = d
  BY BegunIs
<1>2. c = [b EXCEPT !.outcome = "ok"]
  OBVIOUS
<1> HIDE DEF b
<1> QED BY <1>1, <1>2

\* A resolution that begins has one call, and nothing resolved.
LEMMA BeginKeeps ==
  ASSUME NEW X, pending' = <<[of |-> ".", deps |-> X]>>, resolved' = <<>>, resolving' = {},
         \A d \in X : d.name \in Packages, command'.op \in {"build", "install"}
  PROVE  StackInv' /\ ResolvedInv' /\ MarkedInv'
<1> DEFINE e == [of |-> ".", deps |-> X]
<1>1. e = [of |-> e.of, deps |-> e.deps] /\ e.deps = X
  OBVIOUS
<1>2. pending' = <<e>>
  OBVIOUS
<1> HIDE DEF e
<1>3. Len(pending') = 1 /\ pending'[1] = e /\ pending' \in Seq({e}) /\ \A i \in 1..1 : i = 1
  <2>1. Len(pending') = 1 /\ pending'[1] = e
    BY <1>2
  <2>2. pending' \in Seq({e})
    BY <1>2
  <2>3. \A i \in 1..1 : i = 1
    OBVIOUS
  <2> QED BY <2>1, <2>2, <2>3
<1>4. IsStack(pending')
  <2>1. \E S : pending' \in Seq(S)
    BY <1>3
  <2>2. \A i \in 1..Len(pending') : pending'[i] = e
    BY <1>3
  <2> QED BY <1>1, <1>3, <2>1, <2>2 DEF IsStack
<1>5. StackInv'
  BY <1>1, <1>3, <1>4, StackAgain
<1>6. ResolvedInv'
  <2>1. resolved' \in Seq({}) /\ Len(resolved') = 0
    OBVIOUS
  <2> QED BY <2>1 DEF ResolvedInv
<1> QED BY <1>5, <1>6 DEF MarkedInv

\* a build that begins,
LEMMA BeginBuildTypes ==
  ASSUME PkgInv, BeginBuild
  PROVE  PkgInv'
<1>0. PkgBase
  BY DEF PkgInv
<1>1. /\ command'.op = "build" /\ command'.outcome = "running"
      /\ command' = [op |-> command'.op, dep |-> command'.dep, outcome |-> command'.outcome,
                     faulty |-> command'.faulty, at |-> command'.at]
  BY BegunIs DEF BeginBuild
<1>2. StackInv' /\ ResolvedInv' /\ MarkedInv'
  BY <1>0, <1>1, BeginKeeps DEF BeginBuild, PkgBase
<1>3. commands' \in 0..MaxCommands
  BY <1>0, PackagesAssumption DEF PkgBase, PkgTypeOK, BeginBuild
<1>4. PkgBase' /\ RefusedForAReason'
  BY <1>0, <1>1, <1>3 DEF PkgBase, PkgTypeOK, BeginBuild, RefusedForAReason
<1> QED BY <1>2, <1>4 DEF PkgInv

\* an install that has to resolve,
LEMMA BeginInstallTypes ==
  ASSUME PkgInv, NEW d \in Requests, BeginInstall(d)
  PROVE  PkgInv'
<1>0. PkgBase /\ d.name \in Packages
  BY ManifestsAssumption DEF PkgInv
<1>1. /\ command'.op = "install" /\ command'.outcome = "running" /\ command'.dep = d
      /\ command' = [op |-> command'.op, dep |-> command'.dep, outcome |-> command'.outcome,
                     faulty |-> command'.faulty, at |-> command'.at]
  BY BegunIs DEF BeginInstall
<1>2. StackInv' /\ ResolvedInv' /\ MarkedInv'
  BY <1>0, <1>1, BeginKeeps DEF BeginInstall
<1>3. commands' \in 0..MaxCommands
  BY <1>0, PackagesAssumption DEF PkgBase, PkgTypeOK, BeginInstall
<1>4. PkgBase' /\ RefusedForAReason'
  BY <1>0, <1>1, <1>3 DEF PkgBase, PkgTypeOK, BeginInstall, RefusedForAReason
<1> QED BY <1>2, <1>4 DEF PkgInv

\* an install of what is there,
LEMMA InstallLocalTypes ==
  ASSUME PkgInv, NEW d \in Requests, InstallLocal(d)
  PROVE  PkgInv'
<1>0. PkgBase /\ d.name \in Packages /\ StackInv /\ ResolvedInv /\ MarkedInv
  BY ManifestsAssumption DEF PkgInv
<1>1. /\ command'.op = "install" /\ command'.outcome = "ok" /\ command'.dep = d
      /\ command' = [op |-> command'.op, dep |-> command'.dep, outcome |-> command'.outcome,
                     faulty |-> command'.faulty, at |-> command'.at]
  BY DoneIs DEF InstallLocal
<1>2. /\ \A e \in wanted' : e.name \in Packages
      /\ \A e, f \in wanted' : e.name = f.name => e = f
  BY <1>0, WithDepIs DEF InstallLocal, Installed
<1>3. commands' \in 0..MaxCommands
  BY <1>0, PackagesAssumption DEF PkgBase, PkgTypeOK, InstallLocal
<1>4. StackInv' /\ ResolvedInv' /\ MarkedInv' /\ RefusedForAReason'
  BY <1>0, <1>1 DEF RefusedForAReason, ResolvedInv, MarkedInv, ResolvedNames, InstallLocal, StackInv
<1>5. PkgBase'
  BY <1>0, <1>1, <1>2, <1>3 DEF PkgBase, PkgTypeOK, InstallLocal
<1> QED BY <1>4, <1>5 DEF PkgInv

\* and a removal.
LEMMA RemoveTypes ==
  ASSUME PkgInv, NEW p \in Packages, RemovePackage(p)
  PROVE  PkgInv'
<1>0. PkgBase /\ StackInv /\ ResolvedInv /\ MarkedInv
  BY DEF PkgInv
<1>1. /\ command'.op = "remove" /\ command'.outcome = "ok"
      /\ command' = [op |-> command'.op, dep |-> command'.dep, outcome |-> command'.outcome,
                     faulty |-> command'.faulty, at |-> command'.at]
  BY DoneIs DEF RemovePackage
<1>2. wanted' \subseteq wanted
  BY DEF RemovePackage
<1>3. disk' = [q \in Packages |-> disk'[q]] /\ \A q \in Packages : disk'[q] \in Releases[q] \cup {NoVersion}
  BY <1>0 DEF PkgBase, PkgTypeOK, RemovePackage
<1>4. commands' \in 0..MaxCommands
  BY <1>0, PackagesAssumption DEF PkgBase, PkgTypeOK, RemovePackage
<1>5. StackInv' /\ ResolvedInv' /\ MarkedInv' /\ RefusedForAReason'
  BY <1>0, <1>1 DEF RefusedForAReason, ResolvedInv, MarkedInv, ResolvedNames, RemovePackage, StackInv
<1>6. PkgBase'
  BY <1>0, <1>1, <1>2, <1>3, <1>4 DEF PkgBase, PkgTypeOK, RemovePackage
<1> QED BY <1>5, <1>6 DEF PkgInv

\* PkgInv holds at the start,
LEMMA PkgInitInv == PkgInit => PkgInv
<1> SUFFICES ASSUME PkgInit PROVE PkgInv
  OBVIOUS
<1>1. /\ command.op = "build" /\ command.outcome = "none"
      /\ command = [op |-> command.op, dep |-> command.dep, outcome |-> command.outcome,
                    faulty |-> command.faulty, at |-> command.at]
  <2> DEFINE b == Begun("build", NoDep)
  <2>1. /\ b.op = "build"
        /\ b = [op |-> b.op, dep |-> b.dep, outcome |-> b.outcome, faulty |-> b.faulty, at |-> b.at]
    BY BegunIs
  <2>2. command = [b EXCEPT !.outcome = "none"]
    BY DEF PkgInit
  <2> HIDE DEF b
  <2> QED BY <2>1, <2>2
<1>2. resolved \in Seq({}) /\ Len(resolved) = 0
  BY DEF PkgInit
<1>3. ResolvedInv /\ StackInv /\ RefusedForAReason /\ MarkedInv
  BY <1>1, <1>2 DEF ResolvedInv, StackInv, RefusedForAReason, MarkedInv, PkgInit
<1>4. PkgBase
  BY <1>1, PackagesAssumption, ManifestsAssumption DEF PkgBase, PkgTypeOK, PkgInit
<1> QED BY <1>3, <1>4 DEF PkgInv

\* and every step keeps it.
LEMMA PkgStepInv == PkgInv /\ [PkgNext]_pkgvars => PkgInv'
<1> SUFFICES ASSUME PkgInv, [PkgNext]_pkgvars PROVE PkgInv'
  OBVIOUS
<1>1. CASE BeginBuild
  BY <1>1, BeginBuildTypes
<1>2. CASE \E d \in Requests : InstallLocal(d) \/ BeginInstall(d)
  BY <1>2, InstallLocalTypes, BeginInstallTypes
<1>3. CASE \E p \in Packages : RemovePackage(p)
  BY <1>3, RemoveTypes
<1>4. CASE ~Idle /\ \E d \in Left : SkipResolved(d) \/ TakeLocal(d) \/ Fetch(d)
  BY <1>4, SkipTypes, TakeLocalTypes, FetchTypes
<1>5. CASE ~Idle /\ \E d \in Left : Refused(d) \/ FetchFails(d)
  BY <1>5, RefusedTypes, FetchFailsTypes
<1>6. CASE ~Idle /\ (LeaveTree \/ BuildResolved)
  BY <1>6, LeaveTypes, BuildResolvedTypes
<1>7. CASE ~Idle /\ (InstallResolved \/ Kill)
  BY <1>7, InstallResolvedTypes, KillTypes
<1>8. CASE UNCHANGED pkgvars
  <2>1. PkgBase' /\ RefusedForAReason'
    BY <1>8 DEF pkgvars, PkgInv, PkgBase, PkgTypeOK, RefusedForAReason, Acceptable, Local
  <2>2. StackInv' /\ ResolvedInv' /\ MarkedInv'
    BY <1>8 DEF pkgvars, PkgInv, StackInv, Deps, ResolvedInv, MarkedInv, ResolvedNames
  <2> QED BY <2>1, <2>2 DEF PkgInv
<1> QED BY <1>1, <1>2, <1>3, <1>4, <1>5, <1>6, <1>7, <1>8 DEF PkgNext, Resolve

-----------------------------------------------------------------------------
(* The resolution.                                                           *)

\* A resolution that begins: its command's dependencies wait, nothing is resolved.
LEMMA BeginTree ==
  ASSUME NEW X, pending' = <<[of |-> ".", deps |-> X]>>, resolved' = <<>>,
         Goal' = X, command'.outcome = "running"
  PROVE  TreeInv'
<1>1. Len(pending') = 1 /\ pending'[1].deps = X
  BY DEF Deps
<1>2. \A d : Waiting(d)' <=> d \in X
  <2>1. \A i \in 1..1 : i = 1
    OBVIOUS
  <2> QED BY <1>1, <2>1 DEF Waiting, Deps
<1>3. \A r : ~IsResolved(r)'
  BY DEF IsResolved, ToSet
<1>4. \A d : Meant(d)' <=> d \in X
  BY <1>3 DEF Meant
<1>5. \A names : Meets(names)' => \A d \in X : d.name \in names
  BY DEF Meets
<1>6. ResolvedNames' = {}
  BY DEF ResolvedNames, ToSet
<1>7. OnDisk' /\ ForSomebody' /\ NoneForgotten'
  BY <1>2, <1>3, <1>4 DEF OnDisk, ForSomebody, NoneForgotten
<1>8. NoneElse'
  BY <1>2, <1>5, <1>6 DEF NoneElse
<1> QED BY <1>7, <1>8 DEF TreeInv

\* A build starts from what liva.toml wants,
LEMMA BeginBuildTree ==
  ASSUME PkgInv, BeginBuild
  PROVE  TreeInv' /\ LockInv'
<1>1. command'.op = "build" /\ command'.outcome = "running"
  BY BegunIs DEF BeginBuild
<1>2. Goal' = wanted
  BY <1>1 DEF Goal, BeginBuild
<1>3. TreeInv'
  BY <1>1, <1>2, BeginTree DEF BeginBuild
<1> QED BY <1>1, <1>3 DEF LockInv

\* an install from what was asked for.
LEMMA BeginInstallTree ==
  ASSUME PkgInv, NEW d \in Requests, BeginInstall(d)
  PROVE  TreeInv' /\ LockInv'
<1>1. command'.op = "install" /\ command'.outcome = "running" /\ command'.dep = d
  BY BegunIs DEF BeginInstall
<1>2. Goal' = {d}
  BY <1>1 DEF Goal
<1>3. TreeInv'
  BY <1>1, <1>2, BeginTree DEF BeginInstall
<1> QED BY <1>1, <1>3 DEF LockInv

\* What waits after a descent into d: what d needs, and all that waited but d itself.
LEMMA DescentWaits ==
  ASSUME StackInv, command.outcome = "running", command' = command, NEW d \in Left, NEW v, Descend(d, v)
  PROVE  /\ Waiting(d)
         /\ \A e : Waiting(e)' => Waiting(e) \/ e \in Requires[<<d.name, v>>]
         /\ \A e : Waiting(e) => Waiting(e)' \/ e = d
         /\ \A e \in Requires[<<d.name, v>>] : Waiting(e)'
<1> DEFINE n == Len(pending)
           X == Requires[<<d.name, v>>]
<1>1. /\ Len(pending') = n + 1 /\ n \in Nat \ {0} /\ pending'[n + 1].deps = X
      /\ \A i \in 1..n : pending'[i].deps = IF i = n THEN Deps(i) \ {d} ELSE Deps(i)
  BY DescentIs DEF Descend
<1>2. Left = Deps(n) /\ n \in 1..n
  BY StackWhileRunning
<1>3. \A e : Waiting(e) <=> \E i \in 1..n : e \in Deps(i)
  BY DEF Waiting
<1>4. \A e : Waiting(e)' <=> \E i \in 1..(n + 1) : e \in pending'[i].deps
  BY <1>1 DEF Waiting, Deps
<1> HIDE DEF n, X
<1>5. \A i : i \in 1..(n + 1) <=> i \in 1..n \/ i = n + 1
  BY <1>1
<1>6. \A e : Waiting(e)' => Waiting(e) \/ e \in X
  BY <1>1, <1>3, <1>4, <1>5
<1>7. \A e : Waiting(e) => Waiting(e)' \/ e = d
  BY <1>1, <1>3, <1>4, <1>5
<1>8. \A e \in X : Waiting(e)'
  BY <1>1, <1>4, <1>5
<1> QED BY <1>2, <1>3, <1>6, <1>7, <1>8 DEF X

\* A descent keeps the invariant if packages/ then holds the release.
LEMMA DescendTree ==
  ASSUME PkgInv, TreeInv, command.outcome = "running", NEW d \in Left, NEW v, Descend(d, v),
         IsRelease(d.name, v), SatisfiedBy(d.constraint, v), d.name \notin ResolvedNames,
         command' = command, wanted' = wanted, disk'[d.name] = v,
         \A p \in Packages : p # d.name => disk'[p] = disk[p]
  PROVE  TreeInv'
<1> DEFINE new == <<d.name, v>>
           X == Requires[new]
<1>0. StackInv /\ ResolvedInv /\ OnDisk /\ ForSomebody /\ NoneForgotten /\ NoneElse
  BY DEF PkgInv, TreeInv, Current
<1>1. /\ Waiting(d)
      /\ \A e : Waiting(e)' => Waiting(e) \/ e \in X
      /\ \A e : Waiting(e) => Waiting(e)' \/ e = d
      /\ \A e \in X : Waiting(e)'
  BY <1>0, DescentWaits
<1>2. /\ \A r : IsResolved(r)' <=> IsResolved(r) \/ r = new
      /\ ResolvedNames' = ResolvedNames \cup {d.name}
  BY <1>0, ResolvedGrows DEF Descend
<1>3. Goal' = Goal
  BY DEF Goal
<1>4. new[1] = d.name /\ new[2] = v
  OBVIOUS
<1>5. \A r : IsResolved(r) => r[1] \in Packages /\ r[1] # d.name
  <2>1. PICK S : resolved \in Seq(S)
    BY <1>0 DEF ResolvedInv
  <2> QED BY <1>0, <2>1, ResolvedAre DEF ResolvedInv, IsRelease
<1> HIDE DEF new, X
<1>6. \A e : Meant(e)' <=> Meant(e) \/ e \in X
  BY <1>2, <1>3 DEF Meant, X
<1>7. OnDisk'
  BY <1>0, <1>2, <1>4, <1>5 DEF OnDisk
<1>8. ForSomebody'
  BY <1>0, <1>1, <1>2, <1>4, <1>6 DEF ForSomebody
<1>9. NoneForgotten'
  BY <1>0, <1>1, <1>2, <1>6 DEF NoneForgotten
<1>10. NoneElse'
  <2> SUFFICES ASSUME NEW names, Meets(names)'
               PROVE  ResolvedNames' \subseteq names /\ \A e : Waiting(e)' => e.name \in names
    BY DEF NoneElse
  <2>1. Meets(names)
    BY <1>2, <1>3 DEF Meets
  <2>2. ResolvedNames \subseteq names /\ \A e : Waiting(e) => e.name \in names
    BY <1>0, <2>1 DEF NoneElse
  <2>3. d.name \in names
    BY <1>1, <2>2
  <2>4. \A e \in X : e.name \in names
    BY <1>2, <1>4, <2>3 DEF Meets, X
  <2> QED BY <1>1, <1>2, <2>2, <2>3, <2>4
<1> QED BY <1>7, <1>8, <1>9, <1>10 DEF TreeInv

\* A descent into a package that is there,
LEMMA TakeLocalTree ==
  ASSUME PkgInv, TreeInv, ~Idle, NEW d \in Left, TakeLocal(d)
  PROVE  TreeInv' /\ LockInv'
<1>0. command.outcome = "running" /\ StackInv /\ PkgBase
  BY DEF Idle, PkgInv
<1>1. d.name \in Packages
  BY <1>0, StackWhileRunning
<1>2. IsRelease(d.name, disk[d.name]) /\ SatisfiedBy(d.constraint, disk[d.name])
  BY <1>0, <1>1, TakenIsRelease DEF TakeLocal
<1>3. TreeInv'
  BY <1>0, <1>2, DescendTree DEF TakeLocal, Unresolved
<1> QED BY <1>0, <1>3 DEF LockInv, TakeLocal

\* and into one just fetched.
LEMMA FetchTree ==
  ASSUME PkgInv, TreeInv, ~Idle, NEW d \in Left, Fetch(d)
  PROVE  TreeInv' /\ LockInv'
<1>0. command.outcome = "running" /\ StackInv /\ PkgBase
  BY DEF Idle, PkgInv
<1>1. d.name \in Packages
  BY <1>0, StackWhileRunning
<1>2. IsRelease(d.name, Best(d)) /\ SatisfiedBy(d.constraint, Best(d))
  BY <1>0, <1>1, TakenIsRelease DEF Fetch
<1>3. disk'[d.name] = Best(d) /\ \A p \in Packages : p # d.name => disk'[p] = disk[p]
  BY <1>0, <1>1 DEF Fetch, PkgBase
<1>4. TreeInv'
  BY <1>0, <1>2, <1>3, DescendTree DEF Fetch, Unresolved
<1> QED BY <1>0, <1>4 DEF LockInv, Fetch

\* What a step of the resolution keeps if it changes nothing but the stack.
LEMMA TreeFromWaits ==
  ASSUME TreeInv, command.outcome = "running",
         resolved' = resolved, disk' = disk, Goal' = Goal,
         \A e : Waiting(e)' => Waiting(e),
         \A e : Waiting(e) => Waiting(e)' \/ e.name \in ResolvedNames
  PROVE  TreeInv'
<1>0. OnDisk /\ ForSomebody /\ NoneForgotten /\ NoneElse
  BY DEF TreeInv, Current
<1>1. ResolvedNames' = ResolvedNames /\ \A r : IsResolved(r)' <=> IsResolved(r)
  BY DEF ResolvedNames, IsResolved
<1>2. \A d : Meant(d)' <=> Meant(d)
  BY <1>1 DEF Meant
<1>3. \A names : Meets(names)' => Meets(names)
  BY <1>1 DEF Meets
<1>4. OnDisk' /\ ForSomebody' /\ NoneForgotten'
  BY <1>0, <1>1, <1>2 DEF OnDisk, ForSomebody, NoneForgotten
<1>5. NoneElse'
  BY <1>0, <1>1, <1>3 DEF NoneElse
<1> QED BY <1>4, <1>5 DEF TreeInv

\* A dependency that is resolved already,
LEMMA SkipTree ==
  ASSUME PkgInv, TreeInv, ~Idle, NEW d \in Left, SkipResolved(d)
  PROVE  TreeInv' /\ LockInv'
<1> DEFINE n == Len(pending)
<1>0. command.outcome = "running" /\ StackInv
  BY DEF Idle, PkgInv
<1>1. IsStack(pending)
  BY <1>0, StackWhileRunning
<1>2. /\ Len(pending') = n
      /\ \A i \in 1..n : pending'[i].deps = IF i = n THEN Deps(i) \ {d} ELSE Deps(i)
  BY <1>1, WithoutIs DEF SkipResolved
<1>3. \A e : Waiting(e) <=> \E i \in 1..n : e \in Deps(i)
  BY <1>0 DEF Waiting
<1>4. \A e : Waiting(e)' <=> \E i \in 1..n : e \in pending'[i].deps
  BY <1>0, <1>2 DEF Waiting, Deps, SkipResolved
<1> HIDE DEF n
<1>5. \A e : Waiting(e)' => Waiting(e)
  BY <1>2, <1>3, <1>4
<1>6. \A e : Waiting(e) => Waiting(e)' \/ e.name \in ResolvedNames
  BY <1>2, <1>3, <1>4 DEF SkipResolved
<1>7. Goal' = Goal
  BY DEF Goal, SkipResolved
<1>8. TreeInv'
  BY <1>0, <1>5, <1>6, <1>7, TreeFromWaits DEF SkipResolved
<1> QED BY <1>0, <1>8 DEF LockInv, SkipResolved

\* and the end of a call.
LEMMA LeaveTreeTree ==
  ASSUME PkgInv, TreeInv, ~Idle, LeaveTree
  PROVE  TreeInv' /\ LockInv'
<1> DEFINE n == Len(pending)
<1>0. command.outcome = "running" /\ StackInv
  BY DEF Idle, PkgInv
<1>1. IsStack(pending) /\ Left = Deps(n)
  BY <1>0, StackWhileRunning
<1>2. Len(pending') = n - 1 /\ \A i \in 1..(n - 1) : pending'[i] = pending[i]
  BY <1>1, PopIs DEF LeaveTree
<1>3. \A e : Waiting(e) <=> \E i \in 1..n : e \in Deps(i)
  BY <1>0 DEF Waiting
<1>4. \A e : Waiting(e)' <=> \E i \in 1..(n - 1) : e \in Deps(i)
  BY <1>0, <1>2 DEF Waiting, Deps, LeaveTree
<1>5. n \in Nat /\ n > 1 /\ Deps(n) = {}
  BY <1>1 DEF IsStack, LeaveTree
<1> HIDE DEF n
<1>6. \A i \in 1..n : i \in 1..(n - 1) \/ i = n
  BY <1>5
<1>7. \A e : Waiting(e)' => Waiting(e)
  <2>1. \A i \in 1..(n - 1) : i \in 1..n
    BY <1>5
  <2> QED BY <1>3, <1>4, <2>1
<1>8. \A e : Waiting(e) => Waiting(e)'
  BY <1>3, <1>4, <1>5, <1>6
<1>9. Goal' = Goal
  BY DEF Goal, LeaveTree
<1>10. TreeInv'
  BY <1>0, <1>7, <1>8, <1>9, TreeFromWaits DEF LeaveTree
<1> QED BY <1>0, <1>10 DEF LockInv, LeaveTree

\* The last call has nothing left: nothing waits any more.
LEMMA BuildResolvedTree ==
  ASSUME PkgInv, TreeInv, ~Idle, BuildResolved
  PROVE  TreeInv' /\ LockInv'
<1>0. command.outcome = "running" /\ StackInv /\ PkgBase
  BY DEF Idle, PkgInv
<1>1. command'.outcome = "ok" /\ command'.op = command.op /\ command'.dep = command.dep
  BY <1>0, OkIs DEF BuildResolved
<1>2. \A e : ~Waiting(e)
  <2>1. Left = Deps(Len(pending)) /\ Len(pending) = 1 /\ Left = {}
    BY <1>0, StackWhileRunning DEF BuildResolved
  <2>2. \A i \in 1..1 : i = 1
    OBVIOUS
  <2> QED BY <2>1, <2>2 DEF Waiting
<1>3. \A e : ~Waiting(e)'
  BY <1>1 DEF Waiting
<1>4. Goal' = Goal
  BY <1>1 DEF Goal, BuildResolved
<1>5. TreeInv'
  BY <1>0, <1>2, <1>3, <1>4, TreeFromWaits DEF BuildResolved
<1>6. LockInv'
  BY DEF LockInv, BuildResolved
<1> QED BY <1>5, <1>6

\* The others end a command otherwise.
LEMMA OtherTree ==
  ASSUME PkgInv,
         \/ \E d \in Requests : InstallLocal(d)
         \/ \E p \in Packages : RemovePackage(p)
         \/ \E d \in Left : Refused(d) \/ FetchFails(d)
         \/ InstallResolved \/ Kill
  PROVE  TreeInv' /\ LockInv'
<1>0. PkgBase
  BY DEF PkgInv
<1> DEFINE Other(c) == (c.op # "build" /\ c.outcome # "running") \/ c.outcome \in {"failed", "killed"}
<1>1. command = [op |-> command.op, dep |-> command.dep, outcome |-> command.outcome,
                 faulty |-> command.faulty, at |-> command.at]
  BY <1>0 DEF PkgBase
<1>2. ASSUME NEW d, InstallLocal(d) PROVE Other(command')
  BY <1>2, DoneIs DEF InstallLocal
<1>3. ASSUME NEW p, RemovePackage(p) PROVE Other(command')
  BY <1>3, DoneIs DEF RemovePackage
<1>4. ASSUME NEW d, Refused(d) PROVE Other(command')
  <2>1. command' = [command EXCEPT !.outcome = "failed", !.at = d]
    BY <1>4 DEF Refused, Gives
  <2> QED BY <1>1, <2>1
<1>5. ASSUME NEW d, FetchFails(d) PROVE Other(command')
  <2>1. PICK outcome \in {"failed", "killed"} : command' = [command EXCEPT !.outcome = outcome, !.at = d, !.faulty = TRUE]
    BY <1>5 DEF FetchFails
  <2> QED BY <1>1, <2>1
<1>6. ASSUME InstallResolved PROVE Other(command')
  BY <1>0, <1>6, OkIs DEF InstallResolved
<1>7. ASSUME Kill PROVE Other(command')
  BY <1>1, <1>7 DEF Kill
<1>8. Other(command')
  BY <1>2, <1>3, <1>4, <1>5, <1>6, <1>7
<1> QED BY <1>8 DEF TreeInv, Current, LockInv

\* The inductive invariant.
PkgTreeInv == PkgInv /\ TreeInv /\ LockInv

\* Every step keeps the invariant.
LEMMA PkgTreeStep == PkgTreeInv /\ [PkgNext]_pkgvars => PkgTreeInv'
<1> SUFFICES ASSUME PkgInv, TreeInv, LockInv, [PkgNext]_pkgvars PROVE TreeInv' /\ LockInv'
  BY PkgStepInv DEF PkgTreeInv
<1>1. CASE BeginBuild
  BY <1>1, BeginBuildTree
<1>2. CASE \E d \in Requests : BeginInstall(d)
  BY <1>2, BeginInstallTree
<1>3. CASE ~Idle /\ \E d \in Left : SkipResolved(d) \/ TakeLocal(d) \/ Fetch(d)
  BY <1>3, SkipTree, TakeLocalTree, FetchTree
<1>4. CASE ~Idle /\ (LeaveTree \/ BuildResolved)
  BY <1>4, LeaveTreeTree, BuildResolvedTree
<1>5. CASE \/ \E d \in Requests : InstallLocal(d)
           \/ \E p \in Packages : RemovePackage(p)
           \/ \E d \in Left : Refused(d) \/ FetchFails(d)
           \/ InstallResolved \/ Kill
  BY <1>5, OtherTree
<1>6. CASE UNCHANGED pkgvars
  <2>1. Current' = Current /\ Goal' = Goal /\ ResolvedNames' = ResolvedNames
    BY <1>6 DEF pkgvars, Current, Goal, ResolvedNames
  <2>2. (\A d : Waiting(d)' <=> Waiting(d)) /\ (\A r : IsResolved(r)' <=> IsResolved(r))
    BY <1>6 DEF pkgvars, Waiting, Deps, IsResolved
  <2>3. \A d : Meant(d)' <=> Meant(d)
    BY <2>1, <2>2 DEF Meant
  <2>4. \A names : Meets(names)' <=> Meets(names)
    BY <2>1, <2>2 DEF Meets
  <2>5. Current => OnDisk' /\ ForSomebody' /\ NoneForgotten'
    BY <1>6, <2>1, <2>2, <2>3 DEF pkgvars, TreeInv, OnDisk, ForSomebody, NoneForgotten
  <2>6. Current => NoneElse'
    BY <2>1, <2>2, <2>4 DEF TreeInv, NoneElse
  <2>7. LockInv'
    BY <1>6 DEF pkgvars, LockInv
  <2> QED BY <2>1, <2>5, <2>6, <2>7 DEF TreeInv
<1> QED BY <1>1, <1>2, <1>3, <1>4, <1>5, <1>6 DEF PkgNext, Resolve

-----------------------------------------------------------------------------
(* The theorems.                                                             *)

\* As many packages are resolved as there are names among them.
LEMMA ResolvedCounted ==
  ASSUME ResolvedInv
  PROVE  Len(resolved) = Cardinality(ResolvedNames)
<1> DEFINE n == Len(resolved)
           f == [i \in 1..n |-> resolved[i][1]]
<1>1. PICK S : resolved \in Seq(S)
  BY DEF ResolvedInv
<1>2. n \in Nat
  BY <1>1
<1>3. \A p : p \in ResolvedNames <=> \E i \in 1..n : resolved[i][1] = p
  BY <1>1, ResolvedAre
<1>4. \A i, j \in 1..n : f[i] = f[j] => i = j
  BY DEF ResolvedInv
<1>5. f \in Bijection(1..n, ResolvedNames)
  <2>1. f \in [1..n -> ResolvedNames]
    BY <1>3
  <2>2. \A p \in ResolvedNames : \E i \in 1..n : f[i] = p
    BY <1>3
  <2> HIDE DEF f, n
  <2> QED BY <1>4, <2>1, <2>2, Fun_IsBij
<1> HIDE DEF f, n
<1>6. ExistsBijection(1..n, ResolvedNames)
  BY <1>5 DEF ExistsBijection
<1>7. Cardinality(ResolvedNames) = n
  BY <1>2, <1>6, FS_CountingElements
<1> QED BY <1>7 DEF n

\* A build that went on has resolved exactly what the program needs.
LEMMA ResolvedIsNeeded ==
  ASSUME PkgTreeInv, command.op = "build", command.outcome = "ok"
  PROVE  ResolvedNames = Needed
<1>0. PkgBase /\ ResolvedInv /\ OnDisk /\ ForSomebody /\ NoneForgotten /\ NoneElse
  BY DEF PkgTreeInv, PkgInv, TreeInv, Current
<1>1. Goal = wanted /\ \A d : ~Waiting(d)
  BY DEF Goal, Waiting
<1>2. /\ \A r : IsResolved(r) => r = <<r[1], r[2]>> /\ IsRelease(r[1], r[2])
      /\ \A p \in ResolvedNames : \E r : IsResolved(r) /\ r[1] = p
  <2>1. PICK S : resolved \in Seq(S)
    BY <1>0 DEF ResolvedInv
  <2>2. ASSUME NEW r, IsResolved(r) PROVE r = <<r[1], r[2]>> /\ IsRelease(r[1], r[2])
    <3>1. PICK i \in 1..Len(resolved) : resolved[i] = r
      BY <2>1, <2>2, ResolvedAre
    <3> QED BY <1>0, <3>1 DEF ResolvedInv
  <2>3. \A p \in ResolvedNames : \E r : IsResolved(r) /\ r[1] = p
    BY DEF ResolvedNames, IsResolved
  <2> QED BY <2>2, <2>3
<1>3. \A r : IsResolved(r) => disk[r[1]] = r[2] /\ r[2] # NoVersion /\ r = <<r[1], disk[r[1]]>>
  BY <1>0, <1>2, PackagesAssumption DEF OnDisk, IsRelease
\* What is resolved is closed under need,
<1>4. ResolvedNames \in ClosedSets
  <2>1. ResolvedNames \subseteq Packages
    BY <1>2 DEF IsRelease
  <2>2. \A d \in wanted : d.name \in ResolvedNames
    BY <1>0, <1>1 DEF NoneForgotten, Meant
  <2>3. ASSUME NEW p \in ResolvedNames PROVE \A d \in Requires[<<p, disk[p]>>] : d.name \in ResolvedNames
    <3>1. PICK r : IsResolved(r) /\ r[1] = p
      BY <1>2
    <3>2. r = <<p, disk[p]>>
      BY <1>3, <3>1
    <3> QED BY <1>0, <1>1, <3>1, <3>2 DEF NoneForgotten, Meant
  <2> QED BY <2>1, <2>2, <2>3 DEF ClosedSets
\* and any set that is holds it.
<1>5. ASSUME NEW names \in ClosedSets PROVE ResolvedNames \subseteq names
  <2>1. \A d \in wanted : d.name \in names
    BY DEF ClosedSets
  <2>2. ASSUME NEW r, IsResolved(r), r[1] \in names PROVE \A d \in Requires[r] : d.name \in names
    <3>1. disk[r[1]] # NoVersion /\ r = <<r[1], disk[r[1]]>>
      BY <1>3, <2>2
    <3>2. {d.name : d \in Requires[<<r[1], disk[r[1]]>>]} \subseteq names
      BY <2>2, <3>1 DEF ClosedSets
    <3> QED BY <3>1, <3>2
  <2>3. Meets(names)
    BY <1>1, <2>1, <2>2 DEF Meets
  <2> QED BY <1>0, <2>3 DEF NoneElse
<1>6. ResolvedNames \subseteq Packages
  BY <1>4 DEF ClosedSets
<1> QED BY <1>4, <1>5, <1>6 DEF Needed

\* The invariant of a build that went on is what BuildResolves says.
LEMMA TreeGivesBuild == PkgTreeInv => BuildResolves
<1> SUFFICES ASSUME PkgTreeInv, command.op = "build", command.outcome = "ok", wanted # {}
             PROVE  /\ ResolvedNames = Needed /\ Len(resolved) = Cardinality(ResolvedNames)
                    /\ lock = ToSet(resolved)
                    /\ \A r \in ToSet(resolved) :
                         /\ disk[r[1]] = r[2]
                         /\ \E d \in wanted \cup UNION {Requires[q] : q \in ToSet(resolved)} :
                              d.name = r[1] /\ SatisfiedBy(d.constraint, r[2])
  BY DEF BuildResolves
<1>1. ResolvedInv /\ OnDisk /\ ForSomebody
  BY DEF PkgTreeInv, PkgInv, TreeInv, Current
<1>2. ResolvedNames = Needed /\ Len(resolved) = Cardinality(ResolvedNames)
  BY <1>1, ResolvedIsNeeded, ResolvedCounted
<1>3. lock = ToSet(resolved)
  BY DEF PkgTreeInv, LockInv
<1>4. ASSUME NEW r \in ToSet(resolved)
      PROVE  /\ disk[r[1]] = r[2]
             /\ \E d \in wanted \cup UNION {Requires[q] : q \in ToSet(resolved)} :
                  d.name = r[1] /\ SatisfiedBy(d.constraint, r[2])
  <2>1. PICK d : Meant(d) /\ d.name = r[1] /\ SatisfiedBy(d.constraint, r[2])
    BY <1>1 DEF ForSomebody, IsResolved
  <2>2. d \in wanted \cup UNION {Requires[q] : q \in ToSet(resolved)}
    BY <2>1 DEF Meant, Goal, IsResolved
  <2> QED BY <1>1, <2>1, <2>2 DEF OnDisk, IsResolved
<1> QED BY <1>2, <1>3, <1>4

\* The invariant holds always.
LEMMA PkgInvariant == PkgSpec => []PkgTreeInv
<1>1. PkgInit => PkgTreeInv
  <2> SUFFICES ASSUME PkgInit PROVE PkgTreeInv
    OBVIOUS
  <2>1. PkgInv
    BY PkgInitInv
  <2>2. command.outcome = "none"
    <3> DEFINE b == Begun("build", NoDep)
    <3>1. b = [op |-> b.op, dep |-> b.dep, outcome |-> b.outcome, faulty |-> b.faulty, at |-> b.at]
      BY BegunIs
    <3>2. command = [b EXCEPT !.outcome = "none"]
      BY DEF PkgInit
    <3> HIDE DEF b
    <3> QED BY <3>1, <3>2
  <2> QED BY <2>1, <2>2 DEF PkgTreeInv, TreeInv, Current, LockInv
<1> QED BY <1>1, PkgTreeStep, PTL DEF PkgSpec

\* The types of the package manager's state.
THEOREM PkgTypes == PkgSpec => []PkgTypeOK
<1>1. PkgTreeInv => PkgTypeOK
  BY DEF PkgTreeInv, PkgInv, PkgBase
<1> QED BY <1>1, PkgInvariant, PTL

\* No build and no install is refused because packages need each other.
THEOREM RefusalsHaveReasons == PkgSpec => []RefusedForAReason
<1>1. PkgTreeInv => RefusedForAReason
  BY DEF PkgTreeInv, PkgInv
<1> QED BY <1>1, PkgInvariant, PTL

\* A build that went on to compile has resolved what the program needs and no more, each
\* package once and in the version packages/ holds, and has written just that to liva.lock.
THEOREM BuildsResolve == PkgSpec => []BuildResolves
BY PkgInvariant, TreeGivesBuild, PTL

=============================================================================
