-------------------------- MODULE IncrementalBuild --------------------------
(***************************************************************************)
(* livac build: Driver::executeBuild with its two on-disk caches,          *)
(* BuildCache (object files, keyed by a content hash and a modification    *)
(* time) and SemaCache (interface hashes of the imports), its worker       *)
(* threads, and the programmer who edits the sources between the builds.   *)
(*                                                                         *)
(* A hash is modelled by the text it is computed from: collisions are left *)
(* out.  Times are in seconds, as getFileModTime returns them.             *)
(***************************************************************************)
EXTENDS ProjectSources

CONSTANTS
  Worker,      \* the threads of the pool
  NoWorker,
  MaxBuilds,   \* bound: the builds of one behaviour
  MaxEdits,    \* bound: the edits of one behaviour
  Env          \* what may happen around the builds, see below

\* "interface":   an edit may change the public interface of a file
\* "editInBuild": a file may be edited while a build runs
\* "linkFails":   the linker may fail
AllEnv == {"interface", "editInBuild", "linkFails"}

\* What the compiler reports as an import: the path in the import declaration
\* (a module name), which is not the path of a file.
ImportName(g) == <<"module", g>>

ASSUME EnvAssumption == Env \subseteq AllEnv
ASSUME WorkerAssumption == Worker # {} /\ NoWorker \notin Worker
ASSUME ImportAssumption == \A g \in File : ImportName(g) \notin File
ASSUME BoundAssumption == MaxBuilds \in Nat /\ MaxEdits \in Nat

VARIABLES
  source, mtime, clock,       \* the source files and the time
  manifest, object, objTime,  \* .liva-cache: files_manifest and the .o files
  sema,                       \* .liva-cache: sema_manifest
  exe, exeTime,               \* build/debug and build/release
  stage, cfg, force,          \* where executeBuild is, and its options
  deps, hash,                 \* depFiles, currentHash
  todo,                       \* the files of toCompile nobody has claimed
  entries,                    \* SemaCache::entries_
  objPath,                    \* allObjPaths: "cache" or "build"
  built,                      \* the .o files in the build directory
  work, holder, failed,       \* the workers, resultMutex, the failed flag
  result,                     \* how the last build ended
  dirty,                      \* edited since the last build began
  builds, edits               \* counters for the bounds

sources == <<source, mtime, clock>>
buildCache == <<manifest, object, objTime>>
exes == <<exe, exeTime>>
plan == <<cfg, force, deps, hash>>
pool == <<todo, work, holder, failed, built, objPath>>
bounds == <<builds, edits>>
vars == <<sources, buildCache, sema, exes, stage, plan, pool, entries, result, dirty, bounds>>

NoMap == [x \in {} |-> x]
Put(m, k, v) == [x \in DOMAIN m \cup {k} |-> IF x = k THEN v ELSE m[x]]
Keep(m, S) == [x \in DOMAIN m \cap S |-> m[x]]

Out == [pc |-> "out"]                   \* a worker that does not run
AllOut == [w \in Worker |-> Out]

Init ==
  /\ source \in [File -> FileText] /\ \A f \in File : source[f] \in FileTexts[f]
  /\ mtime = [f \in File |-> 1] /\ clock = 1
  /\ manifest = [cfg |-> CHOOSE c \in Config : TRUE, entry |-> NoMap]
  /\ object = NoMap /\ objTime = NoMap /\ sema = NoMap
  /\ exe = NoMap /\ exeTime = NoMap
  /\ stage = "idle" /\ cfg = manifest.cfg /\ force = FALSE
  /\ deps = {} /\ hash = NoMap /\ todo = {} /\ entries = NoMap
  /\ objPath = NoMap /\ built = NoMap
  /\ work = AllOut /\ holder = NoWorker /\ failed = FALSE
  /\ result = "none" /\ dirty = FALSE
  /\ builds = 0 /\ edits = 0
-----------------------------------------------------------------------------
(* The programmer.  Edits are at least a second apart.                       *)

Edit(f, x) ==
  /\ stage = "idle" \/ "editInBuild" \in Env
  /\ x.iface = source[f].iface \/ "interface" \in Env
  /\ edits < MaxEdits
  /\ source' = [source EXCEPT ![f] = x]
  /\ clock' = clock + 1 /\ mtime' = [mtime EXCEPT ![f] = clock']
  /\ dirty' = TRUE /\ edits' = edits + 1
  /\ UNCHANGED <<buildCache, sema, exes, stage, plan, pool, entries, result, builds>>
-----------------------------------------------------------------------------
(* executeBuild up to the compilation.                                       *)

\* pruneStaleEntries: forgets the files the entry no longer reaches.
Prune(files) ==
  LET gone == DOMAIN manifest.entry \ files IN
  /\ manifest' = [manifest EXCEPT !.entry = Keep(@, files)]
  /\ object' = Keep(object, File \ gone)
  /\ objTime' = Keep(objTime, File \ gone)

StartBuild(c, rebuild) ==
  /\ stage = "idle" /\ builds < MaxBuilds
  /\ stage' = "check" /\ cfg' = c /\ force' = rebuild
  /\ deps' = Scan(source)
  /\ Prune(deps')
  /\ clock' = clock + 1 /\ dirty' = FALSE /\ result' = "none" /\ builds' = builds + 1
  /\ UNCHANGED <<source, mtime, sema, exes, hash, pool, entries, edits>>

\* Mutant: looks at no time.
CurrentHashTrusted(f) ==
  IF f \in DOMAIN manifest.entry THEN manifest.entry[f].hash ELSE source[f]

\* hashFileContent: an unchanged modification time stands for an unchanged text.
CurrentHash(f) ==
  IF f \in DOMAIN manifest.entry /\ manifest.entry[f].mtime = mtime[f]
  THEN manifest.entry[f].hash ELSE source[f]

\* Mutant: looks at no configuration.
NeedsRecompileAnyConfig(h) ==
  {f \in deps : \/ f \notin DOMAIN manifest.entry
                \/ manifest.entry[f].hash # h[f]
                \/ f \notin DOMAIN object}

\* checkFilesCache
NeedsRecompile(h) ==
  {f \in deps : \/ manifest.cfg # cfg
                \/ f \notin DOMAIN manifest.entry
                \/ manifest.entry[f].hash # h[f]
                \/ f \notin DOMAIN object}

\* SemaCache::check, phase 1 and the cascade of phase 2, over the disk's entries.
SemaStale(h) ==
  {f \in deps : \/ f \notin DOMAIN sema
                \/ sema[f].hash # h[f]
                \/ \E d \in DOMAIN sema[f].snapshot :
                     \/ d \notin DOMAIN sema
                     \/ sema[d].iface # sema[f].snapshot[d]}

\* The least set that holds the stale files and, with a file, its importers.
NeedsResema(h) ==
  LET importers(S) == {f \in deps \cap DOMAIN sema : sema[f].imports \cap S # {}} IN
  {f \in deps : \A S \in SUBSET deps : SemaStale(h) \cup importers(S) \subseteq S => f \in S}

\* Nothing to compile: the objects of the cache are linked, if need be.
Check ==
  /\ stage = "check"
  /\ hash' = [f \in deps |-> CurrentHash(f)]
  /\ entries' = sema
  /\ todo' = IF force THEN deps ELSE NeedsRecompile(hash') \cup NeedsResema(hash')
  /\ objPath' = [f \in deps \ todo' |-> "cache"]
  /\ stage' = IF todo' = {} THEN "cached" ELSE "compile"
  /\ work' = IF todo' = {} THEN AllOut ELSE [w \in Worker |-> [pc |-> "loop"]]
  /\ UNCHANGED <<sources, buildCache, sema, exes, cfg, force, deps, holder, failed, built,
                 result, dirty, bounds>>

\* executeBuild returns: its locals are gone.
Return(r) ==
  /\ stage' = "idle" /\ result' = r
  /\ force' = FALSE /\ deps' = {} /\ hash' = NoMap /\ todo' = {} /\ entries' = NoMap
  /\ objPath' = NoMap /\ built' = NoMap /\ work' = AllOut /\ holder' = NoWorker
  /\ failed' = FALSE
  /\ UNCHANGED cfg

\* linkObjects
Linked ==
  /\ exe' = Put(exe, cfg, [f \in deps |-> IF objPath[f] = "cache" THEN object[f] ELSE built[f]])
  /\ exeTime' = Put(exeTime, cfg, clock)

\* Mutant: looks at no time.
UpToDateIfPresent == cfg \in DOMAIN exe

UpToDate ==
  cfg \in DOMAIN exe /\ \A f \in deps : f \in DOMAIN object /\ objTime[f] <= exeTime[cfg]

ReturnUpToDate ==
  /\ stage = "cached" /\ UpToDate
  /\ Return("ok")
  /\ UNCHANGED <<sources, buildCache, sema, exes, dirty, bounds>>

LinkCached ==
  /\ stage = "cached" /\ ~UpToDate
  /\ Linked
  /\ Return("ok")
  /\ UNCHANGED <<sources, buildCache, sema, dirty, bounds>>

\* Falls through to the compilation, of the files of toCompile: there are none.
LinkCachedFails ==
  /\ stage = "cached" /\ ~UpToDate /\ "linkFails" \in Env
  /\ stage' = "compile"
  /\ UNCHANGED <<sources, buildCache, sema, exes, plan, pool, entries, result, dirty, bounds>>
-----------------------------------------------------------------------------
(* The workers.  The sequential path is the case of a single one.            *)

Step(w, from, to) ==
  stage = "compile" /\ work[w].pc = from /\ work' = [work EXCEPT ![w] = to]

\* while (!failed.load())
Loop(w) ==
  /\ Step(w, "loop", IF failed THEN Out ELSE [pc |-> "claim"])
  /\ UNCHANGED <<sources, buildCache, sema, exes, stage, plan, todo, holder, failed, built,
                 objPath, entries, result, dirty, bounds>>

\* nextWork.fetch_add(1)
Claim(w) ==
  /\ \/ todo = {} /\ Step(w, "claim", Out) /\ UNCHANGED todo
     \/ \E f \in todo :
          Step(w, "claim", [pc |-> "load", file |-> f]) /\ todo' = todo \ {f}
  /\ UNCHANGED <<sources, buildCache, sema, exes, stage, plan, holder, failed, built, objPath,
                 entries, result, dirty, bounds>>

\* loadFile
Load(w) ==
  /\ Step(w, "load", [pc |-> "compile", file |-> work[w].file, text |-> source[work[w].file]])
  /\ UNCHANGED <<sources, buildCache, sema, exes, stage, plan, todo, holder, failed, built,
                 objPath, entries, result, dirty, bounds>>

\* compileToObjectWithMeta: it reads the imported files as they are now.
Compile(w) ==
  LET t == work[w].text
      ok == t.ok /\ \A g \in t.imports : Accepted(g, source)
  IN
  /\ Step(w, "compile", IF ok THEN [work[w] EXCEPT !.pc = "lock"] ELSE Out)
  /\ failed' = (failed \/ ~ok)
  /\ built' = IF ok THEN Put(built, work[w].file, Compiled(t, source, cfg)) ELSE built
  /\ UNCHANGED <<sources, buildCache, sema, exes, stage, plan, todo, holder, objPath, entries,
                 result, dirty, bounds>>

\* Mutant: no mutual exclusion.
LockAlways(w) ==
  /\ holder' = w
  /\ Step(w, "lock", [work[w] EXCEPT !.pc = "copy"])
  /\ UNCHANGED <<sources, buildCache, sema, exes, stage, plan, todo, failed, built, objPath,
                 entries, result, dirty, bounds>>

Lock(w) ==
  /\ holder = NoWorker /\ holder' = w
  /\ Step(w, "lock", [work[w] EXCEPT !.pc = "copy"])
  /\ UNCHANGED <<sources, buildCache, sema, exes, stage, plan, todo, failed, built, objPath,
                 entries, result, dirty, bounds>>

\* storeFileObject, its first half: the object is copied, the manifest is read.
Copy(w) ==
  LET f == work[w].file IN
  /\ Step(w, "copy", [pc |-> "record", file |-> f, text |-> work[w].text, seen |-> manifest])
  /\ object' = Put(object, f, built[f]) /\ objTime' = Put(objTime, f, clock)
  /\ UNCHANGED <<sources, manifest, sema, exes, stage, plan, todo, holder, failed, built,
                 objPath, entries, result, dirty, bounds>>

\* SemaCache::store, with the snapshot of the interfaces it knows of.
SemaEntry(f, text) ==
  LET names == {ImportName(g) : g \in text.imports} IN
  [hash |-> hash[f], iface |-> text.iface, imports |-> names,
   snapshot |-> [n \in names \cap DOMAIN entries |-> entries[n].iface]]

\* Mutant: forgets to unlock.
RecordKeepsLock(w) ==
  LET f == work[w].file IN
  /\ Step(w, "record", [pc |-> "loop"])
  /\ manifest' = [cfg |-> cfg,
                  entry |-> Put(IF work[w].seen.cfg = cfg THEN work[w].seen.entry ELSE NoMap,
                                f, [hash |-> hash[f], mtime |-> mtime[f]])]
  /\ entries' = Put(entries, f, SemaEntry(f, work[w].text))
  /\ objPath' = Put(objPath, f, "build")
  /\ UNCHANGED <<sources, object, objTime, sema, exes, stage, plan, todo, holder, failed, built,
                 result, dirty, bounds>>

\* storeFileObject, its second half: the manifest is written, without the
\* entries of another configuration; then SemaCache::store, and the unlock.
Record(w) ==
  LET f == work[w].file
      seen == work[w].seen
      kept == IF seen.cfg = cfg THEN seen.entry ELSE NoMap
  IN
  /\ Step(w, "record", [pc |-> "loop"])
  /\ manifest' = [cfg |-> cfg,
                  entry |-> Put(kept, f, [hash |-> hash[f], mtime |-> mtime[f]])]
  /\ entries' = Put(entries, f, SemaEntry(f, work[w].text))
  /\ objPath' = Put(objPath, f, "build")
  /\ holder' = NoWorker
  /\ UNCHANGED <<sources, object, objTime, sema, exes, stage, plan, todo, failed, built, result,
                 dirty, bounds>>
-----------------------------------------------------------------------------
(* executeBuild from the join on.                                            *)

\* Mutant: saves the sema manifest only on success.
JoinSavesSuccess ==
  /\ stage = "compile" /\ \A w \in Worker : work[w].pc = "out"
  /\ IF failed THEN Return("failed") /\ UNCHANGED sema
     ELSE stage' = "link" /\ sema' = entries /\ UNCHANGED <<plan, pool, entries, result>>
  /\ UNCHANGED <<sources, buildCache, exes, dirty, bounds>>

\* threads join, and the sema manifest is saved, whatever the outcome.
Join ==
  /\ stage = "compile" /\ \A w \in Worker : work[w].pc = "out"
  /\ sema' = entries
  /\ IF failed THEN Return("failed") ELSE stage' = "link" /\ UNCHANGED <<plan, pool, entries, result>>
  /\ UNCHANGED <<sources, buildCache, exes, dirty, bounds>>

Link ==
  /\ stage = "link"
  /\ Linked
  /\ Return("ok")
  /\ UNCHANGED <<sources, buildCache, sema, dirty, bounds>>

LinkFails ==
  /\ stage = "link" /\ "linkFails" \in Env
  /\ Return("failed")
  /\ UNCHANGED <<sources, buildCache, sema, exes, dirty, bounds>>

\* livac is killed; what is on the disk stays.
Crash ==
  /\ stage # "idle"
  /\ Return("crashed")
  /\ UNCHANGED <<sources, buildCache, sema, exes, dirty, bounds>>
-----------------------------------------------------------------------------
Work(w) == Loop(w) \/ Claim(w) \/ Load(w) \/ Compile(w) \/ Lock(w) \/ Copy(w) \/ Record(w)

Driver == Check \/ ReturnUpToDate \/ LinkCached \/ LinkCachedFails \/ Join \/ Link \/ LinkFails

Next ==
  \/ \E f \in File : \E x \in FileTexts[f] : Edit(f, x)
  \/ \E c \in Config, rebuild \in BOOLEAN : StartBuild(c, rebuild)
  \/ Driver
  \/ \E w \in Worker : Work(w)

NextOrCrash == Next \/ Crash

Spec == Init /\ [][Next]_vars

\* The threads are run, and a mutex is handed to every thread that waits for it:
\* each worker claims finitely many files, so weak fairness is enough.
Fairness == WF_vars(Driver) /\ \A w \in Worker : WF_vars(Work(w))
CrashSpec == Init /\ [][NextOrCrash]_vars
FairSpec == CrashSpec /\ Fairness
-----------------------------------------------------------------------------
(* Properties.                                                               *)

Holding(w) == work[w].pc \in {"copy", "record"}
Claimed(w) == work[w].pc \in {"load", "compile", "lock", "copy", "record"}

Succeeded == stage = "idle" /\ result = "ok" /\ ~dirty

\* After a build that says it succeeded, the executable is linked from the files
\* of the program and from their texts of now: the hash and time checks, the
\* prune and the up-to-date test together hide no edit.
LinkedTexts ==
  Succeeded => /\ cfg \in DOMAIN exe /\ DOMAIN exe[cfg] = Scan(source)
               /\ \A f \in Scan(source) : exe[cfg][f].text = source[f] /\ exe[cfg][f].cfg = cfg

\* SemaCache "invalidates dependents when a file's public API changes": what is
\* linked was compiled against the interfaces of now.
LinkedInterfaces ==
  Succeeded => \A f \in DOMAIN exe[cfg] : \A g \in DOMAIN exe[cfg][f].uses :
                 exe[cfg][f].uses[g] = source[g].iface

\* A build that succeeded gives, in both respects, what a build from scratch
\* would: executeBuild with its caches hides nothing from the programmer.
FreshBuild == LinkedTexts /\ LinkedInterfaces

\* A file is claimed by one worker, once, and resultMutex excludes.
WorkersExclude ==
  /\ \A w \in Worker : Holding(w) <=> holder = w
  /\ \A v, w \in Worker : Claimed(v) /\ Claimed(w) /\ work[v].file = work[w].file => v = w
  /\ \A w \in Worker : Claimed(w) => work[w].file \notin todo \cup DOMAIN objPath

\* What the next check will trust: an entry of the manifest has its object in
\* the cache, compiled from the hashed text and in the manifest's configuration
\* (but for the one being recorded), and its modification time, while the file
\* still has it, is that of the hashed text.
CacheSound ==
  /\ WorkersExclude
  /\ \A f \in DOMAIN manifest.entry :
       LET e == manifest.entry[f] IN
       /\ f \in DOMAIN object
       /\ \/ object[f].text = e.hash /\ object[f].cfg = manifest.cfg
          \/ \E w \in Worker : work[w].pc = "record" /\ work[w].file = f
       /\ e.mtime = mtime[f] => e.hash = source[f]

\* A build that succeeded leaves the caches complete, however its workers
\* interleaved and wherever earlier builds failed or were killed: no worker's
\* record is lost to another's.
WarmCache ==
  Succeeded => Scan(source) \subseteq DOMAIN manifest.entry \cap DOMAIN object \cap DOMAIN sema

\* Without --rebuild, and in the configuration of the cache, a check plans to
\* compile only files that changed, or that reach a changed file, since they
\* were last compiled, be it by a build that failed on another file.
Changed == {f \in File : \/ f \notin DOMAIN manifest.entry
                         \/ manifest.entry[f].hash # source[f]}
NoNeedlessRecompile ==
  [][stage = "check" /\ stage' \in {"cached", "compile"} /\ ~force /\ cfg = manifest.cfg
       => \A f \in todo' : Reach(f, source) \cap Changed # {}]_vars

\* The caches do not show: each change of an executable is one a build from
\* scratch would make.
Clean == INSTANCE CleanBuild
CleanBuildSpec == Clean!Spec

\* Every build ends.
BuildTerminates == [](stage # "idle" => <>(stage = "idle"))
=============================================================================
