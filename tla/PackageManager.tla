----------------------------- MODULE PackageManager -----------------------------
(***************************************************************************)
(* livac build, install and remove as far as they deal with packages: the     *)
(* depth-first resolution that takes what packages/ holds and downloads the    *)
(* rest, liva.toml and liva.lock. A step treats one dependency; downloads and  *)
(* extractions may fail, and a command may be killed between two steps.        *)
(***************************************************************************)
EXTENDS Naturals, Sequences, FiniteSets, SequencesExt, TLC

(***************************************************************************)
(* Versions <<major, minor, patch>> and the constraints on them that a        *)
(* liva.toml may state.                                                       *)
(***************************************************************************)

Version == Nat \X Nat \X Nat

Below(v, w) ==
  \/ v[1] < w[1]
  \/ v[1] = w[1] /\ v[2] < w[2]
  \/ v[1] = w[1] /\ v[2] = w[2] /\ v[3] < w[3]

Exact(v) == [kind |-> "exact", min |-> v, max |-> v]
Minimum(v) == [kind |-> "minimum", min |-> v, max |-> v]
Between(v, w) == [kind |-> "range", min |-> v, max |-> w]

\* "^1.2.3": up to the next change of the first part that is not zero.
Caret(v) ==
  Between(v, CASE v[1] > 0 -> <<v[1] + 1, 0, 0>>
               [] v[1] = 0 /\ v[2] > 0 -> <<0, v[2] + 1, 0>>
               [] OTHER -> <<0, 0, v[3] + 1>>)

\* "~1.2.3": up to the next minor version.
Tilde(v) == Between(v, <<v[1], v[2] + 1, 0>>)

SatisfiedBy(c, v) ==
  CASE c.kind = "exact" -> v = c.min
    [] c.kind = "minimum" -> ~Below(v, c.min)
    [] c.kind = "range" -> ~Below(v, c.min) /\ Below(v, c.max)

-----------------------------------------------------------------------------

CONSTANTS
  Packages,
  Releases,     \* the registry: of every package the versions it offers
  Requires,     \* of every release <<p, v>>, its dependencies: a set of [name, constraint]
  Manifests,    \* the dependencies a project may start with
  Requests,     \* what is asked of install: a set of [name, constraint]
  NoVersion,
  MaxCommands, MaxFaults

ASSUME PackagesAssumption ==
  /\ NoVersion \notin Version
  /\ \A p \in Packages : Releases[p] \subseteq Version /\ IsFiniteSet(Releases[p])
  /\ \A p \in Packages : \A v \in Releases[p] : \A d \in Requires[<<p, v>>] : d.name \in Packages
  /\ MaxCommands \in Nat /\ MaxFaults \in Nat

\* A manifest states a dependency once: parseDependencies gives a map.
ASSUME ManifestsAssumption ==
  /\ \A deps \in Manifests : \A d, e \in deps : d.name \in Packages /\ (d.name = e.name => d = e)
  /\ \A d \in Requests : d.name \in Packages

VARIABLES
  wanted, \* [dependencies] of liva.toml: a set of [name, constraint], one per name
  disk,     \* packages/: the version in each package's liva.toml; NoVersion: there is none
  lock,     \* liva.lock: pairs of a name and a version
  command,  \* the running command, or the last one, and its outcome
  pending,  \* resolveDependencyTree: the dependencies each call has left, the innermost last
  resolved, \* the packages resolved so far, in order
  resolving,\* the names on the way to the innermost call, as the code keeps them
  commands, faults

pkgvars == <<wanted, disk, lock, command, pending, resolved, resolving, commands, faults>>

Dep(p, c) == [name |-> p, constraint |-> c]
Idle == command.outcome # "running"
ResolvedNames == {r[1] : r \in ToSet(resolved)}

\* resolveLocal
Local(d) == disk[d.name] # NoVersion /\ SatisfiedBy(d.constraint, disk[d.name])

\* queryRegistry: the highest release that satisfies the constraint.
Acceptable(d) == {v \in Releases[d.name] : SatisfiedBy(d.constraint, v)}
Best(d) == CHOOSE v \in Acceptable(d) : \A w \in Acceptable(d) : ~Below(v, w)

\* resolvePackages: every direct dependency is in packages/.
AllIn(content, deps) ==
  \A d \in deps : content[d.name] # NoVersion /\ SatisfiedBy(d.constraint, content[d.name])

LockOf(content, deps) == {<<d.name, content[d.name]>> : d \in deps}

Begun(op, d) == [op |-> op, dep |-> d, outcome |-> "running", faulty |-> FALSE, at |-> d]

\* install without a version: any will do.
Latest == Minimum(<<0, 0, 0>>)
NoDep == Dep(".", Exact(<<0, 0, 0>>))

PkgInit ==
  /\ wanted \in Manifests
  /\ disk = [p \in Packages |-> NoVersion] /\ lock = {}
  /\ command = [Begun("build", NoDep) EXCEPT !.outcome = "none"]
  /\ pending = <<>> /\ resolved = <<>> /\ resolving = {}
  /\ commands = 0 /\ faults = 0

-------------------------------------------------------------------------------
(* The three commands. *)

BeginBuild ==
  /\ Idle /\ commands < MaxCommands /\ commands' = commands + 1
  /\ command' = Begun("build", NoDep)
  /\ pending' = <<[of |-> ".", deps |-> wanted]>> /\ resolved' = <<>> /\ resolving' = {}
  /\ UNCHANGED <<wanted, disk, lock, faults>>

\* executeInstall at its end: the dependency goes into liva.toml, with the version found
\* when none was asked for; the lock is written anew if all direct dependencies are there.
WithDep(d, content) ==
  {e \in wanted : e.name # d.name}
    \cup {IF d.constraint = Latest THEN Dep(d.name, Exact(content[d.name])) ELSE d}

Installed(d) ==
  /\ wanted' = WithDep(d, disk)
  /\ lock' = IF AllIn(disk, wanted') THEN LockOf(disk, wanted') ELSE lock

\* installSingle is content with what packages/ holds, whatever that depends on.
InstallLocal(d) ==
  /\ Idle /\ commands < MaxCommands /\ commands' = commands + 1
  /\ Local(d)
  /\ command' = [Begun("install", d) EXCEPT !.outcome = "ok"]
  /\ Installed(d)
  /\ UNCHANGED <<disk, pending, resolved, resolving, faults>>

BeginInstall(d) ==
  /\ Idle /\ commands < MaxCommands /\ commands' = commands + 1
  /\ ~Local(d)
  /\ command' = Begun("install", d)
  /\ pending' = <<[of |-> ".", deps |-> {d}]>> /\ resolved' = <<>> /\ resolving' = {}
  /\ UNCHANGED <<wanted, disk, lock, faults>>

\* The lock goes when a dependency that is left is not there, too.
RemovePackage(p) ==
  LET rest == {d \in wanted : d.name # p}
  IN  /\ Idle /\ commands < MaxCommands /\ commands' = commands + 1
      /\ rest # wanted
      /\ wanted' = rest /\ disk' = [disk EXCEPT ![p] = NoVersion]
      /\ lock' = IF AllIn(disk', rest) THEN LockOf(disk', rest) ELSE {}
      /\ command' = [Begun("remove", NoDep) EXCEPT !.outcome = "ok"]
      /\ UNCHANGED <<pending, resolved, resolving, faults>>

-------------------------------------------------------------------------------
(* resolveDependencyTree. d is any dependency left: parseDependencies gives them in  *)
(* the order of a hash table.                                                       *)

Left == Last(pending).deps
Without(d) == [pending EXCEPT ![Len(pending)].deps = @ \ {d}]
Unresolved(d) == d.name \notin ResolvedNames \cup resolving

SkipResolved(d) ==
  /\ d.name \in ResolvedNames
  /\ pending' = Without(d)
  /\ UNCHANGED <<wanted, disk, lock, command, resolved, resolving, commands, faults>>

\* Mutant: a package is on its way until its own dependencies are resolved.
DescendUnresolved(d, v) ==
  /\ resolved' = resolved
  /\ resolving' = resolving \cup {d.name}
  /\ pending' = Append(Without(d), [of |-> d.name, deps |-> Requires[<<d.name, v>>]])

\* The package is resolved before its own dependencies are.
Descend(d, v) ==
  /\ resolved' = Append(resolved, <<d.name, v>>)
  /\ resolving' = resolving \cup {d.name}
  /\ pending' = Append(Without(d), [of |-> d.name, deps |-> Requires[<<d.name, v>>]])

\* Mutant: what a package that is there needs is taken to be there.
TakeLocalAlone(d) ==
  /\ Unresolved(d) /\ Local(d)
  /\ resolved' = Append(resolved, <<d.name, disk[d.name]>>)
  /\ pending' = Without(d)
  /\ UNCHANGED <<wanted, disk, lock, command, resolving, commands, faults>>

TakeLocal(d) ==
  /\ Unresolved(d) /\ Local(d)
  /\ Descend(d, disk[d.name])
  /\ UNCHANGED <<wanted, disk, lock, command, commands, faults>>

\* installPackage: downloaded, verified, and extracted over what is there.
Fetch(d) ==
  /\ Unresolved(d) /\ ~Local(d) /\ Acceptable(d) # {}
  /\ disk' = [disk EXCEPT ![d.name] = Best(d)]
  /\ Descend(d, Best(d))
  /\ UNCHANGED <<wanted, lock, command, commands, faults>>

Gives(outcome, d) == command' = [command EXCEPT !.outcome = outcome, !.at = d]

Refused(d) ==
  /\ d.name \notin ResolvedNames
  /\ \/ d.name \in resolving
     \/ ~Local(d) /\ Acceptable(d) = {}
  /\ Gives("failed", d)
  /\ UNCHANGED <<wanted, disk, lock, pending, resolved, resolving, commands, faults>>

\* The registry, the download, the checksum or the extraction fails, or the command is
\* killed meanwhile; an extraction may have come past liva.toml.
FetchFails(d) ==
  /\ Unresolved(d) /\ ~Local(d) /\ Acceptable(d) # {}
  /\ faults < MaxFaults /\ faults' = faults + 1
  /\ \E v \in {disk[d.name], Best(d)} : disk' = [disk EXCEPT ![d.name] = v]
  /\ \E outcome \in {"failed", "killed"} :
       command' = [command EXCEPT !.outcome = outcome, !.at = d, !.faulty = TRUE]
  /\ UNCHANGED <<wanted, lock, pending, resolved, resolving, commands>>

LeaveTree ==
  /\ Left = {} /\ Len(pending) > 1
  /\ pending' = Front(pending)
  /\ resolving' = resolving \ {Last(pending).of}
  /\ UNCHANGED <<wanted, disk, lock, command, resolved, commands, faults>>

\* executeBuild looks at packages and lock only if there are dependencies at all.
BuildResolved ==
  /\ command.op = "build" /\ Left = {} /\ Len(pending) = 1
  /\ lock' = IF wanted = {} THEN lock ELSE ToSet(resolved)
  /\ Gives("ok", NoDep)
  /\ UNCHANGED <<wanted, disk, pending, resolved, resolving, commands, faults>>

InstallResolved ==
  /\ command.op = "install" /\ Left = {} /\ Len(pending) = 1
  /\ Installed(command.dep)
  /\ Gives("ok", NoDep)
  /\ UNCHANGED <<disk, pending, resolved, resolving, commands, faults>>

Kill ==
  /\ faults < MaxFaults /\ faults' = faults + 1
  /\ command' = [command EXCEPT !.outcome = "killed", !.faulty = TRUE]
  /\ UNCHANGED <<wanted, disk, lock, pending, resolved, resolving, commands>>

Resolve ==
  /\ ~Idle
  /\ \/ \E d \in Left : SkipResolved(d) \/ TakeLocal(d) \/ Fetch(d) \/ Refused(d) \/ FetchFails(d)
     \/ LeaveTree \/ BuildResolved \/ InstallResolved \/ Kill

PkgNext ==
  \/ BeginBuild
  \/ \E d \in Requests : InstallLocal(d) \/ BeginInstall(d)
  \/ \E p \in Packages : RemovePackage(p)
  \/ Resolve

PkgSpec == PkgInit /\ [][PkgNext]_pkgvars

-------------------------------------------------------------------------------

PkgTypeOK ==
  /\ \A p \in Packages : disk[p] \in Releases[p] \cup {NoVersion}
  /\ \A d, e \in wanted : d.name = e.name => d = e
  /\ command.outcome \in {"none", "running", "ok", "failed", "killed"}
  /\ resolving \subseteq Packages /\ commands \in 0..MaxCommands /\ faults \in 0..MaxFaults

\* Sets of packages with what the manifest names and what each of them that is in
\* packages/ requires,
ClosedSets ==
  {names \in SUBSET Packages :
     /\ {d.name : d \in wanted} \subseteq names
     /\ \A p \in names : disk[p] # NoVersion => {d.name : d \in Requires[<<p, disk[p]>>]} \subseteq names}

\* and the least of them: the packages a program with that manifest needs.
Needed == {p \in Packages : \A names \in ClosedSets : p \in names}

\* A build that went on to compile has resolved what the program needs, no more, each
\* package once, in the version packages/ holds and for a constraint that version
\* satisfies, and liva.lock says the same; whatever earlier commands, failures and kills
\* left in packages/, and although packages may need each other in a cycle.
BuildResolves ==
  command.op = "build" /\ command.outcome = "ok" /\ wanted # {} =>
    /\ ResolvedNames = Needed /\ Len(resolved) = Cardinality(ResolvedNames)
    /\ lock = ToSet(resolved)
    /\ \A r \in ToSet(resolved) :
         /\ disk[r[1]] = r[2]
         /\ \E d \in wanted \cup UNION {Requires[q] : q \in ToSet(resolved)} :
              d.name = r[1] /\ SatisfiedBy(d.constraint, r[2])

\* A build or an install is refused only where something failed on the way, or where
\* the registry offers no version that the dependency it stopped at accepts: never
\* because of packages that need each other.
RefusedForAReason ==
  command.outcome = "failed" =>
    \/ command.faulty
    \/ Acceptable(command.at) = {} /\ ~Local(command.at)
=================================================================================
