------------------------------ MODULE ModuleLoader ------------------------------
(***************************************************************************)
(* ModuleLoader::loadModule and the pass of the type checker that calls it:   *)
(* the checker walks the declarations of a file, an import loads and checks    *)
(* the imported file first, and so on. A step treats one declaration.          *)
(***************************************************************************)
EXTENDS Naturals, Sequences, FiniteSets, SequencesExt

(***************************************************************************)
(* The modules of a Liva program, and what an import is meant to be.         *)
(* A text is NotFound, Unparsable, or the sequence of the declarations of a   *)
(* file: an import of a module, or a function with its name, whether it is    *)
(* pub, and the name it calls (NoCall: none).                                 *)
(***************************************************************************)

CONSTANTS
  Modules, Program,     \* the modules that may be imported; the file that is compiled is one
  NotFound, Unparsable, \* a module without a file; a file with a syntax error
  NoCall

ASSUME ModulesAssumption == IsFiniteSet(Modules) /\ Program \in Modules

ImportOf(m) == [kind |-> "import", of |-> m]
FuncOf(name, pub, calls) == [kind |-> "func", name |-> name, pub |-> pub, calls |-> calls]

DeclsOf(text) == IF text \in {NotFound, Unparsable} THEN <<>> ELSE text
ImportsIn(text) == {d.of : d \in {e \in ToSet(DeclsOf(text)) : e.kind = "import"}}
FuncsIn(text) == {d \in ToSet(DeclsOf(text)) : d.kind = "func"}

(* The reference: what the language says of a set of modules, no loader involved. *)

\* The modules that m reaches: the least set with m that is closed under imports.
ImportClosed(src, names) == \A m \in names : ImportsIn(src[m]) \subseteq names
Needs(src, m) == {n \in Modules : \A names \in SUBSET Modules : m \in names /\ ImportClosed(src, names) => n \in names}
InCycle(src, m) == \E n \in ImportsIn(src[m]) : m \in Needs(src, n)

\* A module exports its pub functions and what it imports.
Exported(src, m) == UNION {{f.name : f \in {g \in FuncsIn(src[n]) : g.pub}} : n \in Needs(src, m)}

Redefines(src, m) ==
  \E i, j \in DOMAIN DeclsOf(src[m]) :
    LET earlier == src[m][j]
        d == src[m][i]
    IN  /\ j < i /\ d.kind = "func"
        /\ IF earlier.kind = "func" THEN earlier.name = d.name ELSE d.name \in Exported(src, earlier.of)

CallsUnknown(src, m) ==
  \E f \in FuncsIn(src[m]) :
    f.calls \notin {NoCall} \cup {g.name : g \in FuncsIn(src[m])} \cup UNION {Exported(src, n) : n \in ImportsIn(src[m])}

WellFormed(src) ==
  \A m \in Needs(src, Program) :
    /\ src[m] \notin {NotFound, Unparsable}
    /\ ~InCycle(src, m) /\ ~Redefines(src, m) /\ ~CallsUnknown(src, m)

-----------------------------------------------------------------------------

CONSTANT Worlds  \* the texts of all modules that Init chooses from

\* The file that is compiled was found and has no syntax error: else livac ends before.
ASSUME WorldsAssumption ==
  \A world \in Worlds :
    /\ world[Program] \notin {NotFound, Unparsable}
    /\ \A m \in Modules :
         /\ DeclsOf(world[m]) \in Seq(ToSet(DeclsOf(world[m])))
         /\ \A d \in ToSet(DeclsOf(world[m])) :
              \/ d.kind = "import" /\ d.of \in Modules
              \/ d.kind = "func" /\ d.pub \in BOOLEAN

VARIABLES
  src,      \* the text of every module
  checking, \* the files being checked, the innermost last: [mod, at, scope, bad]
  cache,    \* cache_: of every module loaded and checked, what it exports and its scope
  loading,  \* loading_
  refusals, \* the errors reported at imports: <<module with the import, kind, imported module>>
  verdict   \* of the program: "running", "accepted" or "refused"

modvars == <<src, checking, cache, loading, refusals, verdict>>

\* A scope maps a name to the function it stands for: the module and the name.
NoNames == [x \in {} |-> <<>>]
FileCheck(m) == [mod |-> m, at |-> 1, scope |-> NoNames, bad |-> FALSE]

Current == Last(checking)
Here == DeclsOf(src[Current.mod])[Current.at]
AtImport == verdict = "running" /\ Current.at <= Len(DeclsOf(src[Current.mod])) /\ Here.kind = "import"
AtEnd == verdict = "running" /\ Current.at > Len(DeclsOf(src[Current.mod]))

NameFor(name, of) == [x \in {name} |-> of]

\* Scope::declare keeps the first of a name.
Extend(scope, names) ==
  [x \in DOMAIN scope \cup DOMAIN names |-> IF x \in DOMAIN scope THEN scope[x] ELSE names[x]]

\* The file goes on after the import or function.
Goes(files, names, bad) ==
  LET f == Last(files)
  IN  Append(Front(files), [f EXCEPT !.at = @ + 1, !.scope = Extend(@, names), !.bad = @ \/ bad])

\* collectExportedSymbols: what cached imports export, and pub functions; Scope::declare
\* keeps the first declaration of a name.
Provides(m, i) ==
  LET d == src[m][i]
  IN  IF d.kind = "import" THEN IF d.of \in DOMAIN cache THEN cache[d.of].exports ELSE NoNames
      ELSE IF d.pub THEN NameFor(d.name, <<m, d.name>>) ELSE NoNames

Exports(m) ==
  LET places == DOMAIN DeclsOf(src[m])
      FirstOf(name) == CHOOSE i \in places : name \in DOMAIN Provides(m, i)
                                          /\ \A j \in places : name \in DOMAIN Provides(m, j) => i <= j
  IN  [name \in UNION {DOMAIN Provides(m, i) : i \in places} |-> Provides(m, FirstOf(name))[name]]

ModInit ==
  /\ src \in Worlds
  /\ checking = <<FileCheck(Program)>>
  /\ cache = [m \in {} |-> <<>>] /\ loading = {} /\ refusals = {} /\ verdict = "running"

ImportCached ==
  /\ AtImport /\ Here.of \in DOMAIN cache
  /\ checking' = Goes(checking, cache[Here.of].exports, FALSE)
  /\ UNCHANGED <<src, cache, loading, refusals, verdict>>

\* The caller reports the error and goes on without the names.
Refuse(kind) ==
  /\ checking' = Goes(checking, NoNames, TRUE)
  /\ refusals' = refusals \cup {<<Current.mod, kind, Here.of>>}

ImportCircular ==
  /\ AtImport /\ Here.of \notin DOMAIN cache /\ Here.of \in loading
  /\ Refuse("circular")
  /\ UNCHANGED <<src, cache, loading, verdict>>

\* No such file, or syntax errors: the module leaves loading_ again at once.
ImportUnusable ==
  /\ AtImport /\ Here.of \notin DOMAIN cache \cup loading
  /\ \/ src[Here.of] = NotFound /\ Refuse("notFound")
     \/ src[Here.of] = Unparsable /\ Refuse("moduleError")
  /\ UNCHANGED <<src, cache, loading, verdict>>

ImportBegins ==
  /\ AtImport /\ Here.of \notin DOMAIN cache \cup loading
  /\ src[Here.of] \notin {NotFound, Unparsable}
  /\ loading' = loading \cup {Here.of}
  /\ checking' = Append(checking, FileCheck(Here.of))
  /\ UNCHANGED <<src, cache, refusals, verdict>>

DeclareFunc ==
  /\ verdict = "running" /\ Current.at <= Len(DeclsOf(src[Current.mod])) /\ Here.kind = "func"
  /\ checking' = Goes(checking, NameFor(Here.name, <<Current.mod, Here.name>>), Here.name \in DOMAIN Current.scope)
  /\ UNCHANGED <<src, cache, loading, refusals, verdict>>

\* The second pass: the bodies.
Passes(f) == ~f.bad /\ \A g \in FuncsIn(src[f.mod]) : g.calls \in DOMAIN f.scope \cup {NoCall}

\* Mutant: a module that failed stays in loading_.
UnloadOnlyIfAccepted(m) == IF Passes(Current) THEN loading \ {m} ELSE loading

\* Whether it failed or not, it is being loaded no more.
Unload(m) == loading \ {m}

ModuleDone ==
  /\ AtEnd /\ Len(checking) > 1
  /\ loading' = Unload(Current.mod)
  /\ IF Passes(Current)
     THEN /\ cache' = [m \in DOMAIN cache \cup {Current.mod} |->
                       IF m = Current.mod THEN [exports |-> Exports(m), scope |-> Current.scope] ELSE cache[m]]
          /\ checking' = Goes(Front(checking), Exports(Current.mod), FALSE)
          /\ UNCHANGED refusals
     ELSE /\ checking' = Goes(Front(checking), NoNames, TRUE)
          /\ refusals' = refusals \cup {<<Last(Front(checking)).mod, "moduleError", Current.mod>>}
          /\ UNCHANGED cache
  /\ UNCHANGED <<src, verdict>>

ProgramDone ==
  /\ AtEnd /\ Len(checking) = 1
  /\ verdict' = IF Passes(Current) THEN "accepted" ELSE "refused"
  /\ UNCHANGED <<src, checking, cache, loading, refusals>>

ModNext ==
  \/ ImportCached \/ ImportCircular \/ ImportUnusable \/ ImportBegins
  \/ DeclareFunc \/ ModuleDone \/ ProgramDone

ModSpec == ModInit /\ [][ModNext]_modvars

-------------------------------------------------------------------------------

ModTypeOK ==
  /\ src \in Worlds /\ loading \subseteq Modules
  /\ verdict \in {"running", "accepted", "refused"}
  /\ refusals \subseteq Modules \X {"circular", "notFound", "moduleError"} \X Modules
  /\ DOMAIN cache \subseteq Modules
  /\ \A i \in DOMAIN checking : checking[i].mod \in Modules /\ checking[i].bad \in BOOLEAN

\* loadModule and the checker accept a program when, and only when, every module it
\* reaches is found and parsed, none reaches itself, and none redefines a name or calls
\* one it does not see -- through whatever nesting of loads, diamonds and modules that
\* fail and are met again; and what they take for circular is a cycle.
LoaderDecides ==
  /\ verdict # "running" => (verdict = "accepted" <=> WellFormed(src))
  /\ \A r \in refusals : r[2] = "circular" => r[1] \in Needs(src, r[3])
=================================================================================
