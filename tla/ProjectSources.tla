--------------------------- MODULE ProjectSources ---------------------------
(* The sources of a project, what it means to compile one of them, and what  *)
(* a build from scratch produces (src/Driver, separate compilation).         *)
EXTENDS Naturals, FiniteSets

CONSTANTS
  File, Entry,   \* the source files; Entry holds main
  FileTexts,         \* the texts each file may have: FileTexts[f] is a set of records
  Config         \* the build configurations (optimisation level, debug info)

\* A text has the files it imports, its public interface, a body, and whether
\* the compiler accepts it.
FileText == UNION {FileTexts[f] : f \in File}

ASSUME SourceAssumption ==
  /\ IsFiniteSet(File) /\ Entry \in File
  /\ \A x \in FileText : x.imports \subseteq File /\ x.ok \in BOOLEAN

\* The files reachable from f through imports: what scanDependencies collects
\* from the entry, and what the module loader parses and checks for f.  It is the
\* least set with f in it that holds what its members import.
Reach(f, source) ==
  {g \in File : \A S \in SUBSET File :
     f \in S /\ (\A h \in S : source[h].imports \subseteq S) => g \in S}

Scan(source) == Reach(Entry, source)

\* Semantic analysis of f fails with an error of f or of a module it loads.
Accepted(f, source) == \A g \in Reach(f, source) : source[g].ok

\* The object file of f depends on its own text and on the interfaces of the
\* files it imports, which it only declares.
Compiled(text, source, c) ==
  [text |-> text, cfg |-> c, uses |-> [g \in text.imports |-> source[g].iface]]

FromScratch(source, c) == [f \in Scan(source) |-> Compiled(source[f], source, c)]
=============================================================================
