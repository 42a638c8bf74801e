------------------------------- MODULE MCTools -------------------------------
(***************************************************************************)
(* Parts of the tool chain in one run; the first state chooses one: the debug *)
(* server, the language server, the compiler's classes and the objects made   *)
(* of them, the loading of modules, the packages of a project, or its builds. *)
(***************************************************************************)
EXTENDS MCDebug, LanguageServer, ClassObjects, MCModules, PackageManager, MCIncrementalBuild

(* Documents, texts and requests for LanguageServer. *)

F(name, callees) == [name |-> name, calls |-> callees, broken |-> FALSE]
Broken(name) == [name |-> name, calls |-> <<>>, broken |-> TRUE]

MCUris == <<"a", "b">>

MCTexts == {<<>>, <<F("f", <<"g", "g">>), F("g", <<>>)>>, <<F("g", <<"f">>), Broken("f")>>}

Ask(how, u, at, name) == [method |-> how, uri |-> u, at |-> at, name |-> name]

AtCall == {"references", "rename", "definition", "codeAction", "codeLens", "signatureHelp", "inlayHint"}
OfText == {"documentSymbol", "prepareCall", "completion", "hover", "foldingRange", "formatting"}
OfName == {"workspaceSymbol", "incomingCalls", "outgoingCalls", "shutdown"}

MCAsks ==
  {Ask(how, "a", <<1, 1>>, NoName) : how \in AtCall} \cup {Ask(how, "a", <<1, 0>>, NoName) : how \in OfText}
  \cup {Ask(how, "a", <<1, 0>>, "f") : how \in OfName}
  \cup {Ask("codeLens", "b", <<1, 0>>, NoName), Ask("highlight", "b", <<2, 0>>, NoName)}

-------------------------------------------------------------------------------
(* Hierarchies of three classes: any shape; fields or methods. *)

Parents == {<<0, p, q>> : p \in 0 .. 1, q \in 0 .. 2}
Declared(parents, fields, methods) ==
  [k \in 1 .. 3 |-> [parent |-> parents[k], fields |-> fields[k], methods |-> methods[k]]]
None == [k \in 1 .. 3 |-> <<>>]
FieldLists == {<<>>, <<"x">>, <<"y">>, <<"x", "y">>, <<"y", "x">>}
MethodLists == {<<>>, <<"m">>, <<"n">>, <<"m", "n">>, <<"n", "m">>}

MCHierarchies ==
  {Declared(p, fields, None) : p \in Parents, fields \in [1 .. 3 -> FieldLists]} \cup
  {Declared(p, None, methods) : p \in Parents, methods \in [1 .. 3 -> MethodLists]}

-------------------------------------------------------------------------------
(* A registry of three packages: two need each other in some versions, and a  *)
(* constraint comes to a package from two sides.                              *)

V(a, b, c) == <<a, b, c>>

MCPackageNames == {"p", "q", "r"}
MCReleases ==
  "p" :> {V(1, 0, 0), V(1, 2, 0), V(2, 0, 0)} @@ "q" :> {V(0, 1, 0), V(0, 1, 5), V(0, 2, 0)} @@ "r" :> {V(1, 0, 0)}
MCRequires ==
  <<"p", V(1, 0, 0)>> :> {Dep("q", Tilde(V(0, 1, 0)))} @@
  <<"p", V(1, 2, 0)>> :> {Dep("q", Caret(V(0, 1, 0))), Dep("r", Minimum(V(1, 0, 0)))} @@
  <<"p", V(2, 0, 0)>> :> {} @@
  <<"q", V(0, 1, 0)>> :> {} @@
  <<"q", V(0, 1, 5)>> :> {Dep("p", Between(V(1, 0, 0), V(2, 0, 0)))} @@
  <<"q", V(0, 2, 0)>> :> {Dep("r", Exact(V(2, 0, 0)))} @@
  <<"r", V(1, 0, 0)>> :> {Dep("q", Minimum(V(0, 1, 0)))}
MCManifests ==
  {{}, {Dep("p", Caret(V(1, 0, 0)))}, {Dep("p", Exact(V(1, 0, 0))), Dep("r", Latest)}, {Dep("q", Latest)}}
MCRequests == {Dep("p", Latest), Dep("p", Caret(V(1, 0, 0))), Dep("q", Exact(V(0, 1, 5))), Dep("r", Caret(V(1, 0, 0)))}

-------------------------------------------------------------------------------
(* The run. *)

VARIABLE tool

tvars == <<tool, dvars, lvars, objectVars, modvars, pkgvars, vars>>

SomeHierarchy == CHOOSE h \in MCHierarchies : TRUE
SomeWorld == CHOOSE w \in MCWorlds : TRUE
SomeManifest == {}
SomeSource == [f \in File |-> CHOOSE t \in FileTexts[f] : TRUE]

TInit ==
  /\ tool \in {"dap", "lsp", "classes", "modules", "packages", "builds"}
  /\ tool # "modules" => src = SomeWorld
  /\ tool # "packages" => wanted = SomeManifest
  /\ tool # "classes" => hierarchy = SomeHierarchy
  /\ tool # "builds" => source = SomeSource
  /\ tool # "dap" => program = "calls"
  /\ DInit /\ LInit /\ ObjectInit /\ ModInit /\ PkgInit /\ Init

TNext ==
  /\ UNCHANGED tool
  /\ \/ tool = "dap" /\ DNext /\ UNCHANGED <<lvars, objectVars, modvars, pkgvars, vars>>
     \/ tool = "lsp" /\ LNext /\ UNCHANGED <<dvars, objectVars, modvars, pkgvars, vars>>
     \/ tool = "classes" /\ ObjectNext /\ UNCHANGED <<dvars, lvars, modvars, pkgvars, vars>>
     \/ tool = "modules" /\ ModNext /\ UNCHANGED <<dvars, lvars, objectVars, pkgvars, vars>>
     \/ tool = "packages" /\ PkgNext /\ UNCHANGED <<dvars, lvars, objectVars, modvars, vars>>
     \/ tool = "builds" /\ NextOrCrash /\ UNCHANGED <<dvars, lvars, objectVars, modvars, pkgvars>>

TSpec == TInit /\ [][TNext]_tvars /\ WF_lvars(dispatch) /\ Fairness
=============================================================================
