------------------------------- MODULE MCModules -------------------------------
(***************************************************************************)
(* Small programs for ModuleLoader and ModuleCode: a file and two modules,    *)
(* each with up to three declarations, importing each other in every way.     *)
(***************************************************************************)
EXTENDS ModuleCode

MCModuleNames == {"app", "a", "b"}

Own(name, calls) == FuncOf(name, FALSE, calls)
Pub(name, calls) == FuncOf(name, TRUE, calls)

AppTexts ==
  {<<d, e, Own("main", "f")>> : d, e \in {ImportOf("a"), ImportOf("b"), Own("f", ""), Own("g", "f"), Pub("h", "g")}}

ModuleTextsOf(other) ==
  {NotFound, Unparsable, <<Pub("f", "")>>, <<Own("f", ""), Pub("g", "f")>>,
   <<Pub("g", "f"), Own("f", "")>>, <<Own("f", ""), Pub("g", "h")>>,
   <<ImportOf(other)>>, <<ImportOf(other), Pub("f", "g")>>, <<Own("f", ""), ImportOf(other), Pub("h", "f")>>,
   <<ImportOf("app"), Pub("f", "")>>, <<ImportOf(other), Own("main", "")>>}

MCWorlds ==
  {"app" :> p @@ "a" :> x @@ "b" :> y : p \in AppTexts, x \in ModuleTextsOf("b"), y \in ModuleTextsOf("a")}
================================================================================
