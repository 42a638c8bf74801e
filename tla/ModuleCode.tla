------------------------------- MODULE ModuleCode -------------------------------
(***************************************************************************)
(* The functions of an accepted program in the generated code: which names    *)
(* an LLVM module gives them, what a call finds under a name, and what the    *)
(* linker makes of the names left open. A separate compilation (livac build)  *)
(* emits one LLVM module per file and declares what it imports; any other     *)
(* compilation emits the whole program as one LLVM module.                    *)
(***************************************************************************)
EXTENDS ModuleLoader, TLC

CONSTANT Separate  \* separateCompilation_

Extern == "extern"  \* a declaration: the linker finds the function

\* The state of a generator: the modules visited, the function each name of the LLVM
\* module stands for, the functions defined, each with the name it got, and the calls.
Fresh0 == [visited |-> {}, named |-> NoNames, defined |-> {}, calls |-> {}]

\* visitFuncDecl of function f of module m: LLVM gives it another name when the
\* module has a function of that name already. A call takes module_->getFunction(name);
\* <<>>: there is none, and the generator gives up.
Define(gen, m, f) ==
  LET named == gen.named @@ (f.name :> <<m, f.name>>)
      to == IF f.calls \in DOMAIN named THEN named[f.calls] ELSE <<>>
  IN  [gen EXCEPT
         !.named = named,
         !.defined = @ \cup {[of |-> <<m, f.name>>, renamed |-> f.name \in DOMAIN gen.named,
                              public |-> f.pub \/ ~Separate \/ f.name = "main"]},
         !.calls = IF f.calls = NoCall THEN @
                   ELSE @ \cup {[from |-> <<m, f.name>>, name |-> f.calls, to |-> to]}]

\* Mutant: functions that are not pub are declared too.
DeclaresAll(gen, f) == [gen EXCEPT !.named = @ @@ (f.name :> <<Extern, f.name>>)]

\* declareExternFunction, of the pub functions of an imported module.
Declares(gen, f) ==
  IF f.pub THEN [gen EXCEPT !.named = @ @@ (f.name :> <<Extern, f.name>>)] ELSE gen

\* The declarations of module m from the i-th on; unit: m is the file being compiled.
\* visitImportDecl visits a module once.
RECURSIVE Emit(_, _, _, _)
Emit(gen, m, i, unit) ==
  IF i > Len(DeclsOf(src[m])) THEN gen
  ELSE LET d == src[m][i]
           next == IF d.kind = "import"
                   THEN IF d.of \in gen.visited THEN gen
                        ELSE Emit([gen EXCEPT !.visited = @ \cup {d.of}], d.of, 1, FALSE)
                   ELSE IF unit \/ ~Separate THEN Define(gen, m, d) ELSE Declares(gen, d)
       IN  Emit(next, m, i + 1, unit)

Units == IF Separate THEN Needs(src, Program) ELSE {Program}
ObjectFile == [m \in Units |-> Emit(Fresh0, m, 1, TRUE)]

Open(d) == d.public /\ ~d.renamed
Definitions == UNION {{d.of : d \in {e \in ObjectFile[m].defined : Open(e)}} : m \in Units}

\* The generator finds every callee, the linker one definition of every name.
Links ==
  /\ \A m \in Units : \A c \in ObjectFile[m].calls : c.to # <<>>
  /\ \A p, q \in Definitions : p[2] = q[2] => p = q

\* The function a call runs; <<>>: the linker finds none.
Target(c) ==
  IF c.to[1] # Extern THEN c.to
  ELSE LET found == {d \in Definitions : d[2] = c.to[2]}
       IN  IF found = {} THEN <<>> ELSE CHOOSE d \in found : TRUE

Scope(m) == IF m = Program THEN Current.scope ELSE cache[m].scope
IsPub(f) == \E g \in FuncsIn(src[f[1]]) : g.name = f[2] /\ g.pub

\* In a program that is accepted, generated and linked, every call runs the function the
\* checker found for its name: the first of the scope (imports and functions in their
\* order) is the first that the LLVM module or the linker knows under that name.
CallsReachTheirFunction ==
  verdict = "accepted" /\ Links =>
    \A m \in Units : \A c \in ObjectFile[m].calls : Target(c) = Scope(m)[c.name]

\* A function that is not pub is called from its own module only.
PrivateStaysPrivate ==
  verdict = "accepted" /\ Links =>
    \A m \in Units : \A c \in ObjectFile[m].calls :
      Target(c)[1] # c.from[1] => IsPub(Target(c))
=================================================================================
