----------------------------- MODULE Ownership -----------------------------
(***************************************************************************)
(* A function of the language is written statement by statement; every      *)
(* statement is visited by the ownership checker, compiled by the generator *)
(* and executed on a path of the function, all in one step.  A statement    *)
(* that the checker refuses is no step: the model has the programs that     *)
(* compile.                                                                 *)
(*                                                                         *)
(* The language of the model: variables of type R, a struct that conforms   *)
(* to Drop, and R?, references to an R, if and if let with their else,      *)
(* return.  A variable that a block shadowed is not mentioned after that    *)
(* block, names of references are used for nothing else and shadow nothing, *)
(* and nothing follows a return in its block.  Loops, calls and closures    *)
(* are left out.                                                            *)
(***************************************************************************)
EXTENDS DropCode

CONSTANTS
  MaxStmts,   \* bound on the statements of a function
  MaxDepth    \* bound on the nesting of its blocks

Sema == INSTANCE OwnershipChecker WITH Name <- Name \cup RefName

VARIABLES
  checker,   \* the ownership checker
  code,      \* the generator
  machine,   \* the machine
  blocks,    \* the open blocks of the function, innermost last
  hidden,    \* the variables that a closed block shadowed
  finished,  \* the references that are not mentioned again
  count,     \* the statements so far
  gap        \* the worst of the statements so far, see below

\* "missed":   the generator did not see a move that the checker saw: in
\*             let n: R? = x, in r = x with r a reference, or because a name was
\*             declared again in the block of the if let that had moved it
\* "misdirected": the checker gives a borrow back to another variable than the one
\*             that was borrowed, which a declaration in the same block shadows
\* "leak":     a statement did not run, a name was declared twice, a value was
\*             overwritten, a variable was declared in an if let or inferred
\*             to be an R?
\* "none":     neither

ovars == <<checker, code, machine, blocks, hidden, finished, count, gap>>

\* A block: the names it declares, each with its type and its slot (for a reference,
\* that of the variable it borrows); the checker's scope for them; whether it was
\* reached and taken; whether its last statement is a return; for an if let, the
\* binding and the generator's maps to go back to.
Block(kind, names, scope, reached, taken, binding, saved) ==
  [kind |-> kind, names |-> names, scope |-> scope, reached |-> reached, taken |-> taken,
   left |-> FALSE, binding |-> binding, saved |-> saved]

\* A name's entry in its block.
Entry(type, slot) == [type |-> type, slot |-> slot]

OInit ==
  /\ checker = Sema!pushOwnershipScope(Sema!Checker)
  /\ code = Generator
  /\ machine = Machine
  /\ blocks = <<Block("body", Sema!NoEntries, 2, TRUE, TRUE, NoName, Generator)>>
  /\ hidden = {} /\ finished = {}
  /\ count = 0
  /\ gap = "none"

-----------------------------------------------------------------------------
Top == Len(blocks)

\* The machine at the start of a step: what was read before is forgotten.
current == [machine EXCEPT !.read = noRead]

Declaring(n) == {i \in DOMAIN blocks : n \in DOMAIN blocks[i].names}

Visible(n) == Declaring(n) # {} /\ n \notin hidden \cup finished

Type(n) ==
  LET i == CHOOSE i \in Declaring(n) : \A j \in Declaring(n) : j <= i
  IN  blocks[i].names[n].type

Slot(n) == code.namedValues[n]

Leaks(b) == IF b /\ gap = "none" THEN "leak" ELSE gap

Open == blocks # <<>> /\ ~blocks[Top].left /\ count < MaxStmts

\* A statement ends: the checker gives back the borrow of reference r, which is bound
\* in this block and mentioned no more; NoName: of none.  The code gives each
\* back after the last statement that mentions it; a later end of a statement,
\* which the model allows as well, only delays that.
EndStatement(c, r) ==
  /\ c.ok
  /\ r # NoName => /\ r \in DOMAIN c.scopes[Len(c.scopes)]
                   /\ Sema!tracked(c, r)
                   /\ Sema!getInfo(c, r).borrowsName # NoName
  /\ checker' = IF r = NoName THEN c ELSE Sema!giveBack(c, r)

\* The statement's checker c, generator g and machine m; it mentions the names M.
Statement(c, g, m, M) ==
  /\ Open
  /\ \A n \in M : Visible(n)
  /\ \E r \in RefName \cup {NoName} :
       /\ EndStatement(c, r)
       /\ finished' = finished \cup ({r} \ {NoName})
  /\ code' = g /\ machine' = m
  /\ count' = count + 1

Simple(c, g, m, M) ==
  /\ Statement(c, g, m, M)
  /\ UNCHANGED <<blocks, hidden>>

-----------------------------------------------------------------------------
(* Declarations. *)

\* In the block of an if let: what is declared there, the binding apart, is no
\* longer registered when the maps are restored, and is never dropped.
InIfLet == \E i \in DOMAIN blocks : blocks[i].kind = "iflet"

\* n, a variable from outside or the binding, was moved in the block of an if let
\* that is still open, or is moved there into a variable of the same name.  The
\* declaration of the name makes the generator forget the move, while the variable,
\* or the drop of the binding, is still to come.
ForgetsMove(n, src) ==
  \E i \in DOMAIN blocks :
    /\ blocks[i].kind = "iflet"
    /\ \/ n \in code.movedVars \ blocks[i].saved.movedVars
       \/ n \in code.movedVars /\ n = blocks[i].binding
       \/ n = src

\* A reference of this block borrows the variable that n means so far: its borrow will
\* be given back to the variable that is declared.
TakesBorrow(n) ==
  LET scope == checker.scopes[Len(checker.scopes)]
  IN  \E r \in DOMAIN scope : scope[r].borrowsName = n

\* The variable n of type t gets a slot with value v from the source src.
Declare(n, t, v, src, optional, struct, moves) ==
  LET slot == Len(current.slots) + 1
      valued == IF src = NoName THEN current ELSE load(current, Slot(src))
      declared == declare(code, n, slot, struct, optional)
  IN  /\ Open /\ n \notin DOMAIN blocks[Top].names
      /\ Statement(Sema!visitVarDecl(checker, n, src),
                   IF moves THEN suppress(declared, src) ELSE declared,
                   store(createEntryBlockAlloca(valued, t), slot, v),
                   {src} \ {NoName})
      /\ blocks' = [blocks EXCEPT ![Top].names = Sema!With(@, n, Entry(t, slot))]
      /\ hidden' = hidden \ {n}
      /\ gap' = IF (src # NoName /\ ~moves) \/ ForgetsMove(n, src) THEN "missed"
                ELSE IF TakesBorrow(n) /\ gap # "missed" THEN "misdirected"
                ELSE Leaks(Slot(n) # 0 \/ ~struct \/ InIfLet)

\* var n = R {...}
New(n) == Declare(n, "struct", fresh(current), NoName, FALSE, TRUE, FALSE)

\* var n: R? = R {...}, and var n: R? = nil
NewOptional(n) ==
  \E v \in {fresh(current), Nothing} :
    Declare(n, "optional", v, NoName, TRUE, TRUE, FALSE)

\* let n = x: the generator registers an R, but not what is inferred to be an R?.
Copy(n, x) ==
  /\ Open /\ Visible(x)
  /\ Declare(n, Type(x), current.slots[Slot(x)].val, x,
             Type(x) = "optional", Type(x) = "struct", TRUE)

\* let n: R? = x: the generator returns before it would suppress x.
Annotate(n, x) ==
  /\ Open /\ Visible(x)
  /\ Declare(n, "optional", current.slots[Slot(x)].val, x, TRUE, TRUE, FALSE)

\* let r = ref x, and let r = ref mut x
Ref(r, x) ==
  /\ Open /\ Declaring(r) = {}
  /\ Visible(x) /\ Type(x) = "struct"
  /\ \E mutable \in BOOLEAN :
       LET checked == Sema!visitRefDecl(checker, r, x, mutable)
           bound == [slot |-> Slot(x), sees |-> current.slots[Slot(x)].val]
       IN  /\ checked.ok
           /\ \E over \in {r, NoName} :
                /\ EndStatement(checked, over)
                /\ finished' = (finished \ {r}) \cup ({over} \ {NoName})
           /\ code' = code
           /\ machine' = IF current.running
                         THEN [current EXCEPT !.refs[r] = bound] ELSE current
           /\ blocks' = [blocks EXCEPT ![Top].names =
                           Sema!With(@, r, Entry(IF mutable THEN "refmut" ELSE "ref", Slot(x)))]
  /\ count' = count + 1
  /\ UNCHANGED <<hidden, gap>>

-----------------------------------------------------------------------------
(* Uses and assignments. *)

Use(n) ==
  /\ Open /\ Visible(n)
  /\ Simple(Sema!checkUse(checker, n), code, load(current, Slot(n)), {n})
  /\ UNCHANGED gap

UseRef(r) ==
  /\ Open /\ Visible(r)
  /\ Simple(Sema!checkUse(checker, r), code, loadThrough(current, r), {r})
  /\ UNCHANGED gap

\* n = R {...}, and n = nil
AssignNew(n) ==
  /\ Open /\ Visible(n)
  /\ \E v \in {fresh(current)} \cup (IF Type(n) = "optional" THEN {Nothing} ELSE {}) :
       Simple(Sema!visitAssignExpr(checker, n, NoName), code,
              store(current, Slot(n), v), {n})
  /\ gap' = Leaks(TRUE)

\* n = x, of an R to an R or an R?
Assign(n, x) ==
  /\ Open /\ Visible(n) /\ Visible(x) /\ Type(x) = "struct"
  /\ Simple(Sema!visitAssignExpr(checker, n, x), suppress(code, x),
            store(load(current, Slot(x)), Slot(n), current.slots[Slot(x)].val),
            {n, x})
  /\ gap' = Leaks(TRUE)

\* r = R {...}, and r = x: a store through the reference,
\* before the generator would suppress x.
AssignThrough(r, src) ==
  /\ Open /\ Visible(r) /\ Type(r) = "refmut"
  /\ src # NoName => Visible(src) /\ Type(src) = "struct"
  /\ LET v == IF src = NoName THEN fresh(current) ELSE current.slots[Slot(src)].val
         m == store(current, current.refs[r].slot, v)
     IN  Simple(Sema!visitAssignExpr(checker, r, src), code,
                IF m.running THEN [m EXCEPT !.refs[r].sees = v] ELSE m,
                {r, src} \ {NoName})
  /\ gap' = IF src # NoName THEN "missed" ELSE Leaks(TRUE)

-----------------------------------------------------------------------------
(* Blocks. *)

\* if checked { ... : the condition mentions no variable.
If ==
  /\ Open /\ Top < MaxDepth
  /\ \E taken \in BOOLEAN :
       /\ machine' = [current EXCEPT !.running = @ /\ taken]
       /\ blocks' = Append(blocks, Block("then", Sema!NoEntries, Len(checker.scopes) + 1,
                                         current.running, taken, NoName, Generator))
       /\ gap' = Leaks(~machine'.running)
  /\ checker' = Sema!pushOwnershipScope(checker)
  /\ count' = count + 1
  /\ UNCHANGED <<code, hidden, finished>>

\* if let v = x { ... : taken when the flag of x says that it holds a value, and
\* then the flag is cleared.
IfLet(v, x) ==
  /\ Open /\ Top < MaxDepth
  /\ Visible(x) /\ Type(x) = "optional"
  /\ LET val == current.slots[Slot(x)].val
         taken == val \notin {Nothing, Garbage}
         checked == Sema!pushOwnershipScope(Sema!visitIfLetHead(checker, v, x))
         slot == Len(current.slots) + 1
         bound == createEntryBlockAlloca(load(current, Slot(x)), "struct")
         taking == store(bound, slot, val)
     IN  /\ checked.ok
         /\ checker' = checked
         /\ code' = bindPayload(code, v, x, slot)
         /\ machine' = IF current.running /\ taken
                       THEN [taking EXCEPT !.slots[Slot(x)].val = Nothing]
                       ELSE [bound EXCEPT !.running = FALSE]
         /\ blocks' = Append(blocks,
              Block("iflet", [n \in {v} |-> Entry("struct", slot)], Len(checked.scopes),
                    current.running, taken, v,
                    [code EXCEPT !.movedVars = @ \cup {x}]))
         /\ gap' = Leaks(Slot(v) # 0 \/ ~machine'.running)
  /\ hidden' = hidden \ {v}
  /\ count' = count + 1
  /\ UNCHANGED finished

\* The names that the closing block shadowed are not mentioned any more.
Shadowed ==
  {n \in DOMAIN blocks[Top].names \cap Name : Declaring(n) \ {Top} # {}}

\* The end of a block: the checker leaves its scopes; after the block of an if
\* let the binding is dropped unless it was moved or the block returns, and the
\* generator's maps are restored.
Leave ==
  LET block == blocks[Top]
      left == Sema!dropScopeVariables(checker)
      dropped == IF block.left \/ block.binding \in code.movedVars THEN current
                 ELSE callDrop(current, {block.names[block.binding].slot}, {})
      letBlock == block.kind = "iflet"
  IN  [checker |-> IF letBlock THEN Sema!dropScopeVariables(left) ELSE left,
       code |-> IF letBlock THEN restoreAfterIfLet(code, block.saved) ELSE code,
       machine |-> IF letBlock THEN dropped ELSE current]

\* } else { ... : runs when the first block did not.
Else ==
  /\ Top > 1 /\ blocks[Top].kind \in {"then", "iflet"} /\ count < MaxStmts
  /\ LET block == blocks[Top]
         out == Leave
     IN  /\ checker' = Sema!pushOwnershipScope(out.checker)
         /\ code' = out.code
         /\ machine' = [out.machine EXCEPT !.running = block.reached /\ ~block.taken]
         /\ blocks' = [blocks EXCEPT ![Top] =
                         Block("else", Sema!NoEntries, Len(checker'.scopes), block.reached,
                               ~block.taken, NoName, Generator)]
  /\ hidden' = hidden \cup Shadowed
  /\ count' = count + 1
  /\ gap' = Leaks(TRUE)
  /\ UNCHANGED finished

\* } at the end of an if; control is there if it reached the if and did not return.
EndIf ==
  /\ Top > 1
  /\ LET block == blocks[Top]
         out == Leave
         running == block.reached /\ ~out.machine.returned
         ended == SubSeq(blocks, 1, Top - 1)
     IN  /\ \E r \in RefName \cup {NoName} :
              /\ EndStatement(out.checker, r)
              /\ finished' = finished \cup ({r} \ {NoName})
         /\ code' = out.code
         /\ machine' = [out.machine EXCEPT !.running = running]
         /\ blocks' = ended
  /\ hidden' = hidden \cup Shadowed
  /\ UNCHANGED <<count, gap>>

\* return nil, and return x: x is visited as a use, and suppressed from here on.
Return(x) ==
  /\ Open
  /\ x # NoName => Visible(x)
  /\ LET g == [code EXCEPT !.movedVars = @ \cup ({x} \ {NoName})]
         valued == IF x = NoName THEN current ELSE load(current, Slot(x))
         v == IF x = NoName THEN Nothing ELSE current.slots[Slot(x)].val
         given == IF valued.running /\ v \in made(valued)
                  THEN [valued EXCEPT !.home[v] = Caller] ELSE valued
     IN  /\ checker' = IF x = NoName THEN checker ELSE Sema!checkUse(checker, x)
         /\ checker'.ok
         /\ code' = g
         /\ \E flag \in BOOLEAN :
              machine' = [emitScopeCleanup(g, given, flag) EXCEPT
                            !.running = FALSE, !.returned = @ \/ given.running]
  /\ blocks' = [blocks EXCEPT ![Top].left = TRUE]
  /\ count' = count + 1
  /\ UNCHANGED <<hidden, finished, gap>>

\* The end of the function: a cleanup, unless its last statement is a return.
EndFunction ==
  /\ Top = 1
  /\ IF blocks[1].left THEN machine' = current
     ELSE \E flag \in BOOLEAN :
            machine' = [emitScopeCleanup(code, current, flag) EXCEPT !.running = FALSE]
  /\ checker' = Sema!dropScopeVariables(checker)
  /\ blocks' = <<>>
  /\ UNCHANGED <<code, hidden, finished, count, gap>>

ONext ==
  \/ \E n \in Name : New(n) \/ NewOptional(n) \/ Use(n) \/ AssignNew(n)
  \/ \E n, x \in Name : Copy(n, x) \/ Annotate(n, x) \/ Assign(n, x) \/ IfLet(n, x)
  \/ \E r \in RefName, x \in Name : Ref(r, x)
  \/ \E r \in RefName : UseRef(r)
  \/ \E r \in RefName, src \in Name \cup {NoName} : AssignThrough(r, src)
  \/ If \/ Else \/ EndIf
  \/ \E x \in Name \cup {NoName} : Return(x)
  \/ EndFunction

OSpec == OInit /\ [][ONext]_ovars

-----------------------------------------------------------------------------
Ended == blocks = <<>>

\* Unless the generator misses a move, drop() is called at most once for every
\* value, and never for one that was returned: where a value has moved from one
\* variable to another, the variables that the generator suppresses are those that
\* the checker takes for moved, on every path through the branches and whatever
\* names the blocks declare again.  And in a function that ran every statement it
\* has, declares no name twice and nothing but the binding in an if let, overwrites
\* nothing and infers no R?, every value is returned or dropped.
DroppedOnce ==
  /\ gap # "missed" =>
       \A d \in machine.drops : d.val # Garbage =>
         /\ d.home # Caller
         /\ \A e \in machine.drops : e.val = d.val => e = d
  /\ Ended /\ gap = "none" =>
       \A v \in made(machine) :
         machine.home[v] = Caller \/ \E d \in machine.drops : d.val = v

\* Unless the generator misses a move or the checker gives a borrow back to the wrong
\* variable, a variable that is read holds the value that it owns, not one that moved
\* on or was dropped, and through a reference one reads what the reference was bound to
\* or last wrote: while the reference is in use nothing else replaced or moved it.
ReadsSound == gap \notin {"missed", "misdirected"} => machine.read.got = machine.read.due

\* Every call of drop() gets a value that its variable owns, so one that was
\* initialised on the path that ran.
DropsOwnedValues == \A d \in machine.drops : d.home = d.slot
=============================================================================
