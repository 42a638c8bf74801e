-------------------------- MODULE OwnershipChecker --------------------------
(***************************************************************************)
(* The ownership checker of the compiler, a walk over one function: what it  *)
(* records about every name, scope by scope, and which statements it         *)
(* refuses.  Its state is the record                                        *)
(*   scopes  the stack of scopes, each a function from names to records      *)
(*   all     for every name, the scope its flat entry points to, 0 for none  *)
(*   ok      no diagnostic was reported                                     *)
(* Only values whose type is a struct that conforms to Drop, Optionals of    *)
(* them and references to them are followed: all other types are copied.     *)
(***************************************************************************)
EXTENDS Naturals, Sequences, FiniteSets

CONSTANTS Name, NoName

NoEntries == [n \in {} |-> n]

With(f, n, x) == [k \in DOMAIN f \cup {n} |-> IF k = n THEN x ELSE f[k]]

Checker == [scopes |-> <<NoEntries>>, all |-> [n \in Name |-> 0], ok |-> TRUE]

Reject(c) == [c EXCEPT !.ok = FALSE]

tracked(c, n) == c.all[n] # 0

getInfo(c, n) == c.scopes[c.all[n]][n]

setInfo(c, n, info) == [c EXCEPT !.scopes[c.all[n]][n] = info]

pushOwnershipScope(c) == [c EXCEPT !.scopes = Append(@, NoEntries)]

\* What is recorded of a variable: borrows taken on it, and for a reference
\* binding the variable it borrows.
OwnershipInfo(mutable, drop) ==
  [state |-> "Owned", isMutable |-> mutable, isDropType |-> drop,
   borrowCount |-> 0, hasMutableBorrow |-> FALSE,
   isRefBinding |-> FALSE, borrowsName |-> NoName, borrowsMutable |-> FALSE]

trackVariable(c, n, info) ==
  LET top == Len(c.scopes)
  IN  [c EXCEPT !.scopes[top] = With(@, n, info), !.all[n] = top]

checkUse(c, n) ==
  IF tracked(c, n) /\ getInfo(c, n).state = "Moved" THEN Reject(c) ELSE c

markMoved(c, n) ==
  LET info == getInfo(c, n)
      free == info.state # "Moved" /\ info.borrowCount = 0 /\ ~info.hasMutableBorrow
  IN  IF ~tracked(c, n) THEN c
      ELSE IF free THEN setInfo(c, n, [info EXCEPT !.state = "Moved"])
      ELSE Reject(c)

addBorrow(c, n, mutable) ==
  LET info == getInfo(c, n)
      conflict == info.hasMutableBorrow \/ (mutable /\ info.borrowCount > 0)
  IN  IF ~tracked(c, n) THEN c
      ELSE IF info.state = "Moved" \/ conflict THEN Reject(c)
      ELSE IF mutable
           THEN setInfo(c, n, [info EXCEPT !.hasMutableBorrow = TRUE,
                                           !.state = "BorrowedMutable"])
           ELSE setInfo(c, n, [info EXCEPT !.borrowCount = @ + 1,
                                           !.state = "BorrowedImmutable"])

releaseBorrow(c, n, mutable) ==
  LET info == getInfo(c, n)
      less == IF mutable THEN [info EXCEPT !.hasMutableBorrow = FALSE]
              ELSE [info EXCEPT !.borrowCount = IF @ > 0 THEN @ - 1 ELSE 0]
      clear == ~less.hasMutableBorrow /\ less.borrowCount = 0 /\ less.state # "Moved"
  IN  IF ~tracked(c, n) THEN c
      ELSE setInfo(c, n, IF clear THEN [less EXCEPT !.state = "Owned"] ELSE less)

\* The borrow that the binding r holds is given back, once.
giveBack(c, r) ==
  LET info == getInfo(c, r)
      freed == releaseBorrow(c, info.borrowsName, info.borrowsMutable)
  IN  IF info.borrowsName = NoName THEN c
      ELSE setInfo(freed, r, [info EXCEPT !.borrowsName = NoName])

\* What is left of the borrows of a variable when the bindings R have given back
\* those that they hold, each as releaseBorrow does it.
released(info, R, mutably) ==
  LET shared == Cardinality({r \in R : ~mutably[r]})
      less == [info EXCEPT !.borrowCount = IF @ > shared THEN @ - shared ELSE 0,
                           !.hasMutableBorrow = @ /\ \A r \in R : ~mutably[r]]
      clear == ~less.hasMutableBorrow /\ less.borrowCount = 0 /\ less.state # "Moved"
  IN  IF R # {} /\ clear THEN [less EXCEPT !.state = "Owned"] ELSE less

\* The end of a scope: its bindings give back what they borrowed from variables
\* that live on, and its names disappear from the flat table, the entries of
\* variables they shadowed with them.
dropScopeVariables(c) ==
  LET top == Len(c.scopes)
      scope == c.scopes[top]
      holders(n) == {r \in DOMAIN scope : scope[r].borrowsName = n}
      mutably == [r \in DOMAIN scope |-> scope[r].borrowsMutable]
      lives(n, i) == n \notin DOMAIN scope /\ c.all[n] = i
  IN  [c EXCEPT !.scopes = [i \in 1 .. top - 1 |->
                              [n \in DOMAIN c.scopes[i] |->
                                 IF lives(n, i) THEN released(c.scopes[i][n], holders(n), mutably)
                                 ELSE c.scopes[i][n]]],
                !.all = [n \in Name |-> IF n \in DOMAIN scope THEN 0 ELSE @[n]]]

-----------------------------------------------------------------------------
(* Statements.  A value that is a name is visited, then moved when its type   *)
(* is a Drop type; NoName stands for a value that is a literal.              *)

visitValue(c, src) ==
  LET used == checkUse(c, src)
  IN  IF src = NoName THEN c
      ELSE IF tracked(c, src) /\ getInfo(c, src).isDropType
           THEN markMoved(used, src) ELSE used

visitVarDecl(c, n, src) ==
  trackVariable(visitValue(c, src), n, OwnershipInfo(TRUE, TRUE))

visitRefDecl(c, r, n, mutable) ==
  LET borrowed == addBorrow(c, n, mutable)
      allowed == mutable /\ tracked(c, n) => getInfo(c, n).isMutable
      info == [OwnershipInfo(FALSE, FALSE) EXCEPT
                 !.isRefBinding = TRUE, !.borrowsMutable = mutable,
                 !.borrowsName = IF tracked(c, n) THEN n ELSE NoName]
  IN  IF allowed THEN trackVariable(checkUse(borrowed, n), r, info)
      ELSE Reject(c)

\* Mutant: a borrowed variable is assigned.
visitAnyAssignExpr(c, n, src) ==
  LET valued == visitValue(c, src)
      info == getInfo(valued, n)
  IN  IF tracked(c, n) => info.isRefBinding \/ info.isMutable
      THEN checkUse(valued, n) ELSE Reject(valued)

\* The value first; then the target must be mutable and not borrowed, unless it
\* is a reference that is written through; then the target is visited as a use.
visitAssignExpr(c, n, src) ==
  LET valued == visitValue(c, src)
      info == getInfo(valued, n)
      writable == tracked(c, n) =>
        /\ info.isRefBinding \/ info.isMutable
        /\ info.state \notin {"BorrowedImmutable", "BorrowedMutable"}
  IN  IF writable THEN checkUse(valued, n) ELSE Reject(valued)

\* The head of an if let: the source is moved, and the binding lives in a scope
\* of its own around the block.
visitIfLetHead(c, v, src) ==
  trackVariable(pushOwnershipScope(visitValue(c, src)), v,
                OwnershipInfo(FALSE, TRUE))
=============================================================================
