------------------------------ MODULE DropCode ------------------------------
(***************************************************************************)
(* The code that is generated for a function whose variables own values of a *)
(* struct R that conforms to Drop, and what the machine does with it.  The   *)
(* generator keeps, for the whole function, maps from names:                *)
(*   namedValues       the stack slot of the name, 0 for none               *)
(*   varStructTypes    the names registered as R or R?                      *)
(*   varOptionalTypes  the names registered as R?                           *)
(*   movedVars         the names whose cleanup is suppressed                *)
(* A machine is                                                             *)
(*   running  control is where the generator stands                         *)
(*   returned control has left the function                                 *)
(*   slots    the stack slots: their type, and the value they hold          *)
(*   home     for every value made so far, the slot that owns it, or Caller *)
(*            once it was returned, or Nowhere                              *)
(*   drops    the calls of drop: the slot, its value, the value's home      *)
(*   read     the value that was read last, and the one that was due, until  *)
(*            the next step                                                 *)
(*   refs     what a reference binding points to, and the value it has seen *)
(* An Optional that is nil holds Nothing, a slot never written holds Garbage.*)
(***************************************************************************)
EXTENDS Naturals, Sequences, FiniteSets

CONSTANTS Name, NoName, RefName, Nothing, Garbage, Nowhere, Caller

ASSUME NamesAssumption ==
  IsFiniteSet(RefName) /\ Name \cap RefName = {} /\ NoName \notin Name \cup RefName

ASSUME ValuesAssumption ==
  /\ Nothing \notin Nat /\ Garbage \notin Nat /\ Nowhere \notin Nat /\ Caller \notin Nat
  /\ Nothing # Garbage /\ Nowhere # Caller

Generator ==
  [namedValues |-> [n \in Name |-> 0], varStructTypes |-> {},
   varOptionalTypes |-> {}, movedVars |-> {}]

noRead == [got |-> Nothing, due |-> Nothing]

Machine ==
  [running |-> TRUE, returned |-> FALSE, slots |-> <<>>, home |-> <<>>,
   drops |-> {}, read |-> noRead,
   refs |-> [r \in RefName |-> [slot |-> 0, sees |-> Nothing]]]

-----------------------------------------------------------------------------
(* The machine.  Its values are numbered as they are made. *)

made(m) == DOMAIN m.home

\* A new value, of which the struct literal is the only occurrence.
fresh(m) == Len(m.home) + 1

homeOf(m, v) == IF v \in made(m) THEN m.home[v] ELSE Nowhere

\* The value that slot s should hold: the one that it owns.
owned(m, s) ==
  IF \E v \in made(m) : m.home[v] = s
  THEN CHOOSE v \in made(m) : m.home[v] = s ELSE Nothing

\* An alloca is placed in the entry block, and written only where it is declared.
createEntryBlockAlloca(m, type) ==
  [m EXCEPT !.slots = Append(@, [type |-> type, val |-> Garbage])]

\* Slot s takes over value v; what it owned before belongs to no one.
store(m, s, v) ==
  LET home == IF v = fresh(m) THEN Append(m.home, s) ELSE m.home
  IN  IF ~m.running THEN m
      ELSE [m EXCEPT !.slots[s].val = v,
                     !.home = [w \in DOMAIN home |->
                                 IF w = v THEN s
                                 ELSE IF home[w] = s THEN Nowhere ELSE home[w]]]

load(m, s) ==
  IF m.running
  THEN [m EXCEPT !.read = [got |-> m.slots[s].val, due |-> owned(m, s)]]
  ELSE m

loadThrough(m, r) ==
  IF m.running
  THEN [m EXCEPT !.read = [got |-> m.slots[m.refs[r].slot].val,
                           due |-> m.refs[r].sees]]
  ELSE m

\* Calls of R_drop on the slots S, whose payload is taken for a value of R.  On
\* the slot of an Optional that is taken for a plain R, it finds garbage.
callDrop(m, S, plain) ==
  LET payload(s) == IF s \in plain /\ m.slots[s].type = "optional"
                    THEN Garbage ELSE m.slots[s].val
      calls == {[slot |-> s, val |-> payload(s), home |-> homeOf(m, payload(s))] :
                  s \in S}
  IN  IF ~m.running THEN m
      ELSE [m EXCEPT !.drops = @ \cup calls,
                     !.home = [v \in made(m) |->
                                 IF \E c \in calls : c.val = v THEN Nowhere
                                 ELSE m.home[v]]]

-----------------------------------------------------------------------------
(* Cleanup.  An Optional is dropped when its flag says that it holds a value; *)
(* a flag that was never written says anything.                             *)

emitScopeCleanup(g, m, flag) ==
  LET live == g.varStructTypes \ g.movedVars
      slot(n) == g.namedValues[n]
      isOptional(n) ==
        n \in g.varOptionalTypes /\ m.slots[slot(n)].type = "optional"
      hasVal(n) == LET v == m.slots[slot(n)].val
                   IN  IF v = Garbage THEN flag ELSE v # Nothing
      plain == {slot(n) : n \in {x \in live : ~isOptional(x)}}
  IN  callDrop(m, plain \cup {slot(n) : n \in {x \in live : isOptional(x) /\ hasVal(x)}},
               plain)

-----------------------------------------------------------------------------
(* Statements: what each does to the generator's maps. *)

\* Redeclaration hygiene, then the registration of the new slot.
declare(g, n, slot, struct, optional) ==
  LET with(S, b) == IF b THEN S \cup {n} ELSE S \ {n}
  IN  [g EXCEPT !.namedValues[n] = slot,
                !.varStructTypes = with(@, struct),
                !.varOptionalTypes = with(@, optional),
                !.movedVars = @ \ {n}]

\* The source of a move is suppressed when it is registered as an R or an R?.
suppress(g, src) ==
  [g EXCEPT !.movedVars = @ \cup ({src} \cap g.varStructTypes)]

\* The binding of an if let has a slot of its own; its name means that slot for
\* the length of the block, and its source is suppressed for good.
bindPayload(g, v, src, slot) ==
  [g EXCEPT !.namedValues[v] = slot,
            !.varStructTypes = @ \cup {v},
            !.movedVars = (@ \cup {src}) \ {v}]

\* Mutant: all maps are those of before.
restoreAll(g, saved) ==
  [g EXCEPT !.namedValues = saved.namedValues,
            !.varStructTypes = saved.varStructTypes,
            !.movedVars = saved.movedVars]

\* After the block the maps are those of before, but for the names that are
\* suppressed: those of before and those of the block.
restoreAfterIfLet(g, saved) ==
  [g EXCEPT !.namedValues = saved.namedValues,
            !.varStructTypes = saved.varStructTypes,
            !.movedVars = @ \cup saved.movedVars]
=============================================================================
