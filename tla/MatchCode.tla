------------------------------ MODULE MatchCode ------------------------------
(***************************************************************************)
(* The code of a match (IRGen::visitMatchExpr): each arm has a block; the    *)
(* first jump is a switch over the tags of the arms, or goes to the first    *)
(* block of a chain in which each block tests its own pattern.               *)
(***************************************************************************)
EXTENDS Patterns

Unnamed == "unnamed"

\* PatternInfo: the test made of a pattern, a name for each slot, and the tests
\* of the slots.  A name binds, and tests nothing.
Info(test, names, slots) == [test |-> test, names |-> names, slots |-> slots]
NoTest == Info([is |-> "none"], <<>>, <<>>)
TagTest(n) == [is |-> "tag", n |-> n]

\* resolveMatchPattern: e is the enum that the subject is known to be.  The slots
\* of a case are resolved without one, and an integer in a slot is taken for a name.
RECURSIVE Resolve(_, _)
Resolve(p, e) ==
  LET Slot(q) == IF q.is = "case" THEN Resolve(q, NoEnum) ELSE NoTest
      SlotName(q) == CASE q.is = "identifier" -> q.name [] q.is = "literal" -> "digits" [] OTHER -> Unnamed
      Element(q) == IF q.is = "identifier" THEN NoTest ELSE Resolve(q, e)
      ElementName(q) == IF q.is = "identifier" THEN q.name ELSE Unnamed
      enum == IF p.is = "case" /\ p.enum # NoEnum THEN p.enum ELSE e
  IN CASE p.is = "wildcard" -> Info(p, <<>>, <<>>)
       [] p.is = "literal" /\ p.type \in {"int", "bool"} -> Info(TagTest(p.n), <<>>, <<>>)
       [] p.is \in {"literal", "range"} -> Info(p, <<>>, <<>>)
       [] p.is = "or" -> Info([is |-> "or", tests |-> [k \in DOMAIN p.alternatives |->
                                 Resolve(p.alternatives[k], e)]], <<>>, <<>>)
       [] p.is = "case" ->
            Info(IF IsCase(enum, p.case) THEN TagTest(Enums[enum].tags[p.case]) ELSE NoTest.test,
                 [k \in DOMAIN p.subs |-> SlotName(p.subs[k])],
                 [k \in DOMAIN p.subs |-> Slot(p.subs[k])])
       [] p.is = "identifier" /\ IsCase(e, p.name) -> Info(TagTest(Enums[e].tags[p.name]), <<>>, <<>>)
       [] p.is = "identifier" -> Info(NoTest.test, <<p.name>>, <<>>)
       [] p.is = "binding" -> LET sub == Resolve(p.sub, e) IN [sub EXCEPT !.names = <<p.name>> \o @]
       [] p.is = "tuple" -> Info([is |-> "tuple"],
                                 [k \in DOMAIN p.elements |-> ElementName(p.elements[k])],
                                 [k \in DOMAIN p.elements |-> Element(p.elements[k])])

\* The enum is known of a subject that is a variable; of the others the value
\* itself is tested, which of an enum with payloads is a struct.
KnownEnum(t, variable) == IF variable /\ IsEnum(t) THEN t ELSE NoEnum
PayloadKnown(t, variable) == variable /\ HasPayload(t)
Tested(v, t, variable) == IF PayloadKnown(t, variable) THEN v.tag ELSE v
LLVMType(t, variable) ==
  CASE IsTuple(t) -> "struct"
    [] HasPayload(t) /\ ~variable -> "struct"
    [] t = "float" -> "double"
    [] OTHER -> "integer"

\* emitPatternCond: without a comparison that fits the type of the value there is
\* no condition, and the pattern matches everything.
RECURSIVE Passes(_, _, _, _)
Passes(info, v, t, variable) ==
  LET type == LLVMType(t, variable)
      test == info.test
  IN CASE test.is = "tuple" /\ type = "struct" /\ IsTuple(t) ->
            \A k \in DOMAIN info.slots : Passes(info.slots[k], v[k], Tuples[t][k], variable)
       [] test.is = "literal" /\ type = "double" -> v = test.n
       [] test.is = "range" /\ type = "integer" -> test.lo <= v /\ (IF test.closed THEN v <= test.hi ELSE v < test.hi)
       [] test.is = "tag" /\ type = "integer" -> v = test.n
       [] test.is = "or" -> \E k \in DOMAIN test.tests : Passes(test.tests[k], v, t, variable)
       [] OTHER -> TRUE

Infos(arms, t, variable) == [i \in DOMAIN arms |-> Resolve(arms[i].pattern, KnownEnum(t, variable))]

\* useIfElseChain
Chained(arms, t, variable) ==
  LET infos == Infos(arms, t, variable)
  IN \/ LLVMType(t, variable) # "integer"
     \/ \A i \in DOMAIN infos : infos[i].test.is # "tag"
     \/ \E i \in DOMAIN infos : infos[i].test.is \in {"or", "range"} \/ arms[i].pattern.is = "binding"

\* The block after the last arm, and the default: the last wildcard, or that block.
End(arms) == Len(arms) + 1

Default(arms, t, variable) ==
  LET wild == {i \in DOMAIN arms : Infos(arms, t, variable)[i].test.is = "wildcard"}
  IN IF wild = {} THEN End(arms) ELSE CHOOSE i \in wild : \A j \in wild : j <= i

\* The cases of the switch are distinct, or LLVM refuses the module.
SwitchIsValid(arms, t, variable) ==
  LET infos == Infos(arms, t, variable)
  IN \A i, j \in DOMAIN infos :
       i # j /\ infos[i].test.is = "tag" /\ infos[j].test.is = "tag" => infos[i].test.n # infos[j].test.n

\* The block that is entered first.
FirstBlock(arms, t, variable, v) ==
  LET infos == Infos(arms, t, variable)
      hit == {i \in DOMAIN infos : infos[i].test.is = "tag" /\ infos[i].test.n = Tested(v, t, variable)}
  IN CASE Chained(arms, t, variable) -> 1
       [] hit # {} -> CHOOSE i \in hit : TRUE
       [] OTHER -> Default(arms, t, variable)

\* Mutation: a test that fails goes to the default from every block.
AlwaysTheDefault(arms, t, variable, i) == Default(arms, t, variable)

\* Where block i goes when its pattern or its guard fails.
NextBlock(arms, t, variable, i) ==
  IF Chained(arms, t, variable) /\ i < Len(arms) THEN i + 1 ELSE Default(arms, t, variable)

\* emitNestedPatternMatch: the tags in the slots, which the blocks of a chain test
\* before they know that the payload is there.
RECURSIVE SlotsPass(_, _, _)
SlotsPass(info, v, t) ==
  \A k \in DOMAIN info.slots :
    info.slots[k].test.is = "tag" =>
      /\ TagIn(v.payload, Enums[t].payload) = info.slots[k].test.n
      /\ SlotsPass(info.slots[k], v.payload, Enums[t].payload)

RECURSIVE SlotBindings(_, _, _)
SlotBindings(info, v, t) ==
  UNION {IF info.slots[k].test.is = "tag"
         THEN SlotBindings(info.slots[k], v.payload, Enums[t].payload)
         ELSE IF info.names[k] = Unnamed THEN {} ELSE {<<info.names[k], v.payload>>}
         : k \in DOMAIN info.slots}

\* emitTuplePatternBindings
RECURSIVE ElementBindings(_, _, _)
ElementBindings(info, v, t) ==
  UNION {IF info.slots[k].test.is = "tuple"
         THEN ElementBindings(info.slots[k], v[k], Tuples[t][k])
         ELSE IF info.names[k] = Unnamed THEN {} ELSE {<<info.names[k], v[k]>>}
         : k \in DOMAIN info.names}

\* What block i stores in variables before its guard: the payload, the elements
\* of a tuple or, in a chain only, the value itself.
Stored(arms, t, variable, i, v) ==
  LET info == Infos(arms, t, variable)[i]
  IN CASE PayloadKnown(t, variable) -> SlotBindings(info, v, t)
       [] info.test.is = "tuple" -> ElementBindings(info, v, t)
       [] Chained(arms, t, variable) -> {<<info.names[k], v>> : k \in {m \in DOMAIN info.names : info.names[m] # Unnamed}}
       [] OTHER -> {}

\* Block i goes to the body of the arm.
Enters(arms, t, variable, i, v, guardHolds) ==
  LET info == Infos(arms, t, variable)[i]
  IN /\ PayloadKnown(t, variable) => SlotsPass(info, v, t)
     /\ Chained(arms, t, variable) => Passes(info, Tested(v, t, variable), t, variable)
     /\ guardHolds[i]
=============================================================================
