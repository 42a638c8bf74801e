------------------------------ MODULE Patterns ------------------------------
(***************************************************************************)
(* Patterns of a match, as the parser builds them (Parser::parsePattern,     *)
(* Pattern.h), and what the language reference says they mean: when a        *)
(* pattern matches a value, and what it binds.  MatchChecker says which      *)
(* matches the type checker accepts, MatchCode what the generator makes of   *)
(* them; MatchExpression compares the two.                                   *)
(***************************************************************************)
EXTENDS Integers, Sequences

CONSTANTS
  Enums,    \* enum -> [tags: case -> tag, carrying: cases with a payload, payload: its type]
  Tuples    \* tuple type -> types of its elements

NoEnum == "no enum"   \* an unqualified case

Wildcard == [is |-> "wildcard"]
Ident(x) == [is |-> "identifier", name |-> x]
Lit(t, n) == [is |-> "literal", type |-> t, n |-> n]
Span(lo, hi, closed) == [is |-> "range", lo |-> lo, hi |-> hi, closed |-> closed]
Case(e, c, subs) == [is |-> "case", enum |-> e, case |-> c, subs |-> subs]
Or(ps) == [is |-> "or", alternatives |-> ps]
At(x, p) == [is |-> "binding", name |-> x, sub |-> p]
Tuple(ps) == [is |-> "tuple", elements |-> ps]

\* What is written inside a pattern.
Parts(p) ==
  CASE p.is = "case" -> p.subs
    [] p.is = "or" -> p.alternatives
    [] p.is = "binding" -> <<p.sub>>
    [] p.is = "tuple" -> p.elements
    [] OTHER -> <<>>

\* The parser builds p: x @ p is recognised outside parentheses only, the
\* alternatives of p | q are neither alternations nor bindings, and a tuple of
\* one element is an error.
RECURSIVE Parsed(_, _)
Parsed(p, inParens) ==
  /\ p.is = "binding" => ~inParens
  /\ p.is = "or" => \A k \in DOMAIN p.alternatives : p.alternatives[k].is \notin {"or", "binding"}
  /\ p.is = "tuple" => Len(p.elements) >= 2
  /\ \A k \in DOMAIN Parts(p) : Parsed(Parts(p)[k], inParens \/ p.is \in {"case", "tuple"})

IsEnum(t) == t \in DOMAIN Enums
IsCase(t, c) == IsEnum(t) /\ c \in DOMAIN Enums[t].tags
IsTuple(t) == t \in DOMAIN Tuples

\* An enum with a payload in some case is a struct of a tag and the bytes of the
\* payload, which of a case without one are whatever memory holds.
HasPayload(t) == IsEnum(t) /\ Enums[t].carrying # {}
TagIn(v, t) == IF HasPayload(t) THEN v.tag ELSE v

RECURSIVE Matches(_, _, _)
Matches(p, v, t) ==
  CASE p.is = "wildcard" -> TRUE
    [] p.is = "identifier" -> IsCase(t, p.name) => TagIn(v, t) = Enums[t].tags[p.name]
    [] p.is = "literal" -> v = p.n
    [] p.is = "range" -> p.lo <= v /\ (v < p.hi \/ (p.closed /\ v = p.hi))
    [] p.is = "case" -> /\ TagIn(v, t) = Enums[t].tags[p.case]
                        /\ \A k \in DOMAIN p.subs : Matches(p.subs[k], v.payload, Enums[t].payload)
    [] p.is = "or" -> \E k \in DOMAIN p.alternatives : Matches(p.alternatives[k], v, t)
    [] p.is = "binding" -> Matches(p.sub, v, t)
    [] p.is = "tuple" -> \A k \in DOMAIN p.elements : Matches(p.elements[k], v[k], Tuples[t][k])

\* The names that p binds, with their values.
RECURSIVE Bound(_, _, _)
Bound(p, v, t) ==
  CASE p.is = "identifier" -> IF IsCase(t, p.name) THEN {} ELSE {<<p.name, v>>}
    [] p.is = "case" -> UNION {Bound(p.subs[k], v.payload, Enums[t].payload) : k \in DOMAIN p.subs}
    [] p.is = "binding" -> {<<p.name, v>>} \cup Bound(p.sub, v, t)
    [] p.is = "tuple" -> UNION {Bound(p.elements[k], v[k], Tuples[t][k]) : k \in DOMAIN p.elements}
    [] OTHER -> {}

\* The arm that runs: the first whose pattern matches and whose guard holds (0:
\* none).  guardHolds[i] is the value of the guard of arm i, TRUE without one.
FirstArm(arms, guardHolds, v, t) ==
  LET hit == {i \in DOMAIN arms : Matches(arms[i].pattern, v, t) /\ guardHolds[i]}
  IN IF hit = {} THEN 0 ELSE CHOOSE i \in hit : \A j \in hit : i <= j
=============================================================================
