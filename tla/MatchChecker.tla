---------------------------- MODULE MatchChecker ----------------------------
(* The matches that TypeChecker::visitMatchExpr accepts.                     *)
EXTENDS Patterns

Scalars == {"int", "bool", "float"}

\* x @ y @ p is p to every check but the one on bindings.
RECURSIVE Unwrapped(_)
Unwrapped(p) == IF p.is = "binding" THEN Unwrapped(p.sub) ELSE p

\* What is compared: the pattern, or each alternative of it.
Alternatives(p) ==
  LET q == Unwrapped(p) IN IF q.is = "or" THEN {q.alternatives[k] : k \in DOMAIN q.alternatives} ELSE {q}

\* An integer, bool or float literal or a range against a scalar type.
ScalarOK(p, t) ==
  /\ p.is = "literal" => p.type = t
  /\ p.is = "range" => t = "int"

\* The enum that the first qualified arm names.  Result is not declared as one.
QualifiedCases(p) == {q \in {p} \cup (IF p.is = "or" THEN Alternatives(p) ELSE {}) :
                        q.is = "case" /\ q.enum # NoEnum}

SubjectEnum(arms) ==
  LET naming == {i \in DOMAIN arms : QualifiedCases(arms[i].pattern) # {}}
      first == CHOOSE i \in naming : \A j \in naming : i <= j
      e == (CHOOSE q \in QualifiedCases(arms[first].pattern) : TRUE).enum
  IN IF naming = {} \/ e = "Result" THEN NoEnum ELSE e

\* The enum of the type of the subject.
TypeEnum(t) == IF IsEnum(t) /\ t # "Result" THEN t ELSE NoEnum

RECURSIVE ContainsCase(_, _)
ContainsCase(p, e) ==
  \/ p.is = "case" \/ (p.is = "identifier" /\ IsCase(e, p.name))
  \/ p.is # "case" /\ \E k \in DOMAIN Parts(p) : ContainsCase(Parts(p)[k], e)

\* n @ p: p has no enum case and is no tuple.
BindingOK(p, t) ==
  p.is = "binding" => ~ContainsCase(p.sub, TypeEnum(t)) /\ Unwrapped(p).is # "tuple"

RECURSIVE TupleOK(_, _)
TupleOK(p, t) ==
  CASE p.is = "tuple" -> /\ IsTuple(t)
                         /\ Len(p.elements) = Len(Tuples[t])
                         /\ \A k \in DOMAIN p.elements : TupleOK(p.elements[k], Tuples[t][k])
    [] p.is \in {"wildcard", "identifier"} -> TRUE
    [] p.is \in {"case", "or", "binding"} -> FALSE
    [] OTHER -> ~IsTuple(t) /\ ScalarOK(p, t)

\* An alternative may not bind a name.
AlternativeBinds(p, e) ==
  \/ p.is = "identifier" /\ ~IsCase(e, p.name)
  \/ p.is = "case" /\ p.subs # <<>>
  \/ p.is = "tuple"

\* In the slots of a case: names, wildcards, cases, and, as it happens, integers.
RECURSIVE SlotsOK(_)
SlotsOK(p) ==
  CASE p.is = "case" -> \A k \in DOMAIN p.subs :
                          /\ p.subs[k].is \in {"case", "identifier", "wildcard", "literal"}
                          /\ p.subs[k].is = "literal" => p.subs[k].type = "int"
                          /\ SlotsOK(p.subs[k])
    [] p.is = "tuple" -> \A k \in DOMAIN p.elements : SlotsOK(p.elements[k])
    [] OTHER -> TRUE

\* The cases that arms without a guard name.
CoveredCases(arms) ==
  {q.case : q \in UNION {QualifiedCases(Unwrapped(arms[i].pattern)) :
                           i \in {j \in DOMAIN arms : ~arms[j].guarded}}}

HasWildcard(arms) == \E i \in DOMAIN arms : Unwrapped(arms[i].pattern).is = "wildcard"

\* Of a Result both cases are named, whatever the guards and slots.
ResultCases(arms) ==
  {arms[i].pattern.case : i \in {j \in DOMAIN arms :
                                   arms[j].pattern.is = "case" /\ arms[j].pattern.enum = "Result"}}

Exhaustive(arms) ==
  \/ HasWildcard(arms)
  \/ /\ SubjectEnum(arms) # NoEnum =>
          DOMAIN Enums[SubjectEnum(arms)].tags \subseteq CoveredCases(arms)
     /\ ResultCases(arms) # {} => {"Ok", "Err"} \subseteq ResultCases(arms)

Accepts(arms, t) ==
  /\ \A i \in DOMAIN arms :
       LET p == arms[i].pattern
           q == Unwrapped(p)
       IN /\ BindingOK(p, t)
          /\ SlotsOK(q)
          /\ t \in Scalars => \A a \in Alternatives(p) : ScalarOK(a, t)
          /\ q.is = "tuple" \/ IsTuple(t) => TupleOK(q, t)
          /\ TypeEnum(t) # NoEnum \/ SubjectEnum(arms) # NoEnum =>
               \A a \in Alternatives(p) : a.is # "range"
          /\ q.is = "or" => \A a \in Alternatives(p) : ~AlternativeBinds(a, SubjectEnum(arms))
  /\ Exhaustive(arms)
=============================================================================
