--------------------------- MODULE MatchExpression ---------------------------
(***************************************************************************)
(* A match from its source to its run: the programmer writes arms, the       *)
(* checker accepts them or not, the generator emits blocks, LLVM verifies    *)
(* the module, and the program goes from block to block until it is in the   *)
(* body of an arm or behind the match.                                       *)
(***************************************************************************)
EXTENDS MatchChecker, MatchCode

CONSTANTS
  MaxArms,
  Written,     \* type -> patterns that arms of a match on it are written with
  Domain       \* type -> its values

VARIABLES
  subject,     \* [type, variable]: the subject's type, and whether it is a variable
  arms,        \* <<[pattern, guarded]>>
  stage,       \* "written", "accepted", "refused", "emitted", "invalid", "running", "body", "behind"
  value,       \* of the subject, when the match runs
  guardHolds,  \* arm -> value of its guard
  block,       \* where control is
  stored       \* the variables of the body

mvars == <<subject, arms, stage, value, guardHolds, block, stored>>

MInit ==
  /\ subject \in [type : DOMAIN Written, variable : BOOLEAN]
  /\ subject.variable \/ IsEnum(subject.type)   \* of other types it is all the same
  /\ arms = <<>> /\ stage = "written"
  /\ value = 0 /\ guardHolds = <<>> /\ block = 0 /\ stored = {}

\* parseMatchExpr: one more arm.
WriteArm ==
  /\ stage = "written" /\ Len(arms) < MaxArms
  /\ \E p \in Written[subject.type], g \in BOOLEAN :
       Parsed(p, FALSE) /\ arms' = Append(arms, [pattern |-> p, guarded |-> g])
  /\ UNCHANGED <<subject, stage, value, guardHolds, block, stored>>

\* TypeChecker::visitMatchExpr
Check ==
  /\ stage = "written" /\ arms # <<>>
  /\ stage' = IF Accepts(arms, subject.type) THEN "accepted" ELSE "refused"
  /\ UNCHANGED <<subject, arms, value, guardHolds, block, stored>>

\* IRGen::visitMatchExpr, and the verification of the module.
Emit ==
  /\ stage = "accepted"
  /\ stage' = IF Chained(arms, subject.type, subject.variable)
                 \/ SwitchIsValid(arms, subject.type, subject.variable)
              THEN "emitted" ELSE "invalid"
  /\ UNCHANGED <<subject, arms, value, guardHolds, block, stored>>

\* The program comes to the match; guards hold as the program's state has it.
Arrive ==
  /\ stage = "emitted"
  /\ stage' = "running"
  /\ value' \in Domain[subject.type]
  /\ guardHolds' \in {g \in [DOMAIN arms -> BOOLEAN] : \A i \in DOMAIN arms : arms[i].guarded \/ g[i]}
  /\ block' = FirstBlock(arms, subject.type, subject.variable, value')
  /\ UNCHANGED <<subject, arms, stored>>

EnterBody ==
  /\ stage = "running" /\ block \in DOMAIN arms
  /\ Enters(arms, subject.type, subject.variable, block, value, guardHolds)
  /\ stage' = "body"
  /\ stored' = Stored(arms, subject.type, subject.variable, block, value)
  /\ UNCHANGED <<subject, arms, value, guardHolds, block>>

TryNext ==
  /\ stage = "running" /\ block \in DOMAIN arms
  /\ ~Enters(arms, subject.type, subject.variable, block, value, guardHolds)
  /\ block' = NextBlock(arms, subject.type, subject.variable, block)
  /\ UNCHANGED <<subject, arms, stage, value, guardHolds, stored>>

FallOut ==
  /\ stage = "running" /\ block = End(arms)
  /\ stage' = "behind"
  /\ UNCHANGED <<subject, arms, value, guardHolds, block, stored>>

MNext == WriteArm \/ Check \/ Emit \/ Arrive \/ EnterBody \/ TryNext \/ FallOut

MSpec == MInit /\ [][MNext]_mvars

-----------------------------------------------------------------------------
Wild(i) == Unwrapped(arms[i].pattern).is = "wildcard"
NamesAll(i) == Unwrapped(arms[i].pattern).is = "identifier"
                 /\ ~IsCase(subject.type, Unwrapped(arms[i].pattern).name)

\* A name, or a name before @, for the whole value.
NamesValue(i) == arms[i].pattern.is = "binding" \/ NamesAll(i)

RECURSIVE NumberInSlot(_)
NumberInSlot(p) == p.is = "case" /\ \E k \in DOMAIN p.subs : p.subs[k].is = "literal" \/ NumberInSlot(p.subs[k])

\* The matches of which the code means what the reference says.  Not among them,
\* each shown by dropping its line: a wildcard that has a guard, which when it
\* fails goes to itself, or is followed by other arms; a name for the whole value
\* in a match that became a switch, where it is no case, or on an enum with
\* payloads, where it is not stored; a number in a slot, which is taken for a
\* name; a subject of an enum type that is no variable, whose enum is not known.
AsWritten ==
  /\ \A i \in DOMAIN arms : Wild(i) => i = Len(arms) /\ ~arms[i].guarded
  /\ \A i \in DOMAIN arms : NamesValue(i) =>
       Chained(arms, subject.type, subject.variable) /\ ~HasPayload(subject.type)
  /\ \A i \in DOMAIN arms : ~NumberInSlot(arms[i].pattern)
  /\ IsEnum(subject.type) => subject.variable

\* A match runs the body of the first arm whose pattern matches and whose guard
\* holds, with the names of the pattern bound to their values, and without one no
\* body, however visitMatchExpr orders its blocks, and although the blocks of a
\* chain test the slots of a payload that may not be there.  It never comes back
\* to a block it left.  And a match that the checker finds exhaustive, because the
\* arms name all cases of an enum or there is a wildcard, is not left without the
\* body of some arm; a case counts as named although a pattern in its slot may fail.
MatchRunsFirstArm ==
  /\ AsWritten =>
       LET first == FirstArm(arms, guardHolds, value, subject.type)
       IN /\ stage = "body" => block = first /\ stored = Bound(arms[first].pattern, value, subject.type)
          /\ stage = "behind" => first = 0
          /\ stage = "running" /\ block # End(arms) =>
               \/ Enters(arms, subject.type, subject.variable, block, value, guardHolds)
               \/ NextBlock(arms, subject.type, subject.variable, block) > block
  /\ /\ HasWildcard(arms) \/ SubjectEnum(arms) # NoEnum
     /\ \A i \in DOMAIN arms : arms[i].pattern.is = "case" =>
          \A k \in DOMAIN arms[i].pattern.subs : arms[i].pattern.subs[k].is # "case"
     => stage # "behind"
=============================================================================
