---------------------------- MODULE MCSequential ----------------------------
(***************************************************************************)
(* Parts that one thread runs by itself, in one run: the first state         *)
(* chooses the ready ring or the timer heap of the scheduler, or a function  *)
(* or a match that the compiler checks, compiles and that then runs.         *)
(***************************************************************************)
EXTENDS ReadyRing, TimerHeap, Ownership, MatchExpression, TLC

(* Matches: the types, the patterns written and the values. *)

MCEnums ==
  [Color |-> [tags |-> [Red |-> 0, Green |-> 1], carrying |-> {}, payload |-> "int"],
   Inner |-> [tags |-> [B |-> 0, A |-> 1], carrying |-> {"A"}, payload |-> "int"],
   Outer |-> [tags |-> [X |-> 0, Y |-> 1, Z |-> 2], carrying |-> {"X"}, payload |-> "Inner"],
   Result |-> [tags |-> [Ok |-> 0, Err |-> 1], carrying |-> {"Ok", "Err"}, payload |-> "int"]]

MCTuples == [pair |-> <<"int", "int">>, nest |-> <<"pair", "int">>]

Payloads(t, vs) == [tag : {Enums[t].tags[c] : c \in DOMAIN Enums[t].tags}, payload : vs]
Bit == {0, 1}

\* The payload of a case without one is any bytes.
MCDomain ==
  [int |-> 0 .. 2, bool |-> Bit, float |-> Bit, Color |-> Bit,
   Outer |-> Payloads("Outer", Payloads("Inner", Bit)),
   Result |-> Payloads("Result", Bit),
   pair |-> Bit \X Bit, nest |-> (Bit \X Bit) \X Bit]

Outer(c, subs) == Case("Outer", c, subs)
Inner(c, subs) == Case("Inner", c, subs)
X == Ident("x")
One == Lit("int", 1)

MCWritten ==
  [int |-> {Wildcard, X, Lit("int", 0), One, Lit("bool", 1), Span(0, 1, FALSE), Span(0, 1, TRUE),
            Or(<<Lit("int", 0), Lit("int", 2)>>), At("n", Or(<<One, Span(1, 2, TRUE)>>))},
   bool |-> {Wildcard, Lit("bool", 0), Lit("bool", 1), At("n", Lit("bool", 1))},
   float |-> {Wildcard, X, Lit("float", 0), One, At("n", Wildcard)},
   Color |-> {Wildcard, Ident("Red"), Case("Color", "Red", <<>>), Case("Color", "Green", <<>>),
              Or(<<Case("Color", "Red", <<>>), Ident("Green")>>), Or(<<X, One>>), Span(0, 1, TRUE)},
   Outer |-> {Wildcard, X, Outer("X", <<X>>), Outer("X", <<Wildcard>>),
              Outer("X", <<Inner("A", <<X>>)>>), Outer("X", <<Inner("B", <<>>)>>), Outer("Y", <<>>),
              Or(<<Outer("Y", <<>>), Outer("Z", <<>>)>>), Outer("X", <<Or(<<X, Wildcard>>)>>),
              At("n", Ident("Y"))},
   Result |-> {Wildcard, Case("Result", "Ok", <<X>>), Case("Result", "Ok", <<One>>), Case("Result", "Err", <<X>>)},
   pair |-> {Wildcard, X, Tuple(<<X, Ident("y")>>), Tuple(<<One, X>>), Tuple(<<X, Span(0, 1, FALSE)>>),
             Tuple(<<X>>), Tuple(<<X, Wildcard, Wildcard>>), At("n", Tuple(<<X, X>>))},
   nest |-> {Wildcard, Tuple(<<Tuple(<<One, X>>), Ident("y")>>), Tuple(<<One, X>>)}]

-----------------------------------------------------------------------------
(* The run. *)

CONSTANTS t1, t2, t3, s1, s2, s3, s4, a, b, c, r

MCTask == {t1, t2, t3}
MCSleepers == {s1, s2, s3, s4}
MCName == {a, b, c}
MCRefName == {r}

Symmetric == Permutations(MCSleepers) \cup Permutations(MCName)

VARIABLE part

qvars == <<part, vars, timerVars, ovars, mvars>>

QInit ==
  /\ part \in {"ring", "timers", "ownership", "match"}
  /\ Init /\ TimersInit /\ OInit /\ MInit
  /\ part # "match" => subject = [type |-> "int", variable |-> TRUE]

QNext ==
  /\ UNCHANGED part
  /\ \/ part = "ring" /\ Next /\ UNCHANGED <<timerVars, ovars, mvars>>
     \/ part = "timers" /\ TimersNext /\ UNCHANGED <<vars, ovars, mvars>>
     \/ part = "ownership" /\ ONext /\ UNCHANGED <<vars, timerVars, mvars>>
     \/ part = "match" /\ MNext /\ UNCHANGED <<vars, timerVars, ovars>>

QSpec == QInit /\ [][QNext]_qvars
=============================================================================
