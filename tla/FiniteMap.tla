----------------------------- MODULE FiniteMap -----------------------------
(* What the Map of the language promises: a finite function from keys to     *)
(* values, whose operations answer from its content alone.                   *)
EXTENDS FiniteSets, Functions, Naturals

CONSTANTS Key, Value, nil

VARIABLES contents, answer

Init == contents = <<>> /\ answer = <<"none">>

Insert(k, v) == contents' = [x \in DOMAIN contents \cup {k} |->
                               IF x = k THEN v ELSE contents[x]]
                /\ answer' = <<"none">>

Get(k) == answer' = <<"get", IF k \in DOMAIN contents THEN contents[k] ELSE nil>>
          /\ UNCHANGED contents

Contains(k) == answer' = <<"contains", k \in DOMAIN contents>> /\ UNCHANGED contents

Remove(k) == /\ answer' = <<"remove", k \in DOMAIN contents>>
             /\ contents' = [x \in DOMAIN contents \ {k} |-> contents[x]]

Clear == contents' = <<>> /\ answer' = <<"none">>

\* Each key once, in some order.
Keys == UNCHANGED contents
        /\ \E s \in Injection(1..Cardinality(DOMAIN contents), DOMAIN contents) : answer' = <<"keys", s>>

\* A loop over the map, a growth: nothing the map answers.
Other == answer' = <<"none">> /\ UNCHANGED contents

Next ==
  \/ Clear \/ Other \/ Keys
  \/ \E k \in Key : Get(k) \/ Contains(k) \/ Remove(k) \/ \E v \in Value : Insert(k, v)

Spec == Init /\ [][Next]_<<contents, answer>>
=============================================================================
