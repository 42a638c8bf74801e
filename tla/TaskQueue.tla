----------------------------- MODULE TaskQueue -----------------------------
(* What the ready queue of the scheduler promises: first in, first out,      *)
(* without a bound; a pop of the empty queue returns null.                   *)
EXTENDS Sequences

CONSTANTS Task, null

VARIABLES queue, popped

Init == queue = <<>> /\ popped = null

Push(t) == queue' = Append(queue, t) /\ UNCHANGED popped

Pop ==
  \/ queue # <<>> /\ popped' = Head(queue) /\ queue' = Tail(queue)
  \/ queue = <<>> /\ popped' = null /\ UNCHANGED queue

Next == Pop \/ \E t \in Task : Push(t)

Spec == Init /\ [][Next]_<<queue, popped>>
=============================================================================
