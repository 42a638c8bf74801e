------------------------------ MODULE TimerBag ------------------------------
(* What the timers of the scheduler promise: processing them takes out       *)
(* exactly the expired ones, the earliest first, and tells the time left to  *)
(* the next one.                                                             *)
EXTENDS Integers, Sequences, SequencesExt, FiniteSetsExt

CONSTANTS Task, Delays

VARIABLES
  pending,   \* the sleeping tasks, with their deadlines
  now, woken, wait

Init == pending = {} /\ now = 0 /\ woken = <<>> /\ wait = -1

Tick == now' = now + 1 /\ woken' = <<>> /\ wait' = -1 /\ UNCHANGED pending

Sleep(t, ms) ==
  /\ pending' = pending \cup {[task |-> t, deadline |-> now + ms]}
  /\ woken' = <<>> /\ wait' = -1
  /\ UNCHANGED now

Expired == {e \in pending : e.deadline <= now}

\* The expired tasks in the order of their deadlines, in any order among equals.
ByDeadline ==
  {[i \in DOMAIN s |-> s[i].task] :
     s \in {p \in SetToSeqs(Expired) :
              \A i \in 1..(Len(p) - 1) : p[i].deadline <= p[i + 1].deadline}}

Process ==
  LET left == pending \ Expired IN
  /\ pending' = left
  /\ woken' \in ByDeadline
  /\ wait' = IF left = {} THEN -1 ELSE Min({e.deadline - now : e \in left})
  /\ UNCHANGED now

Next == Tick \/ Process \/ \E t \in Task, ms \in Delays : Sleep(t, ms)

Spec == Init /\ [][Next]_<<pending, now, woken, wait>>
=============================================================================
