----------------------------- MODULE ReadyRing -----------------------------
(* The ready queue of the async scheduler: a ring buffer that doubles when   *)
(* it is full and whose indices only grow until a pop finds it empty.        *)
EXTENDS Integers

CONSTANTS
  Task, null,
  FirstCap,   \* the capacity ready_init allocates (64)
  MaxTail     \* bound: how far the indices grow between two resets

ASSUME RingAssumption ==
  /\ null \notin Task
  /\ FirstCap \in Nat \ {0} /\ MaxTail \in Nat

VARIABLES
  ready_queue, ready_cap, ready_head, ready_tail,
  popped   \* what the last ready_pop returned

vars == <<ready_queue, ready_cap, ready_head, ready_tail, popped>>

Count == ready_tail - ready_head

\* ready_init
Init ==
  /\ ready_cap = FirstCap
  /\ ready_queue = [s \in 0..(FirstCap - 1) |-> null]
  /\ ready_head = 0 /\ ready_tail = 0
  /\ popped = null

\* Mutant: copies the slots without unwrapping the content.
GrownInPlace ==
  [s \in 0..(2 * ready_cap - 1) |->
     IF s < Count THEN ready_queue[s] ELSE null]

\* The buffer of twice the size, with the content from slot 0 on.
Grown ==
  [s \in 0..(2 * ready_cap - 1) |->
     IF s < Count THEN ready_queue[(ready_head + s) % ready_cap] ELSE null]

\* ready_push
Push(t) ==
  /\ ready_tail < MaxTail
  /\ \/ /\ Count >= ready_cap
        /\ ready_cap' = 2 * ready_cap
        /\ ready_queue' = [Grown EXCEPT ![Count] = t]
        /\ ready_head' = 0 /\ ready_tail' = Count + 1
     \/ /\ Count < ready_cap
        /\ ready_queue' = [ready_queue EXCEPT ![ready_tail % ready_cap] = t]
        /\ ready_tail' = ready_tail + 1
        /\ UNCHANGED <<ready_cap, ready_head>>
  /\ UNCHANGED popped

\* ready_pop
Pop ==
  /\ \/ /\ ready_head # ready_tail
        /\ popped' = ready_queue[ready_head % ready_cap]
        /\ ready_head' = ready_head + 1
        /\ UNCHANGED ready_tail
     \/ /\ ready_head = ready_tail
        /\ popped' = null
        /\ ready_head' = 0 /\ ready_tail' = 0
  /\ UNCHANGED <<ready_queue, ready_cap>>

Next == Pop \/ \E t \in Task : Push(t)

Spec == Init /\ [][Next]_vars
-----------------------------------------------------------------------------
\* The indices stay within a capacity of each other, and every slot between
\* them holds a task, also after the ring wrapped and grew.
RingTypeOK ==
  /\ ready_cap \in Nat \ {0}
  /\ ready_head \in Nat /\ ready_tail \in Nat
  /\ ready_head <= ready_tail /\ Count <= ready_cap
  /\ ready_queue \in [0..(ready_cap - 1) -> Task \cup {null}]
  /\ \A i \in 0..(Count - 1) : ready_queue[(ready_head + i) % ready_cap] \in Task
  /\ popped \in Task \cup {null}

\* The tasks of the ring in the order they leave it.
Content == [i \in 1..Count |-> ready_queue[(ready_head + i - 1) % ready_cap]]

\* The ring loses, repeats and reorders no task, across wraps, growth and the
\* reset of the indices: it implements the unbounded queue.
Queue == INSTANCE TaskQueue WITH queue <- Content
RingIsFifo == Queue!Spec
=============================================================================
