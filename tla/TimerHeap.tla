----------------------------- MODULE TimerHeap -----------------------------
(* The timers of the async scheduler: a binary min-heap of deadlines in an   *)
(* array that doubles when it is full.                                       *)
EXTENDS Integers, Sequences

CONSTANTS
  Sleepers, noTask,
  Delays,      \* the arguments of asyncSleep, in ticks
  FirstTimers, \* the capacity timer_init allocates (32)
  MaxTime      \* bound: the clock

ASSUME HeapAssumption ==
  /\ noTask \notin Sleepers
  /\ Delays \subseteq Int /\ FirstTimers \in Nat \ {0} /\ MaxTime \in Nat

VARIABLES
  timer_heap, timer_count, timer_cap,
  now,          \* liva_clock_ms
  woken, wait   \* what timer_process_expired just pushed, and returned

timerVars == <<timer_heap, timer_count, timer_cap, now, woken, wait>>

Blank == [task |-> noTask, deadline |-> 0]

\* timer_init
TimersInit ==
  /\ timer_cap = FirstTimers /\ timer_count = 0
  /\ timer_heap = [i \in 0..(FirstTimers - 1) |-> Blank]
  /\ now = 0 /\ woken = <<>> /\ wait = -1

Swapped(h, i, j) == [h EXCEPT ![i] = h[j], ![j] = h[i]]

\* timer_sift_up
RECURSIVE SiftUp(_, _)
SiftUp(h, idx) ==
  LET parent == (idx - 1) \div 2 IN
  IF idx = 0 \/ h[parent].deadline <= h[idx].deadline THEN h
  ELSE SiftUp(Swapped(h, idx, parent), parent)

\* Mutant: never looks at the right child.
RECURSIVE SiftDownLeft(_, _, _)
SiftDownLeft(h, n, idx) ==
  LET left == 2 * idx + 1 IN
  IF left < n /\ h[left].deadline < h[idx].deadline
  THEN SiftDownLeft(Swapped(h, idx, left), n, left) ELSE h

\* timer_sift_down, in a heap of n entries
RECURSIVE SiftDown(_, _, _)
SiftDown(h, n, idx) ==
  LET left == 2 * idx + 1
      right == 2 * idx + 2
      first == IF left < n /\ h[left].deadline < h[idx].deadline THEN left ELSE idx
      smallest == IF right < n /\ h[right].deadline < h[first].deadline THEN right ELSE first
  IN  IF smallest = idx THEN h ELSE SiftDown(Swapped(h, idx, smallest), n, smallest)

Live == {timer_heap[i].task : i \in 0..(timer_count - 1)}

\* timer_push, by liva_async_sleep: a task that sleeps is suspended until its
\* timer fires, so it has no other.
Sleep(t, ms) ==
  /\ t \notin Live
  /\ LET cap == IF timer_count >= timer_cap THEN 2 * timer_cap ELSE timer_cap
         grown == [i \in 0..(cap - 1) |-> IF i < timer_cap THEN timer_heap[i] ELSE Blank]
     IN
     /\ timer_cap' = cap
     /\ timer_heap' = SiftUp([grown EXCEPT ![timer_count] =
                                [task |-> t, deadline |-> now + ms]], timer_count)
  /\ timer_count' = timer_count + 1
  /\ woken' = <<>> /\ wait' = -1
  /\ UNCHANGED now

Tick ==
  /\ now < MaxTime /\ now' = now + 1
  /\ woken' = <<>> /\ wait' = -1
  /\ UNCHANGED <<timer_heap, timer_count, timer_cap>>

\* The loop of timer_process_expired: pops while the top has expired.
RECURSIVE Popped(_, _, _)
Popped(h, n, out) ==
  IF n = 0 \/ h[0].deadline > now
  THEN [heap |-> h, count |-> n, woken |-> out]
  ELSE Popped(IF n > 1 THEN SiftDown([h EXCEPT ![0] = h[n - 1]], n - 1, 0) ELSE h,
              n - 1, Append(out, h[0].task))

\* timer_process_expired
Process ==
  LET end == Popped(timer_heap, timer_count, <<>>) IN
  /\ timer_heap' = end.heap /\ timer_count' = end.count /\ woken' = end.woken
  /\ wait' = IF end.count = 0 THEN -1 ELSE end.heap[0].deadline - now
  /\ UNCHANGED <<timer_cap, now>>

TimersNext == Tick \/ Process \/ \E t \in Sleepers, ms \in Delays : Sleep(t, ms)

TimersSpec == TimersInit /\ [][TimersNext]_timerVars
-----------------------------------------------------------------------------
\* The heap implements the bag of timers: it fires each of them once, never
\* before its deadline, all that are due, in the order of the deadlines.
Bag == INSTANCE TimerBag WITH
         Task <- Sleepers, pending <- {timer_heap[i] : i \in 0..(timer_count - 1)}
HeapIsBag == Bag!Spec
=============================================================================
