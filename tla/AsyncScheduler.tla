--------------------------- MODULE AsyncScheduler --------------------------
(***************************************************************************)
(* async/await: the coroutines the compiler emits for async functions      *)
(* (src/IR/IRGenDecl.cpp, IRGenExpr.cpp, IRGenCallSys.cpp), and the task,  *)
(* timer, task group and event loop functions of the runtime they call     *)
(* (stdlib/runtime/runtime.cpp).                                           *)
(*                                                                         *)
(* Everything runs on one thread.  The stack holds the coroutines that are *)
(* executing, the running one on top: calling an async function runs its   *)
(* body at once, up to its first suspension (the eager ramp), on top of    *)
(* its caller, and so does resuming one.  With an empty stack the thread   *)
(* is in liva_scheduler_run, or about to call it.                          *)
(*                                                                         *)
(* What the bodies do is not known, so a running coroutine takes any of    *)
(* the steps a body can take: the model covers every program with at most  *)
(* the given tasks.  The features narrow that to a class of programs.      *)
(***************************************************************************)
EXTENDS Naturals, Sequences, FiniteSets, SequencesExt

CONSTANTS
  Task, Root,    \* the tasks the program may create; Root is async main
  NoTask,        \* the null task pointer
  Programs       \* the classes of programs: [features, delays, maxTime]

\* "eager":      an async function called before the first suspension of async
\*               main may suspend; without it such calls run to their end
\* "race":       the clock may tick between the two scans of the timers that
\*               one turn of the event loop makes
\* "cancelTree": a task that has awaited other tasks may be cancelled
\* "blocking":   task groups, taskSelect and withTimeout are used
AllFeatures == {"eager", "race", "cancelTree", "blocking"}

ASSUME TaskAssumption == IsFiniteSet(Task) /\ Root \in Task /\ NoTask \notin Task
ASSUME ProgramAssumption ==
  \A p \in Programs : p.features \subseteq AllFeatures /\ p.delays \subseteq Nat /\ p.maxTime \in Nat

VARIABLES
  program,    \* the class of the program that runs
  status,     \* the coroutine frame of each task
  done, cancelled, parent, children,   \* the fields of LivaTask
  owner,      \* who called the async function, and so holds the task
  awaiting,   \* the task an await expression is suspended on
  wakeAt,     \* the instant until which a sleep was asked to last
  stack,      \* the coroutines being executed, the running one last
  ready,      \* ready_queue, from ready_head to ready_tail
  timers,     \* timer_heap, as the set of its entries; copy tells equal ones apart
  now,        \* liva_clock_ms
  phase,      \* where the thread is in main and liva_scheduler_run
  fault       \* the first undefined step: nothing is known from there on

task == <<done, cancelled, parent, children>>
coro == <<status, owner, awaiting, wakeAt, stack>>
queues == <<ready, timers>>
vars == <<program, task, coro, queues, now, phase, fault>>

Features == program.features   \* what the program and the clock may do
Delays == program.delays       \* the durations passed to sleep
MaxTime == program.maxTime     \* bound: the last instant of the clock

Init ==
  /\ program \in Programs
  /\ status = [t \in Task |-> IF t = Root THEN "running" ELSE "none"]
  /\ done = [t \in Task |-> FALSE]
  /\ cancelled = [t \in Task |-> FALSE]
  /\ parent = [t \in Task |-> NoTask]
  /\ children = [t \in Task |-> <<>>]
  /\ owner = [t \in Task |-> NoTask]
  /\ awaiting = [t \in Task |-> NoTask]
  /\ wakeAt = [t \in Task |-> 0]
  /\ stack = <<Root>>
  /\ ready = <<>>
  /\ timers = {}
  /\ now = 0
  /\ phase = "ramp"
  /\ fault = "none"

-----------------------------------------------------------------------------
(* Helpers *)

Running(t) == fault = "none" /\ stack # <<>> /\ Last(stack) = t

\* t holds the task c and may pass it to the runtime.
Holds(t, c) == owner[c] = t /\ status[c] # "destroyed"

MaySuspend(t) == phase = "ramp" => t = Root \/ "eager" \in Features

\* The running coroutine gives control back to whoever called or resumed it.
Suspend(t) ==
  /\ status' = [status EXCEPT ![t] = "suspended"]
  /\ stack' = Front(stack)

\* liva_coro_resume.  A coroutine suspended in an await goes straight on to
\* read the promise of the awaited task and to destroy it: it does not look
\* at its done flag again.
Resume(t) ==
  LET c == awaiting[t]
      gone == c # NoTask /\ status[c] = "destroyed"
  IN  IF status[t] = "suspended" /\ ~gone
      THEN /\ status' = [u \in Task |-> IF u = t THEN "running"
                                        ELSE IF u = c THEN "destroyed"
                                        ELSE status[u]]
           /\ awaiting' = [awaiting EXCEPT ![t] = NoTask]
           /\ wakeAt' = [wakeAt EXCEPT ![t] = 0]
           /\ stack' = Append(stack, t)
           /\ UNCHANGED <<owner, fault>>
      ELSE /\ fault' = IF status[t] = "final" THEN "resumedAfterFinal"
                       ELSE IF status[t] = "running" THEN "resumedWhileRunning"
                       ELSE "usedAfterFree"
           /\ UNCHANGED coro

\* liva_task_cancel of the tasks in S, one after the other: it marks each and,
\* through the children lists, the tasks below it, but does not go below a
\* task that was marked before.  A list keeps every task that was ever
\* awaited, destroyed ones included.
Visited(S) ==
  LET below(V) == UNION {ToSet(children[v]) : v \in {u \in V : ~cancelled[u] /\ status[u] # "destroyed"}}
  IN  {v \in Task : \A V \in SUBSET Task : S \cup below(V) \subseteq V => v \in V}

CancelTasks(S) ==
  IF \E v \in Visited(S) : status[v] = "destroyed"
  THEN fault' = "usedAfterFree" /\ UNCHANGED cancelled
  ELSE /\ cancelled' = [u \in Task |-> cancelled[u] \/ u \in Visited(S)]
       /\ UNCHANGED fault

-----------------------------------------------------------------------------
(* What a running coroutine does *)

\* A call of an async function: create the task and run its ramp.
CallAsync(t, c) ==
  /\ Running(t)
  /\ status[c] = "none"
  /\ status' = [status EXCEPT ![c] = "running"]
  /\ owner' = [owner EXCEPT ![c] = t]
  /\ stack' = Append(stack, c)
  /\ UNCHANGED <<program, task, awaiting, wakeAt, queues, now, phase, fault>>

\* await of a task that is done: take the result, destroy frame and task.
AwaitDone(t, c) ==
  /\ Running(t)
  /\ Holds(t, c)
  /\ done[c]
  /\ status' = [status EXCEPT ![c] = "destroyed"]
  /\ UNCHANGED <<program, task, owner, awaiting, wakeAt, stack, queues, now, phase, fault>>

\* Mutation: the parent link is not set.
AwaitForgetsParent(t, c) ==
  /\ Running(t) /\ MaySuspend(t)
  /\ Holds(t, c)
  /\ ~done[c]
  /\ children' = [children EXCEPT ![t] = Append(@, c)]
  /\ awaiting' = [awaiting EXCEPT ![t] = c]
  /\ Suspend(t)
  /\ UNCHANGED <<program, parent, done, cancelled, owner, wakeAt, queues, now, phase, fault>>

\* Mutation: await transfers control to the awaited coroutine.
AwaitRunsChild(t, c) ==
  /\ Running(t) /\ MaySuspend(t)
  /\ Holds(t, c)
  /\ ~done[c]
  /\ parent' = [parent EXCEPT ![c] = t]
  /\ children' = [children EXCEPT ![t] = Append(@, c)]
  /\ awaiting' = [awaiting EXCEPT ![t] = c]
  /\ status' = [status EXCEPT ![t] = "suspended", ![c] = "running"]
  /\ stack' = Append(Front(stack), c)
  /\ UNCHANGED <<program, done, cancelled, owner, wakeAt, queues, now, phase, fault>>

\* await of a task that is not: become its parent and suspend.
Await(t, c) ==
  /\ Running(t) /\ MaySuspend(t)
  /\ Holds(t, c)
  /\ ~done[c]
  /\ parent' = [parent EXCEPT ![c] = t]
  /\ children' = [children EXCEPT ![t] = Append(@, c)]
  /\ awaiting' = [awaiting EXCEPT ![t] = c]
  /\ Suspend(t)
  /\ UNCHANGED <<program, done, cancelled, owner, wakeAt, queues, now, phase, fault>>

TimerEntry(t, at) ==
  [task |-> t, at |-> at, copy |-> Cardinality({e \in timers : e.task = t /\ e.at = at})]

\* sleep in an async function: enter a timer and suspend.  Before timer_init
\* the capacity of the heap is 0 and doubling it gives 0: realloc(NULL, 0)
\* returns the smallest block, which holds one entry, and the second
\* realloc(p, 0) frees it and returns NULL.
Sleep(t, d) ==
  /\ Running(t) /\ MaySuspend(t)
  /\ now + d <= MaxTime
  /\ IF phase = "ramp" /\ timers # {}
     THEN fault' = "noTimerHeap" /\ UNCHANGED <<status, stack, wakeAt, timers>>
     ELSE /\ timers' = timers \cup {TimerEntry(t, now + d)}
          /\ wakeAt' = [wakeAt EXCEPT ![t] = now + d]
          /\ Suspend(t)
          /\ UNCHANGED fault
  /\ UNCHANGED <<program, task, owner, awaiting, ready, now, phase>>

\* Mutation: the completed coroutine wakes nobody.
FinishWakesNobody(t) ==
  /\ Running(t)
  /\ done' = [done EXCEPT ![t] = TRUE]
  /\ status' = [status EXCEPT ![t] = "final"]
  /\ stack' = Front(stack)
  /\ UNCHANGED <<program, cancelled, parent, children, owner, awaiting, wakeAt, queues, now,
                 phase, fault>>

\* The end of the body: mark the task, wake its parent, stop for good.  Before
\* ready_init the capacity of the queue is 0: ready_push divides by it.
Finish(t) ==
  /\ Running(t)
  /\ done' = [done EXCEPT ![t] = TRUE]
  /\ IF parent[t] # NoTask /\ phase = "ramp"
     THEN fault' = "noReadyQueue" /\ UNCHANGED <<status, stack, ready>>
     ELSE /\ ready' = IF parent[t] = NoTask THEN ready
                      ELSE Append(ready, parent[t])
          /\ status' = [status EXCEPT ![t] = "final"]
          /\ stack' = Front(stack)
          /\ UNCHANGED fault
  /\ UNCHANGED <<program, cancelled, parent, children, owner, awaiting, wakeAt, timers, now,
                 phase>>

\* Mutation: the cancelled task is made ready at once, its timer is left.
CancelWakesTask(t, c) ==
  /\ Running(t)
  /\ Holds(t, c) /\ ~cancelled[c]
  /\ children[c] # <<>> => "cancelTree" \in Features
  /\ CancelTasks({c})
  /\ ready' = Append(ready, c)
  /\ UNCHANGED <<program, done, parent, children, coro, timers, now, phase>>

\* Mutation: the parent of the cancelled task is made ready at once.
CancelWakesParent(t, c) ==
  /\ Running(t)
  /\ Holds(t, c) /\ ~cancelled[c]
  /\ children[c] # <<>> => "cancelTree" \in Features
  /\ CancelTasks({c})
  /\ ready' = IF parent[c] = NoTask THEN Append(ready, t) ELSE Append(ready, parent[c])
  /\ UNCHANGED <<program, done, parent, children, coro, timers, now, phase>>

\* taskCancel.  It is cooperative: nothing is woken or unwound.
Cancel(t, c) ==
  /\ Running(t)
  /\ Holds(t, c) /\ ~cancelled[c]
  /\ children[c] # <<>> => "cancelTree" \in Features
  /\ CancelTasks({c})
  /\ UNCHANGED <<program, done, parent, children, coro, queues, now, phase>>

-----------------------------------------------------------------------------
(* liva_scheduler_run *)

InLoop == fault = "none" /\ stack = <<>>

\* The queues are initialised anew, and the root is resumed unless it is done,
\* whatever it is suspended on.
Start ==
  /\ InLoop /\ phase = "ramp"
  /\ ready' = <<>>
  /\ timers' = {}
  /\ phase' = "loop"
  /\ IF done[Root] THEN UNCHANGED <<coro, fault>> ELSE Resume(Root)
  /\ UNCHANGED <<program, task, now>>

Expired(e) == e.at <= now

\* Every order in which timer_process_expired may take the entries that have
\* expired off the heap: by deadline, equal deadlines in any order.
ExpiryOrders ==
  {s \in SetToSeqs({e \in timers : Expired(e)}) :
     \A i, j \in DOMAIN s : i < j => s[i].at <= s[j].at}

ProcessExpired ==
  /\ \E s \in ExpiryOrders : ready' = ready \o [i \in DOMAIN s |-> s[i].task]
  /\ timers' = {e \in timers : ~Expired(e)}

\* The loop returns when the root is done; main destroys it.
Return ==
  /\ phase' = "returned"
  /\ status' = [status EXCEPT ![Root] = "destroyed"]
  /\ ready' = <<>>
  /\ timers' = {}

RootDone ==
  /\ InLoop /\ phase = "loop"
  /\ done[Root]
  /\ Return
  /\ UNCHANGED <<program, task, owner, awaiting, wakeAt, stack, now, fault>>

ScanTimers ==
  /\ InLoop /\ phase = "loop"
  /\ ~done[Root]
  /\ ProcessExpired
  /\ phase' = "pop"
  /\ UNCHANGED <<program, task, coro, now, fault>>

\* A cancelled task counts as done: its coroutine is not resumed, its parent is.
PopCancelled ==
  /\ InLoop /\ phase = "pop"
  /\ ready # <<>>
  /\ LET t == Head(ready) IN
       /\ status[t] # "destroyed"
       /\ cancelled[t]
       /\ done' = [done EXCEPT ![t] = TRUE]
       /\ ready' = IF parent[t] = NoTask THEN Tail(ready)
                   ELSE Append(Tail(ready), parent[t])
  /\ phase' = "loop"
  /\ UNCHANGED <<program, cancelled, parent, children, coro, timers, now, fault>>

\* Mutation: the cancelled flag is not looked at.
PopTaskCancelled ==
  /\ InLoop /\ phase = "pop"
  /\ ready # <<>>
  /\ LET t == Head(ready) IN
       IF done[t] THEN UNCHANGED <<coro, fault>> ELSE Resume(t)
  /\ ready' = Tail(ready)
  /\ phase' = "loop"
  /\ UNCHANGED <<program, task, timers, now>>

PopTask ==
  /\ InLoop /\ phase = "pop"
  /\ ready # <<>>
  /\ LET t == Head(ready) IN
       IF status[t] = "destroyed"
       THEN fault' = "usedAfterFree" /\ UNCHANGED coro
       ELSE /\ ~cancelled[t]
            /\ IF done[t] THEN UNCHANGED <<coro, fault>> ELSE Resume(t)
  /\ ready' = Tail(ready)
  /\ phase' = "loop"
  /\ UNCHANGED <<program, task, timers, now>>

\* Nothing is ready: scan the timers a second time, and wait if one is left.
Idle ==
  /\ InLoop /\ phase = "pop"
  /\ ready = <<>>
  /\ \E e \in timers : ~Expired(e)
  /\ ProcessExpired
  /\ phase' = "loop"
  /\ UNCHANGED <<program, task, coro, now, fault>>

\* If none is left, the loop ends, whatever the second scan made ready.
GiveUp ==
  /\ InLoop /\ phase = "pop"
  /\ ready = <<>>
  /\ \A e \in timers : Expired(e)
  /\ Return
  /\ UNCHANGED <<program, task, owner, awaiting, wakeAt, stack, now, fault>>

\* The clock advances by itself.
Tick ==
  /\ now < MaxTime
  /\ fault = "none" /\ phase # "returned"
  /\ phase = "pop" => "race" \in Features
  /\ now' = now + 1
  /\ UNCHANGED <<program, task, coro, queues, phase, fault>>

-----------------------------------------------------------------------------

BodyStep ==
  \E t \in Task :
    \/ \E c \in Task : CallAsync(t, c) \/ AwaitDone(t, c) \/ Await(t, c) \/ Cancel(t, c)
    \/ \E d \in Delays : Sleep(t, d)
    \/ Finish(t)

LoopStep ==
  \/ Start \/ RootDone \/ ScanTimers \/ PopCancelled \/ PopTask \/ Idle \/ GiveUp

\* The program has ended, or its behaviour is undefined.
Ended == (phase = "returned" \/ fault # "none") /\ UNCHANGED vars

Next == BodyStep \/ LoopStep \/ Tick \/ Ended

Spec == Init /\ [][Next]_vars

\* The thread is scheduled, bodies do not compute for ever, and time passes
\* between the turns of the loop (liva_sleep waits at least a millisecond).
FairSpec ==
  Spec /\ WF_vars(BodyStep) /\ WF_vars(LoopStep) /\ SF_vars(Tick)

-----------------------------------------------------------------------------
(* Properties *)

\* The programs without task groups, taskSelect and withTimeout, tasks that suspend
\* before async main does, and cancelled trees of tasks: the others meet undefined steps.
Plain == Features \subseteq {"race"}

NoFault == fault = "none"

\* In a plain program no coroutine is resumed, and no task read, once it is destroyed,
\* and none is resumed when it is not suspended: no entry of the ready queue, of the
\* timer heap or of a parent link outlives the frame it points to (main() destroys the
\* frames, the queues hold bare pointers).
PlainNoFault == Plain => NoFault

Occurrences(s, t) == Cardinality({i \in DOMAIN s : s[i] = t})
TimerCount(t) == Cardinality({e \in timers : e.task = t})

\* In a plain program a coroutine that is suspended has exactly one thing that will
\* wake it: a timer, a place in the ready queue, or a child that is still to complete.
\* With none it would sleep for ever, with two it would be resumed twice.
PlainOneWakeSource ==
  Plain /\ phase # "returned" =>
    \A t \in Task :
      status[t] = "suspended" /\ ~done[t] =>
        Occurrences(ready, t) + TimerCount(t)
          + (IF awaiting[t] # NoTask /\ ~done[awaiting[t]] THEN 1 ELSE 0) = 1

AwaitsEndDone ==
  \A t \in Task : awaiting[t] # NoTask /\ awaiting'[t] # awaiting[t] => done[awaiting[t]]

\* "await suspends execution until the asynchronous operation completes"
\* (docs/LANGUAGE-REFERENCE.md): a task leaves an await only when the awaited
\* task is done: by its own completion, or because the loop ended it cancelled.
AwaitCompletes == [][AwaitsEndDone]_vars

\* What a plain program can rely on of it.
PlainAwaitCompletes == [][Plain => AwaitsEndDone]_vars

\* A coroutine is resumed when it is due, neither too early nor after its end.  A
\* sleep lasts at least as long as it was asked to ("suspends current task for
\* given milliseconds", stdlib/async/async.liva), but for one in the ramp of async
\* main, which Start cuts short; and once a task is cancelled, by whomever and
\* whatever it waits for, the event loop does not run another step of its body
\* (cooperative cancellation, docs/LANGUAGE-REFERENCE.md).
OnlyDueResumed ==
  \A t \in Task :
    /\ phase # "ramp" /\ wakeAt[t] # 0 /\ wakeAt'[t] = 0 => now >= wakeAt[t]
    /\ phase = "pop" /\ cancelled[t] /\ status[t] = "suspended" => status'[t] # "running"

\* Of a plain program.
PlainResumesAreDue == [][Plain => OnlyDueResumed]_vars

\* A task whose sleep is over is waiting to go on: its timer expired in the
\* second scan of a turn that found no other timer.
MissedTimer ==
  \E t \in Task : ~done[t] /\ wakeAt[t] \in 1..now

\* Every plain program whose bodies sleep a finite number of times comes to its end:
\* async main completes, however its tasks await each other and are cancelled.
\* "No ready tasks and no timers" (stdlib/runtime/runtime.cpp) is never a reason
\* to stop before, but for the one race that GiveUp loses.
PlainRootCompletes == Plain => <>(phase = "returned" /\ (done[Root] \/ MissedTimer))
=============================================================================
