---------------------------- MODULE AsyncProofs ----------------------------
(***************************************************************************)
(* Proofs about AsyncScheduler and AsyncBlocking, for any finite set of      *)
(* tasks, any classes of programs and any number of blocking calls.          *)
(*                                                                         *)
(* Two invariants carry them.  PlainInv, of the plain programs: each task    *)
(* that is suspended has one thing that will wake it, and nothing in the     *)
(* queues points to a task that is not suspended.  BlockingInv, of every     *)
(* program: an order of the tasks in which a task comes after the one that   *)
(* called it increases from the bottom of the stack to the top, so nothing   *)
(* that runs is resumed or destroyed a second time.                          *)
(***************************************************************************)
EXTENDS AsyncBlocking, FiniteSetTheorems, FunctionTheorems, SequenceTheorems, TLAPS

Statuses == {"none", "running", "suspended", "final", "destroyed"}
TimerEntries == [task : Task, at : Nat, copy : Nat]

\* The fields of the tasks, the queues and the thread.
AsyncTypeOK ==
  /\ program \in Programs /\ status \in [Task -> Statuses]
  /\ done \in [Task -> BOOLEAN] /\ cancelled \in [Task -> BOOLEAN]
  /\ parent \in [Task -> Task \cup {NoTask}] /\ owner \in [Task -> Task \cup {NoTask}]
  /\ awaiting \in [Task -> Task \cup {NoTask}]
  /\ children \in [Task -> Seq(Task)] /\ wakeAt \in [Task -> Nat] /\ stack \in Seq(Task)
  /\ ready \in Seq(Task) /\ timers \subseteq TimerEntries /\ IsFiniteSet(timers)
  /\ now \in Nat /\ phase \in {"ramp", "loop", "pop", "returned"}
  /\ phase \in {"pop", "returned"} => stack = <<>>

\* The stack holds the running coroutines, none twice and none above one it called.
StackInv ==
  /\ \A i, j \in 1..Len(stack) : stack[i] = stack[j] => i = j
  /\ \A i \in 1..Len(stack) : status[stack[i]] = "running"
  /\ \A t \in Task : status[t] = "running" => \E i \in 1..Len(stack) : stack[i] = t
  /\ \A i, j \in 1..Len(stack) : i <= j => owner[stack[i]] # stack[j]
  /\ phase = "ramp" /\ stack # <<>> => stack[1] = Root

\* What the life of a frame says of its task.
FrameInv ==
  /\ \A t \in Task : status[t] = "none" =>
       /\ owner[t] = NoTask /\ parent[t] = NoTask /\ awaiting[t] = NoTask
       /\ wakeAt[t] = 0 /\ ~done[t] /\ ~cancelled[t] /\ children[t] = <<>>
  /\ \A t \in Task : owner[t] # NoTask => owner[t] # t /\ status[owner[t]] # "none"
  /\ \A t \in Task : status[t] = "final" => done[t]
  /\ \A t \in Task : status[t] = "destroyed" => done[t] /\ t # Root
  /\ \A t \in Task : status[t] = "running" => ~done[t] /\ awaiting[t] = NoTask /\ wakeAt[t] = 0
  /\ status[Root] # "none" /\ owner[Root] = NoTask /\ ~cancelled[Root]

\* An await is on a task of the awaiting one, which is there and will wake it.
AwaitInv ==
  /\ \A t \in Task : awaiting[t] # NoTask =>
       /\ parent[awaiting[t]] = t /\ wakeAt[t] = 0
       /\ status[t] = "suspended" => status[awaiting[t]] # "destroyed"
  /\ \A c \in Task : parent[c] # NoTask =>
       /\ parent[c] = owner[c]
       /\ ~done[c] => awaiting[parent[c]] = c /\ status[parent[c]] = "suspended" /\ ~done[parent[c]]

InReady(t) == \E i \in 1..Len(ready) : ready[i] = t
InTimers(t) == \E e \in timers : e.task = t
InAwait(t) == awaiting[t] # NoTask /\ ~done[awaiting[t]]

\* A task in the ready queue or in the timer heap is suspended, has no other thing to
\* wake it, and is due when it is ready; a suspended task is in one or awaits a child.
WakeInv ==
  /\ \A i, j \in 1..Len(ready) : ready[i] = ready[j] => i = j
  /\ \A t \in Task : InReady(t) =>
       /\ status[t] = "suspended" /\ ~done[t] /\ ~InTimers(t) /\ ~InAwait(t) /\ wakeAt[t] <= now
  /\ \A e, f \in timers : e.task = f.task => e = f
  /\ \A e \in timers :
       /\ status[e.task] = "suspended" /\ ~done[e.task] /\ awaiting[e.task] = NoTask
       /\ wakeAt[e.task] = e.at
  /\ \A t \in Task : status[t] = "suspended" /\ ~done[t] =>
       InReady(t) \/ InTimers(t) \/ InAwait(t)

\* Before async main first suspends nothing else has.
RampInv ==
  phase = "ramp" =>
    /\ ready = <<>> /\ (stack # <<>> => timers = {})
    /\ \A t \in Task : parent[t] = NoTask /\ awaiting[t] = NoTask
    /\ \A t \in Task : status[t] = "suspended" => t = Root

LiveInv == StackInv /\ FrameInv /\ AwaitInv /\ WakeInv /\ RampInv

PlainInv == Plain => fault = "none" /\ (phase # "returned" => LiveInv)

-----------------------------------------------------------------------------
(* The stack and the timers.                                                 *)

\* The running coroutine is the last of the stack, and what is left without it.
LEMMA StackTop ==
  ASSUME stack \in Seq(Task), NEW t \in Task, Running(t)
  PROVE  /\ Len(stack) \in Nat \ {0} /\ stack[Len(stack)] = t /\ fault = "none"
         /\ Front(stack) \in Seq(Task) /\ Len(Front(stack)) = Len(stack) - 1
         /\ \A i \in 1..(Len(stack) - 1) : Front(stack)[i] = stack[i]
<1>1. Len(stack) \in Nat \ {0} /\ stack[Len(stack)] = t /\ fault = "none"
  BY EmptySeq DEF Running, Last
<1>2. \A i \in 1..(Len(stack) - 1) : stack[i] \in Task
  BY <1>1, ElementOfSeq
<1>3. /\ SubSeq(stack, 1, Len(stack) - 1) \in Seq(Task)
      /\ Len(SubSeq(stack, 1, Len(stack) - 1)) = Len(stack) - 1
      /\ \A i \in 1..(Len(stack) - 1) : SubSeq(stack, 1, Len(stack) - 1)[i] = stack[i]
  <2> DEFINE n == Len(stack) - 1
  <2>1. n \in Nat
    BY <1>1
  <2> HIDE DEF n
  <2>2. \A i \in 1..n : stack[i] \in Task
    BY <1>2 DEF n
  <2>3. /\ SubSeq(stack, 1, n) \in Seq(Task)
        /\ Len(SubSeq(stack, 1, n)) = IF 1 <= n THEN n - 1 + 1 ELSE 0
        /\ \A i \in 1..(n - 1 + 1) : SubSeq(stack, 1, n)[i] = stack[1 + i - 1]
    BY <2>1, <2>2, SubSeqProperties
  <2>4. Len(SubSeq(stack, 1, n)) = n /\ \A i \in 1..n : SubSeq(stack, 1, n)[i] = stack[i]
    BY <2>1, <2>3
  <2> QED BY <2>3, <2>4 DEF n
<1> QED BY <1>1, <1>3 DEF Front

\* What the expired timers add to the ready queue: their tasks, each once.
LEMMA ExpiryMovesTasks ==
  ASSUME AsyncTypeOK, ProcessExpired
  PROVE  /\ ready' \in Seq(Task) /\ timers' \subseteq timers /\ IsFiniteSet(timers')
         /\ Len(ready') >= Len(ready) /\ \A i \in 1..Len(ready) : ready'[i] = ready[i]
         /\ \A i \in (Len(ready) + 1)..Len(ready') :
              \E e \in timers \ timers' : ready'[i] = e.task /\ e.at <= now
         /\ \A e \in timers \ timers' : \E i \in (Len(ready) + 1)..Len(ready') : ready'[i] = e.task
         /\ (\A e, f \in timers : e.task = f.task => e = f) =>
              \A i, j \in (Len(ready) + 1)..Len(ready') : ready'[i] = ready'[j] => i = j
<1> DEFINE due == {e \in timers : Expired(e)}
           n == Cardinality(due)
<1>1. PICK s \in ExpiryOrders : ready' = ready \o [i \in DOMAIN s |-> s[i].task]
  BY DEF ProcessExpired
<1>2. timers' = timers \ due /\ timers \ timers' = due
  BY DEF ProcessExpired
<1>3. IsFiniteSet(timers') /\ IsFiniteSet(due) /\ n \in Nat
  BY <1>2, FS_Subset, FS_CardinalityType DEF AsyncTypeOK
<1>4. s \in [1..n -> due] /\ \A i, j \in 1..n : i # j => s[i] # s[j]
  BY <1>1 DEF ExpiryOrders, SetToSeqs
<1> HIDE DEF n, due
<1>5. \A e \in due : \E i \in 1..n : s[i] = e
  <2>1. s \in Injection(1..n, due)
    BY <1>4, Fun_IsInj
  <2>2. IsFiniteSet(1..n) /\ Cardinality(1..n) = n
    BY <1>3, FS_Interval
  <2>3. s \in Surjection(1..n, due)
    BY <1>3, <2>1, <2>2, FS_Injection DEF n
  <2>4. \A e \in due : \E i \in 1..n : s[i] = e
    BY <2>3 DEF Surjection, Range
  <2> QED BY <2>4
<1> DEFINE q == [i \in DOMAIN s |-> s[i].task]
<1>6. \A e \in due : e.task \in Task /\ e.at <= now
  BY DEF AsyncTypeOK, TimerEntries, Expired, due
<1>7. DOMAIN s = 1..n /\ q = [i \in 1..n |-> s[i].task]
  BY <1>4
<1>8. q \in Seq(Task) /\ Len(q) = n
  <2>1. q \in [1..n -> Task]
    BY <1>4, <1>6, <1>7
  <2> HIDE DEF q
  <2>2. q \in Seq(Task)
    BY <1>3, <2>1, SeqDef
  <2>3. DOMAIN q = 1..n /\ DOMAIN q = 1..Len(q) /\ Len(q) \in Nat
    BY <2>1, <2>2, LenProperties
  <2> QED BY <1>3, <2>2, <2>3
<1> HIDE DEF q
<1>9. /\ ready' \in Seq(Task) /\ Len(ready') = Len(ready) + n
      /\ \A i \in 1..(Len(ready) + n) : ready'[i] = IF i <= Len(ready) THEN ready[i] ELSE q[i - Len(ready)]
  BY <1>1, <1>8, ConcatProperties DEF AsyncTypeOK, q
<1>10. Len(ready) \in Nat
  BY DEF AsyncTypeOK
<1>11. \A i \in (Len(ready) + 1)..Len(ready') :
         i - Len(ready) \in 1..n /\ ready'[i] = s[i - Len(ready)].task
  BY <1>3, <1>7, <1>9, <1>10
<1>12. \A k \in 1..n : k + Len(ready) \in (Len(ready) + 1)..Len(ready') /\ ready'[k + Len(ready)] = s[k].task
  BY <1>3, <1>7, <1>9, <1>10
<1>13. \A e \in timers \ timers' : \E i \in (Len(ready) + 1)..Len(ready') : ready'[i] = e.task
  BY <1>2, <1>5, <1>12
<1>14. \A i \in (Len(ready) + 1)..Len(ready') : \E e \in timers \ timers' : ready'[i] = e.task /\ e.at <= now
  BY <1>2, <1>4, <1>6, <1>11
<1>15. ASSUME \A e, f \in timers : e.task = f.task => e = f,
              NEW i \in (Len(ready) + 1)..Len(ready'), NEW j \in (Len(ready) + 1)..Len(ready'),
              ready'[i] = ready'[j]
       PROVE  i = j
  <2>1. s[i - Len(ready)] = s[j - Len(ready)]
    BY SMTT(60), <1>2, <1>4, <1>11, <1>15
  <2>2. i - Len(ready) = j - Len(ready)
    BY <1>4, <1>11, <2>1
  <2> QED BY <1>9, <1>10, <1>3, <2>2
<1> QED BY <1>2, <1>3, <1>9, <1>10, <1>13, <1>14, <1>15

-----------------------------------------------------------------------------
(* Types.                                                                    *)

\* Resuming a coroutine keeps the types.
LEMMA ResumeType ==
  ASSUME AsyncTypeOK, NEW t \in Task, Resume(t)
  PROVE  /\ status' \in [Task -> Statuses] /\ owner' = owner
         /\ awaiting' \in [Task -> Task \cup {NoTask}] /\ wakeAt' \in [Task -> Nat]
         /\ stack' \in Seq(Task)
<1>1. Append(stack, t) \in Seq(Task)
  BY DEF AsyncTypeOK
<1>2. CASE UNCHANGED coro
  BY <1>2 DEF AsyncTypeOK, coro
<1>3. CASE /\ stack' = Append(stack, t) /\ owner' = owner
           /\ awaiting' = [awaiting EXCEPT ![t] = NoTask] /\ wakeAt' = [wakeAt EXCEPT ![t] = 0]
           /\ status' = [u \in Task |-> IF u = t THEN "running"
                                       ELSE IF u = awaiting[t] THEN "destroyed" ELSE status[u]]
  <2>1. status' \in [Task -> Statuses]
    BY <1>3 DEF AsyncTypeOK, Statuses
  <2> QED BY <1>1, <1>3, <2>1 DEF AsyncTypeOK
<1> QED BY <1>2, <1>3 DEF Resume

\* The end of the loop keeps the types.
LEMMA ReturnType ==
  ASSUME AsyncTypeOK, Return, stack' = stack, stack = <<>>, now' = now,
         UNCHANGED <<program, task, owner, awaiting, wakeAt>>
  PROVE  AsyncTypeOK'
<1>1. IsFiniteSet({}) /\ <<>> \in Seq(Task)
  BY FS_EmptySet
<1> QED BY <1>1, TaskAssumption DEF Return, AsyncTypeOK, Statuses, task

\* A cancellation keeps the types.
LEMMA CancelType ==
  ASSUME AsyncTypeOK, NEW S, CancelTasks(S)
  PROVE  cancelled' \in [Task -> BOOLEAN]
<1>1. CASE UNCHANGED cancelled
  BY <1>1 DEF AsyncTypeOK
<1>2. CASE cancelled' = [u \in Task |-> cancelled[u] \/ u \in Visited(S)]
  BY <1>2
<1> QED BY <1>1, <1>2 DEF CancelTasks

\* A step of a body keeps the types.
LEMMA BodyType ==
  ASSUME AsyncTypeOK, BodyStep
  PROVE  AsyncTypeOK'
<1>1. PICK t \in Task :
        \/ \E c \in Task : CallAsync(t, c) \/ AwaitDone(t, c) \/ Await(t, c) \/ Cancel(t, c)
        \/ \E d \in Delays : Sleep(t, d)
        \/ Finish(t)
  BY DEF BodyStep
<1>2. Running(t)
  BY <1>1 DEF CallAsync, AwaitDone, Await, Cancel, Sleep, Finish
<1>3. stack \in Seq(Task) /\ Front(stack) \in Seq(Task) /\ phase \in {"ramp", "loop"}
  BY <1>2, StackTop DEF AsyncTypeOK, Running
<1> USE DEF task, coro, queues
<1>4. ASSUME NEW c \in Task, CallAsync(t, c) PROVE AsyncTypeOK'
  <2>1. Append(stack, c) \in Seq(Task)
    BY <1>3
  <2> QED BY <1>3, <1>4, <2>1 DEF CallAsync, AsyncTypeOK, Statuses
<1>5. ASSUME NEW c \in Task, AwaitDone(t, c) PROVE AsyncTypeOK'
  BY <1>3, <1>5 DEF AwaitDone, AsyncTypeOK, Statuses
<1>6. ASSUME NEW c \in Task, Await(t, c) PROVE AsyncTypeOK'
  <2>1. Append(children[t], c) \in Seq(Task)
    BY DEF AsyncTypeOK
  <2> QED BY <1>3, <1>6, <2>1 DEF Await, Suspend, AsyncTypeOK, Statuses
<1>7. ASSUME NEW c \in Task, Cancel(t, c) PROVE AsyncTypeOK'
  <2>1. cancelled' \in [Task -> BOOLEAN]
    BY <1>7, CancelType DEF Cancel
  <2> QED BY <1>3, <1>7, <2>1 DEF Cancel, AsyncTypeOK
<1>8. ASSUME NEW d \in Delays, Sleep(t, d) PROVE AsyncTypeOK'
  <2>1. d \in Nat
    BY ProgramAssumption DEF Delays, AsyncTypeOK
  <2>2. IsFiniteSet({e \in timers : e.task = t /\ e.at = now + d})
    BY FS_Subset DEF AsyncTypeOK
  <2>3. Cardinality({e \in timers : e.task = t /\ e.at = now + d}) \in Nat
    BY <2>2, FS_CardinalityType
  <2>4. TimerEntry(t, now + d) \in TimerEntries
    BY <2>1, <2>3 DEF TimerEntry, TimerEntries, AsyncTypeOK
  <2>5. IsFiniteSet(timers \cup {TimerEntry(t, now + d)})
    BY FS_AddElement DEF AsyncTypeOK
  <2>6. now + d \in Nat
    BY <2>1 DEF AsyncTypeOK
  <2> HIDE DEF TimerEntry
  <2> QED BY ZenonT(90), <1>3, <1>8, <2>4, <2>5, <2>6 DEF Sleep, Suspend, AsyncTypeOK, Statuses
<1>9. CASE Finish(t)
  <2>1. parent[t] # NoTask => Append(ready, parent[t]) \in Seq(Task)
    BY DEF AsyncTypeOK
  <2> QED BY <1>3, <1>9, <2>1 DEF Finish, AsyncTypeOK, Statuses
<1> QED BY <1>1, <1>4, <1>5, <1>6, <1>7, <1>8, <1>9

\* A step of the event loop keeps the types.
LEMMA LoopType ==
  ASSUME AsyncTypeOK, LoopStep
  PROVE  AsyncTypeOK'
<1>0. /\ IsFiniteSet({}) /\ <<>> \in Seq(Task) /\ Root \in Task /\ stack = <<>>
  BY FS_EmptySet, TaskAssumption
     DEF LoopStep, Start, RootDone, ScanTimers, PopCancelled, PopTask, Idle, GiveUp, InLoop
<1> USE DEF task, coro, queues
<1>1. CASE Start
  <2>1. CASE done[Root]
    BY <1>0, <1>1, <2>1 DEF Start, AsyncTypeOK
  <2>2. CASE Resume(Root)
    BY <1>0, <1>1, <2>2, ResumeType DEF Start, AsyncTypeOK
  <2> QED BY <1>1, <2>1, <2>2 DEF Start
<1>2. CASE RootDone \/ GiveUp
  BY <1>0, <1>2, ReturnType DEF RootDone, GiveUp
<1>3. CASE ScanTimers \/ Idle
  <2>1. ProcessExpired
    BY <1>3 DEF ScanTimers, Idle
  <2>2. ready' \in Seq(Task) /\ timers' \subseteq TimerEntries /\ IsFiniteSet(timers')
    BY <2>1, ExpiryMovesTasks DEF AsyncTypeOK
  <2> QED BY <1>0, <1>3, <2>2 DEF ScanTimers, Idle, AsyncTypeOK
<1>4. CASE PopCancelled
  <2>1. Head(ready) \in Task /\ Tail(ready) \in Seq(Task)
    BY <1>4, HeadTailProperties DEF PopCancelled, AsyncTypeOK
  <2>2. parent[Head(ready)] # NoTask => Append(Tail(ready), parent[Head(ready)]) \in Seq(Task)
    BY <2>1 DEF AsyncTypeOK
  <2> QED BY <1>0, <1>4, <2>1, <2>2 DEF PopCancelled, AsyncTypeOK
<1>5. CASE PopTask
  <2>1. Head(ready) \in Task /\ Tail(ready) \in Seq(Task)
    BY <1>5, HeadTailProperties DEF PopTask, AsyncTypeOK
  <2>2. CASE UNCHANGED coro
    BY <1>0, <1>5, <2>1, <2>2 DEF PopTask, AsyncTypeOK
  <2>3. CASE Resume(Head(ready))
    BY <1>0, <1>5, <2>1, <2>3, ResumeType DEF PopTask, AsyncTypeOK
  <2> QED BY <1>5, <2>2, <2>3 DEF PopTask
<1> QED BY <1>1, <1>2, <1>3, <1>4, <1>5 DEF LoopStep

\* The clock keeps the types.
LEMMA TickType ==
  ASSUME AsyncTypeOK, Tick
  PROVE  AsyncTypeOK'
BY DEF Tick, AsyncTypeOK, task, coro, queues
-----------------------------------------------------------------------------
(* The stack.                                                                *)

\* A step that starts and ends no coroutine.
LEMMA StackKept ==
  ASSUME AsyncTypeOK, StackInv, UNCHANGED <<stack, owner>>, phase' = "ramp" => phase = "ramp",
         \A u \in Task : status'[u] = "running" <=> status[u] = "running"
  PROVE  StackInv'
<1>1. \A i \in 1..Len(stack) : stack[i] \in Task
  BY ElementOfSeq DEF AsyncTypeOK
<1> QED BY <1>1 DEF StackInv

\* The running coroutine gives control back.
LEMMA StackPopped ==
  ASSUME AsyncTypeOK, StackInv, NEW t \in Task, Running(t),
         stack' = Front(stack), owner' = owner, phase' = phase,
         \A u \in Task : status'[u] = "running" <=> status[u] = "running" /\ u # t
  PROVE  StackInv'
<1> DEFINE n == Len(stack)
<1>1. stack \in Seq(Task)
  BY DEF AsyncTypeOK
<1>2. /\ n \in Nat \ {0} /\ stack[n] = t
      /\ stack' \in Seq(Task) /\ Len(stack') = n - 1
      /\ \A i \in 1..(n - 1) : stack'[i] = stack[i]
  BY <1>1, StackTop
<1>3. stack' # <<>> => n > 1
  BY <1>2, EmptySeq
<1>4. \A i, j \in 1..n : stack[i] = stack[j] => i = j
  BY DEF StackInv
<1> HIDE DEF n
<1>5. \A i \in 1..(n - 1) : i \in 1..n /\ stack[i] # t
  BY <1>2, <1>4
<1>6. \A i \in 1..(n - 1) : status'[stack'[i]] = "running"
  <2>1. \A i \in 1..(n - 1) : stack[i] \in Task /\ status[stack[i]] = "running"
    BY <1>1, <1>5, ElementOfSeq DEF StackInv, n
  <2> QED BY <1>2, <1>5, <2>1
<1>7. \A u \in Task : status'[u] = "running" => \E i \in 1..(n - 1) : stack'[i] = u
  <2>1. ASSUME NEW u \in Task, status'[u] = "running" PROVE \E i \in 1..(n - 1) : stack'[i] = u
    <3>1. u # t /\ \E i \in 1..n : stack[i] = u
      BY <2>1 DEF StackInv, n
    <3>2. PICK i \in 1..n : stack[i] = u
      BY <3>1
    <3>3. i \in 1..(n - 1)
      BY <1>2, <3>1, <3>2
    <3> QED BY <1>2, <3>2, <3>3
  <2> QED BY <2>1
<1>8. \A i, j \in 1..(n - 1) :
        /\ stack'[i] = stack'[j] => i = j
        /\ i <= j => owner'[stack'[i]] # stack'[j]
  BY <1>2, <1>4, <1>5 DEF StackInv, n
<1>9. phase' = "ramp" /\ stack' # <<>> => stack'[1] = Root
  BY <1>2, <1>3, EmptySeq DEF StackInv, n
<1> QED BY <1>2, <1>6, <1>7, <1>8, <1>9 DEF StackInv

\* A coroutine is called or resumed.
LEMMA StackPushed ==
  ASSUME AsyncTypeOK, StackInv, NEW c \in Task, status[c] # "running",
         stack' = Append(stack, c), owner'[c] # c,
         phase' = "ramp" => phase = "ramp" /\ stack # <<>>,
         \A u \in Task : u # c => owner'[u] = owner[u],
         \A u \in Task : status[u] = "running" => owner[u] # c,
         \A u \in Task : status'[u] = "running" <=> status[u] = "running" \/ u = c
  PROVE  StackInv'
<1> DEFINE n == Len(stack)
<1>1. stack \in Seq(Task) /\ n \in Nat
  BY DEF AsyncTypeOK
<1>2. /\ Len(stack') = n + 1 /\ stack'[n + 1] = c
      /\ \A i \in 1..n : stack'[i] = stack[i] /\ stack[i] \in Task
  BY <1>1, AppendProperties, ElementOfSeq
<1>3. \A i \in 1..n : status[stack[i]] = "running" /\ stack[i] # c /\ owner[stack[i]] # c
  BY <1>2 DEF StackInv
<1>4. stack # <<>> => 1 \in 1..n
  BY <1>1, EmptySeq
<1>5. \A i, j \in 1..n : (stack[i] = stack[j] => i = j) /\ (i <= j => owner[stack[i]] # stack[j])
  BY DEF StackInv
<1>6. \A u \in Task : status[u] = "running" => \E i \in 1..n : stack[i] = u
  BY DEF StackInv
<1>7. phase' = "ramp" => stack[1] = Root
  BY DEF StackInv
<1> HIDE DEF n
<1>8. \A i \in 1..(n + 1) : i \in 1..n \/ i = n + 1
  BY <1>1
<1>9. \A i, j \in 1..(n + 1) : stack'[i] = stack'[j] => i = j
  BY <1>2, <1>3, <1>5, <1>8
<1>10. \A i \in 1..(n + 1) : status'[stack'[i]] = "running"
  BY <1>2, <1>3, <1>8
<1>11. \A u \in Task : status'[u] = "running" => \E i \in 1..(n + 1) : stack'[i] = u
  <2>1. n + 1 \in 1..(n + 1) /\ \A i \in 1..n : i \in 1..(n + 1)
    BY <1>1
  <2> QED BY <1>2, <1>6, <2>1
<1>12. \A i, j \in 1..(n + 1) : i <= j => owner'[stack'[i]] # stack'[j]
  <2>1. \A i, j \in 1..(n + 1) : i <= j => (i = n + 1 /\ j = n + 1) \/ i \in 1..n
    BY <1>1
  <2> QED BY <1>2, <1>3, <1>5, <1>8, <2>1
<1>13. phase' = "ramp" => stack'[1] = Root
  BY <1>2, <1>4, <1>7
<1> QED BY <1>2, <1>9, <1>10, <1>11, <1>12, <1>13 DEF StackInv
-----------------------------------------------------------------------------
(* Steps of a body, in a plain program.                                      *)

\* The running coroutine has nothing to wake it, and no task it holds runs: those it
\* could have called that still run are above it on the stack.
LEMMA RunningFacts ==
  ASSUME AsyncTypeOK, LiveInv, NEW t \in Task, Running(t)
  PROVE  /\ status[t] = "running" /\ ~done[t] /\ awaiting[t] = NoTask /\ wakeAt[t] = 0
         /\ ~InReady(t) /\ ~InTimers(t) /\ stack # <<>> /\ phase \in {"ramp", "loop"}
         /\ \A c \in Task : owner[c] = t => status[c] # "running"
         /\ \A c \in Task : parent[c] = t => done[c]
<1> DEFINE n == Len(stack)
<1>1. n \in Nat \ {0} /\ stack[n] = t
  BY StackTop DEF AsyncTypeOK
<1>2. status[t] = "running"
  BY <1>1 DEF LiveInv, StackInv
<1>3. ~done[t] /\ awaiting[t] = NoTask /\ wakeAt[t] = 0
  BY <1>2 DEF LiveInv, FrameInv
<1>4. ~InReady(t) /\ ~InTimers(t)
  BY <1>2 DEF LiveInv, WakeInv, InTimers
<1>5. stack # <<>> /\ phase \in {"ramp", "loop"}
  BY DEF Running, AsyncTypeOK
<1>6. ASSUME NEW c \in Task, owner[c] = t, status[c] = "running" PROVE FALSE
  <2>1. PICK i \in 1..n : stack[i] = c
    BY <1>6 DEF LiveInv, StackInv
  <2>2. i <= n /\ n \in 1..n
    BY <1>1
  <2> QED BY <1>1, <1>6, <2>1, <2>2 DEF LiveInv, StackInv
<1>7. ASSUME NEW c \in Task, parent[c] = t, ~done[c] PROVE FALSE
  <2>1. t # NoTask
    BY TaskAssumption
  <2> QED BY <1>2, <1>7, <2>1 DEF LiveInv, AwaitInv
<1> QED BY <1>2, <1>3, <1>4, <1>5, <1>6, <1>7

\* The task of an await has the awaiting one as its owner and its parent.
LEMMA AwaitedTasks ==
  ASSUME AsyncTypeOK, LiveInv, NEW u \in Task, NEW c \in Task, awaiting[u] = c
  PROVE  parent[c] = u /\ owner[c] = u /\ c # u /\ wakeAt[u] = 0
<1>1. c # NoTask /\ u # NoTask
  BY TaskAssumption
<1>2. parent[c] = u /\ owner[c] = u /\ wakeAt[u] = 0
  BY <1>1 DEF LiveInv, AwaitInv
<1> QED BY <1>1, <1>2 DEF LiveInv, FrameInv

\* A step that changes neither the queues nor the life of a task that is in them.
LEMMA WakeKept ==
  ASSUME AsyncTypeOK, WakeInv, NEW v \in Task, ~InReady(v), ~InTimers(v),
         UNCHANGED <<ready, timers, now, done, wakeAt>>,
         \A u \in Task : u # v => status'[u] = status[u] /\ awaiting'[u] = awaiting[u],
         status'[v] = "suspended" /\ ~done[v] => awaiting'[v] # NoTask /\ ~done[awaiting'[v]]
  PROVE  WakeInv'
<1>1. \A u \in Task : (InReady(u)' <=> InReady(u)) /\ (InTimers(u)' <=> InTimers(u))
  BY DEF InReady, InTimers
<1>2. \A u \in Task : u # v => (InAwait(u)' <=> InAwait(u))
  BY DEF InAwait
<1>3. /\ \A i, j \in 1..Len(ready') : ready'[i] = ready'[j] => i = j
      /\ \A e, f \in timers' : e.task = f.task => e = f
  BY DEF WakeInv
<1>4. ASSUME NEW u \in Task, InReady(u)'
      PROVE  /\ status'[u] = "suspended" /\ ~done'[u] /\ wakeAt'[u] <= now'
             /\ ~InTimers(u)' /\ ~InAwait(u)'
  <2>1. u # v /\ InReady(u)
    BY <1>1, <1>4
  <2> QED BY <1>1, <1>2, <2>1 DEF WakeInv
<1>5. ASSUME NEW e \in timers'
      PROVE  /\ status'[e.task] = "suspended" /\ ~done'[e.task] /\ awaiting'[e.task] = NoTask
             /\ wakeAt'[e.task] = e.at
  <2>1. e \in timers /\ e.task \in Task /\ e.task # v
    BY <1>5 DEF AsyncTypeOK, TimerEntries, InTimers
  <2> QED BY <2>1 DEF WakeInv
<1>6. ASSUME NEW u \in Task, status'[u] = "suspended", ~done'[u]
      PROVE  InReady(u)' \/ InTimers(u)' \/ InAwait(u)'
  <2>1. CASE u = v
    BY <1>6, <2>1 DEF InAwait
  <2>2. CASE u # v
    BY <1>1, <1>2, <1>6, <2>2 DEF WakeInv
  <2> QED BY <2>1, <2>2
<1> QED BY <1>3, <1>4, <1>5, <1>6 DEF WakeInv

\* The called coroutine is new: no queue, link or stack entry points to it.
LEMMA CallAsyncLive ==
  ASSUME AsyncTypeOK, LiveInv, NEW t \in Task, NEW c \in Task, CallAsync(t, c)
  PROVE  LiveInv'
<1>1. Running(t) /\ status[c] = "none" /\ t # c
  BY RunningFacts DEF CallAsync
<1>2. status[t] = "running" /\ stack # <<>>
  BY <1>1, RunningFacts
<1>3. /\ status' = [status EXCEPT ![c] = "running"] /\ owner' = [owner EXCEPT ![c] = t]
      /\ stack' = Append(stack, c) /\ phase' = phase /\ now' = now
      /\ UNCHANGED <<done, cancelled, parent, children, awaiting, wakeAt, ready, timers>>
  BY DEF CallAsync, task, queues
<1>4. /\ \A u \in Task : owner[u] # c
      /\ owner[c] = NoTask /\ parent[c] = NoTask /\ awaiting[c] = NoTask /\ wakeAt[c] = 0
      /\ ~done[c] /\ ~cancelled[c] /\ children[c] = <<>> /\ c # Root
  BY SMTT(60), <1>1, TaskAssumption DEF LiveInv, FrameInv, AsyncTypeOK
<1>5. StackInv'
  BY <1>1, <1>2, <1>3, <1>4, StackPushed DEF LiveInv, AsyncTypeOK
<1>6. FrameInv'
  BY SMTT(60), <1>1, <1>2, <1>3, <1>4 DEF LiveInv, FrameInv, AsyncTypeOK
<1>7. AwaitInv'
  BY SMTT(60), <1>1, <1>3, <1>4 DEF LiveInv, AwaitInv, AsyncTypeOK
<1>8. WakeInv'
  <2>1. ~InReady(c) /\ ~InTimers(c)
    BY <1>1 DEF LiveInv, WakeInv, InTimers
  <2>2. \A u \in Task : u # c => status'[u] = status[u] /\ awaiting'[u] = awaiting[u]
    BY <1>3 DEF AsyncTypeOK
  <2>3. status'[c] # "suspended"
    BY <1>3 DEF AsyncTypeOK
  <2> QED BY <1>3, <2>1, <2>2, <2>3, WakeKept DEF LiveInv
<1>9. RampInv'
  BY <1>1, <1>2, <1>3 DEF LiveInv, RampInv, AsyncTypeOK
<1> QED BY <1>5, <1>6, <1>7, <1>8, <1>9 DEF LiveInv

\* The destroyed task is done, so nothing waits for it or has it to wake.
LEMMA AwaitDoneLive ==
  ASSUME AsyncTypeOK, LiveInv, NEW t \in Task, NEW c \in Task, AwaitDone(t, c)
  PROVE  LiveInv'
<1>1. /\ Running(t) /\ owner[c] = t /\ done[c] /\ t # c
      /\ status[t] = "running" /\ awaiting[t] = NoTask
  BY RunningFacts DEF AwaitDone, Holds
<1>2. /\ status' = [status EXCEPT ![c] = "destroyed"] /\ phase' = phase /\ now' = now
      /\ UNCHANGED <<done, cancelled, parent, children, owner, awaiting, wakeAt, stack, ready, timers>>
  BY DEF AwaitDone, task, queues
<1>3. status[c] # "running" /\ status[c] # "none" /\ c # Root
  BY <1>1, RunningFacts, TaskAssumption DEF LiveInv, FrameInv
<1>4. \A u \in Task : status'[u] = "running" <=> status[u] = "running"
  BY <1>1, <1>2, <1>3 DEF AsyncTypeOK
<1>5. StackInv'
  BY <1>2, <1>4, StackKept DEF LiveInv
<1>6. FrameInv'
  BY <1>1, <1>2, <1>3 DEF LiveInv, FrameInv, AsyncTypeOK
<1>7. AwaitInv'
  <2>1. \A u \in Task : awaiting[u] # c
    BY <1>1, AwaitedTasks, TaskAssumption
  <2> QED BY <1>1, <1>2, <2>1 DEF LiveInv, AwaitInv, AsyncTypeOK
<1>8. WakeInv'
  <2>1. ~InReady(c) /\ ~InTimers(c)
    BY <1>1 DEF LiveInv, WakeInv, InTimers
  <2>2. \A u \in Task : u # c => status'[u] = status[u] /\ awaiting'[u] = awaiting[u]
    BY <1>2 DEF AsyncTypeOK
  <2> QED BY <1>1, <1>2, <2>1, <2>2, WakeKept DEF LiveInv
<1>9. RampInv'
  BY <1>1, <1>2, <1>3 DEF LiveInv, RampInv, AsyncTypeOK
<1> QED BY <1>5, <1>6, <1>7, <1>8, <1>9 DEF LiveInv

\* A plain program awaits a task that is suspended: it did not run in the ramp.
LEMMA AwaitLive ==
  ASSUME AsyncTypeOK, LiveInv, Plain, NEW t \in Task, NEW c \in Task, Await(t, c)
  PROVE  LiveInv'
<1>1. /\ Running(t) /\ MaySuspend(t) /\ owner[c] = t /\ ~done[c] /\ t # c
      /\ status[t] = "running" /\ awaiting[t] = NoTask /\ ~done[t] /\ wakeAt[t] = 0
      /\ ~InReady(t) /\ ~InTimers(t)
  BY RunningFacts DEF Await, Holds
<1>2. /\ parent' = [parent EXCEPT ![c] = t] /\ awaiting' = [awaiting EXCEPT ![t] = c]
      /\ children' = [children EXCEPT ![t] = Append(@, c)]
      /\ status' = [status EXCEPT ![t] = "suspended"] /\ stack' = Front(stack)
      /\ phase' = phase /\ now' = now
      /\ UNCHANGED <<done, cancelled, owner, wakeAt, ready, timers>>
  BY DEF Await, Suspend, queues
<1>3. status[c] = "suspended" /\ c # Root
  <2>1. status[c] # "running" /\ status[c] # "destroyed"
    BY <1>1, RunningFacts DEF Await, Holds
  <2>2. status[c] # "none" /\ status[c] # "final" /\ c # Root
    BY <1>1, TaskAssumption DEF LiveInv, FrameInv
  <2> QED BY <2>1, <2>2 DEF AsyncTypeOK, Statuses
<1>4. phase # "ramp"
  BY <1>1, <1>3 DEF LiveInv, RampInv
<1>5. \A u \in Task : status'[u] = "running" <=> status[u] = "running" /\ u # t
  BY <1>1, <1>2 DEF AsyncTypeOK
<1>6. StackInv'
  BY <1>1, <1>2, <1>5, StackPopped DEF LiveInv
<1>7. FrameInv'
  BY SMTT(60), <1>1, <1>2, <1>3 DEF LiveInv, FrameInv, AsyncTypeOK
<1>8. \A u \in Task : awaiting[u] # c /\ (parent[u] = t => done[u])
  BY <1>1, RunningFacts, AwaitedTasks, TaskAssumption
<1>9. AwaitInv'
  BY SMTT(60), <1>1, <1>2, <1>3, <1>8, TaskAssumption DEF LiveInv, AwaitInv, AsyncTypeOK
<1>10. WakeInv'
  <2>1. \A u \in Task : u # t => status'[u] = status[u] /\ awaiting'[u] = awaiting[u]
    BY <1>2 DEF AsyncTypeOK
  <2>2. awaiting'[t] = c /\ c # NoTask
    BY <1>2, TaskAssumption DEF AsyncTypeOK
  <2> QED BY <1>1, <1>2, <2>1, <2>2, WakeKept DEF LiveInv
<1>11. RampInv'
  BY <1>2, <1>4 DEF RampInv
<1> QED BY <1>6, <1>7, <1>9, <1>10, <1>11 DEF LiveInv

\* What is cancelled has awaited nothing, so only its own flag changes.
LEMMA CancelLive ==
  ASSUME AsyncTypeOK, LiveInv, Plain, NEW t \in Task, NEW c \in Task, Cancel(t, c)
  PROVE  fault' = fault /\ LiveInv'
<1>1. /\ Running(t) /\ owner[c] = t /\ status[c] # "destroyed" /\ children[c] = <<>>
      /\ CancelTasks({c}) /\ UNCHANGED <<done, parent, children, coro, queues, now, phase>>
  BY DEF Cancel, Holds, Plain
<1>2. Visited({c}) \subseteq {c}
  <2>1. ToSet(children[c]) = {}
    BY <1>1 DEF ToSet
  <2>2. UNION {ToSet(children[v]) : v \in {u \in {c} : ~cancelled[u] /\ status[u] # "destroyed"}} = {}
    BY <2>1
  <2> QED BY ZenonT(90), <2>2 DEF Visited
<1>3. fault' = fault /\ cancelled' = [u \in Task |-> cancelled[u] \/ u \in Visited({c})]
  BY <1>1, <1>2 DEF CancelTasks
<1>4. status[c] # "none" /\ c # Root
  BY <1>1, TaskAssumption DEF LiveInv, FrameInv
<1>5. StackInv'
  BY <1>1 DEF LiveInv, StackInv, coro
<1>6. FrameInv'
  <2>1. \A u \in Task : u # c => (cancelled'[u] <=> cancelled[u])
    BY <1>2, <1>3 DEF AsyncTypeOK
  <2>2. \A u \in Task : status[u] = "none" => ~cancelled'[u]
    BY <1>4, <2>1 DEF LiveInv, FrameInv
  <2>3. ~cancelled'[Root]
    BY <1>4, <2>1, TaskAssumption DEF LiveInv, FrameInv
  <2> QED BY <1>1, <2>2, <2>3 DEF LiveInv, FrameInv, coro
<1>7. AwaitInv' /\ WakeInv' /\ RampInv'
  BY <1>1 DEF LiveInv, AwaitInv, WakeInv, RampInv, coro, queues, InReady, InTimers, InAwait
<1> QED BY <1>3, <1>5, <1>6, <1>7 DEF LiveInv

\* A sleep in the ramp is of async main alone, and is the first timer.
LEMMA SleepLive ==
  ASSUME AsyncTypeOK, LiveInv, Plain, NEW t \in Task, NEW d \in Delays, Sleep(t, d)
  PROVE  fault' = fault /\ LiveInv'
<1>1. /\ Running(t) /\ MaySuspend(t) /\ stack # <<>>
      /\ status[t] = "running" /\ awaiting[t] = NoTask /\ ~done[t] /\ wakeAt[t] = 0
      /\ ~InReady(t) /\ ~InTimers(t)
  BY RunningFacts DEF Sleep
<1>2. phase = "ramp" => timers = {}
  BY <1>1 DEF LiveInv, RampInv
<1> DEFINE new == TimerEntry(t, now + d)
<1>3. new.task = t /\ new.at = now + d
  BY DEF TimerEntry
<1> HIDE DEF new
<1>4. /\ timers' = timers \cup {new} /\ wakeAt' = [wakeAt EXCEPT ![t] = now + d]
      /\ status' = [status EXCEPT ![t] = "suspended"] /\ stack' = Front(stack)
      /\ phase' = phase /\ now' = now /\ fault' = fault
      /\ UNCHANGED <<done, cancelled, parent, children, owner, awaiting, ready>>
  BY <1>2 DEF Sleep, Suspend, task, new
<1>5. \A u \in Task : status'[u] = "running" <=> status[u] = "running" /\ u # t
  BY <1>1, <1>4 DEF AsyncTypeOK
<1>6. StackInv'
  BY <1>1, <1>4, <1>5, StackPopped DEF LiveInv
<1>7. FrameInv'
  BY <1>1, <1>4 DEF LiveInv, FrameInv, AsyncTypeOK
<1>8. AwaitInv'
  BY <1>1, <1>4, SMTT(60) DEF LiveInv, AwaitInv, AsyncTypeOK
<1>9. WakeInv'
  <2>1. /\ \A u \in Task : InReady(u)' <=> InReady(u)
        /\ \A u \in Task : InAwait(u)' <=> InAwait(u)
        /\ \A u \in Task : InTimers(u)' <=> InTimers(u) \/ u = t
    BY <1>3, <1>4 DEF InReady, InAwait, InTimers
  <2>2. \A e \in timers : e.task \in Task /\ e.task # t
    BY <1>1 DEF AsyncTypeOK, TimerEntries, InTimers
  <2>3. \A u \in Task : u # t => status'[u] = status[u] /\ wakeAt'[u] = wakeAt[u]
    BY <1>4 DEF AsyncTypeOK
  <2>4. status'[t] = "suspended" /\ wakeAt'[t] = now + d
    BY <1>4 DEF AsyncTypeOK
  <2>5. \A e \in timers' : e = new \/ e \in timers
    BY <1>4
  <2>6. \A e, f \in timers' : e.task = f.task => e = f
    BY <1>3, <2>2, <2>5 DEF LiveInv, WakeInv
  <2>7. \A e \in timers' : /\ status'[e.task] = "suspended" /\ ~done'[e.task]
                          /\ awaiting'[e.task] = NoTask /\ wakeAt'[e.task] = e.at
    BY <1>1, <1>3, <1>4, <2>2, <2>3, <2>4, <2>5 DEF LiveInv, WakeInv
  <2>8. \A u \in Task : InReady(u)' =>
          /\ status'[u] = "suspended" /\ ~done'[u] /\ wakeAt'[u] <= now'
          /\ ~InTimers(u)' /\ ~InAwait(u)'
    BY <1>1, <1>4, <2>1, <2>3 DEF LiveInv, WakeInv
  <2>9. \A u \in Task : status'[u] = "suspended" /\ ~done'[u] =>
          InReady(u)' \/ InTimers(u)' \/ InAwait(u)'
    BY <1>4, <2>1, <2>3 DEF LiveInv, WakeInv
  <2>10. \A i, j \in 1..Len(ready') : ready'[i] = ready'[j] => i = j
    BY <1>4 DEF LiveInv, WakeInv
  <2> QED BY <2>6, <2>7, <2>8, <2>9, <2>10 DEF WakeInv
<1>10. phase = "ramp" => t = Root /\ stack' = <<>>
  <2>1. ASSUME phase = "ramp" PROVE t = Root /\ stack' = <<>>
    <3>1. t = Root
      BY <1>1, <2>1 DEF MaySuspend, Plain
    <3>2. /\ stack[1] = Root /\ \A i, j \in 1..Len(stack) : stack[i] = stack[j] => i = j
      BY <1>1, <2>1 DEF LiveInv, StackInv
    <3>3. /\ Len(stack) \in Nat \ {0} /\ stack[Len(stack)] = t
          /\ Front(stack) \in Seq(Task) /\ Len(Front(stack)) = Len(stack) - 1
      BY <1>1, StackTop DEF AsyncTypeOK
    <3>4. 1 \in 1..Len(stack) /\ Len(stack) \in 1..Len(stack)
      BY <3>3
    <3>5. Len(stack) = 1
      BY <3>1, <3>2, <3>3, <3>4
    <3> QED BY <1>4, <3>1, <3>3, <3>5, EmptySeq
  <2> QED BY <2>1
<1>11. RampInv'
  BY <1>4, <1>10 DEF LiveInv, RampInv, AsyncTypeOK
<1> QED BY <1>4, <1>6, <1>7, <1>8, <1>9, <1>11 DEF LiveInv
\* A task ends: its parent, if it has one, is entered in the ready queue q.  Both the
\* end of a body and the event loop, for a cancelled task, do this.
LEMMA WakeParent ==
  ASSUME AsyncTypeOK, LiveInv, NEW t \in Task, ~done[t],
         NEW q \in Seq(Task), \A i, j \in 1..Len(q) : q[i] = q[j] => i = j,
         \A u \in Task : u # t => (InReady(u) <=> \E i \in 1..Len(q) : q[i] = u),
         \A i \in 1..Len(q) : q[i] # t,
         ~InTimers(t), \A c \in Task : parent[c] = t => done[c],
         done' = [done EXCEPT ![t] = TRUE],
         ready' = IF parent[t] = NoTask THEN q ELSE Append(q, parent[t]),
         \A u \in Task : u # t => status'[u] = status[u],
         UNCHANGED <<parent, owner, awaiting, wakeAt, timers, now>>
  PROVE  WakeInv'
<1> DEFINE p == parent[t]
<1>1. p # NoTask =>
        /\ p \in Task /\ p # t /\ awaiting[p] = t /\ status[p] = "suspended" /\ ~done[p]
        /\ InAwait(p) /\ ~InReady(p) /\ ~InTimers(p) /\ wakeAt[p] = 0
  <2>1. ASSUME p # NoTask PROVE p \in Task /\ awaiting[p] = t /\ status[p] = "suspended" /\ ~done[p] /\ p # t
    BY <2>1 DEF LiveInv, AwaitInv, AsyncTypeOK
  <2>2. ASSUME p # NoTask PROVE InAwait(p) /\ wakeAt[p] = 0
    BY <2>1, <2>2, TaskAssumption, AwaitedTasks DEF InAwait
  <2>3. ASSUME p # NoTask PROVE ~InReady(p) /\ ~InTimers(p)
    BY <2>1, <2>2, <2>3, TaskAssumption DEF LiveInv, WakeInv, InTimers
  <2> QED BY <2>1, <2>2, <2>3
<1>2. \A u \in Task : awaiting[u] = t => u = p
  BY AwaitedTasks
<1>3. /\ \A i \in 1..Len(ready') : 
           \/ i \in 1..Len(q) /\ ready'[i] = q[i]
           \/ p # NoTask /\ i = Len(q) + 1 /\ ready'[i] = p
      /\ \A i \in 1..Len(q) : i \in 1..Len(ready') /\ ready'[i] = q[i]
      /\ p # NoTask => Len(q) + 1 \in 1..Len(ready') /\ ready'[Len(q) + 1] = p
  <2>1. CASE p = NoTask
    BY <2>1
  <2>2. CASE p # NoTask
    <3>1. /\ ready' = Append(q, p) /\ Len(q) \in Nat /\ Len(ready') = Len(q) + 1
          /\ ready'[Len(q) + 1] = p /\ \A i \in 1..Len(q) : ready'[i] = q[i]
      BY <1>1, <2>2, AppendProperties
    <3> QED BY <2>2, <3>1
  <2> QED BY <2>1, <2>2
<1>4. \A u \in Task : InReady(u)' <=> u # t /\ (InReady(u) \/ (p # NoTask /\ u = p))
  BY <1>1, <1>3 DEF InReady
<1>5. \A u \in Task : u # t => (done'[u] <=> done[u])
  BY DEF AsyncTypeOK
<1>6. done'[t]
  BY DEF AsyncTypeOK
<1> HIDE DEF p
<1>7. \A u \in Task : (InTimers(u)' <=> InTimers(u)) /\ (InAwait(u)' <=> InAwait(u) /\ (p # NoTask => u # p))
  <2>1. \A u \in Task : InTimers(u)' <=> InTimers(u)
    BY DEF InTimers
  <2>2. ASSUME NEW u \in Task, awaiting[u] # NoTask PROVE done'[awaiting[u]] <=> done[awaiting[u]] \/ awaiting[u] = t
    BY SMTT(60), <1>5, <1>6, <2>2 DEF AsyncTypeOK
  <2>3. \A u \in Task : awaiting[u] = t <=> p # NoTask /\ u = p
    BY <1>1, <1>2, TaskAssumption
  <2> QED BY <2>1, <2>2, <2>3 DEF InAwait
<1>8. \A i, j \in 1..Len(ready') : ready'[i] = ready'[j] => i = j
  <2>1. p # NoTask => \A i \in 1..Len(q) : q[i] # p
    BY <1>1
  <2> QED BY <1>3, <2>1
<1>9. \A e \in timers' : /\ status'[e.task] = "suspended" /\ ~done'[e.task]
                         /\ awaiting'[e.task] = NoTask /\ wakeAt'[e.task] = e.at
  <2>1. \A e \in timers : e.task \in Task /\ e.task # t
    BY DEF AsyncTypeOK, TimerEntries, InTimers
  <2> QED BY <1>5, <2>1 DEF LiveInv, WakeInv
<1>10. \A u \in Task : InReady(u)' =>
          /\ status'[u] = "suspended" /\ ~done'[u] /\ wakeAt'[u] <= now'
          /\ ~InTimers(u)' /\ ~InAwait(u)'
  <2>1. ASSUME NEW u \in Task, InReady(u)', InReady(u) PROVE
          /\ status'[u] = "suspended" /\ ~done'[u] /\ wakeAt'[u] <= now'
          /\ ~InTimers(u)' /\ ~InAwait(u)'
    BY <1>4, <1>5, <1>7, <2>1 DEF LiveInv, WakeInv
  <2>2. ASSUME NEW u \in Task, p # NoTask, u = p PROVE
          /\ status'[u] = "suspended" /\ ~done'[u] /\ wakeAt'[u] <= now'
          /\ ~InTimers(u)' /\ ~InAwait(u)'
    BY <1>1, <1>5, <1>7, <2>2 DEF AsyncTypeOK
  <2> QED BY <1>4, <2>1, <2>2
<1>11. \A u \in Task : status'[u] = "suspended" /\ ~done'[u] =>
         InReady(u)' \/ InTimers(u)' \/ InAwait(u)'
  BY <1>4, <1>5, <1>6, <1>7 DEF LiveInv, WakeInv
<1>12. \A e, f \in timers' : e.task = f.task => e = f
  BY DEF LiveInv, WakeInv
<1> QED BY <1>8, <1>9, <1>10, <1>11, <1>12 DEF WakeInv

\* The end of a body wakes its parent, which nothing else has woken.
LEMMA FinishLive ==
  ASSUME AsyncTypeOK, LiveInv, NEW t \in Task, Finish(t)
  PROVE  fault' = fault /\ LiveInv'
<1>1. /\ Running(t) /\ stack # <<>>
      /\ status[t] = "running" /\ awaiting[t] = NoTask /\ ~done[t] /\ wakeAt[t] = 0
      /\ ~InReady(t) /\ ~InTimers(t)
      /\ \A c \in Task : parent[c] = t => done[c]
  BY RunningFacts DEF Finish
<1>2. phase = "ramp" => parent[t] = NoTask
  BY DEF LiveInv, RampInv
<1>3. /\ done' = [done EXCEPT ![t] = TRUE] /\ status' = [status EXCEPT ![t] = "final"]
      /\ ready' = IF parent[t] = NoTask THEN ready ELSE Append(ready, parent[t])
      /\ stack' = Front(stack) /\ phase' = phase /\ now' = now /\ fault' = fault
      /\ UNCHANGED <<cancelled, parent, children, owner, awaiting, wakeAt, timers>>
  BY <1>2 DEF Finish
<1>4. \A u \in Task : status'[u] = "running" <=> status[u] = "running" /\ u # t
  BY <1>1, <1>3 DEF AsyncTypeOK
<1>5. StackInv'
  BY <1>1, <1>3, <1>4, StackPopped DEF LiveInv
<1>6. FrameInv'
  BY <1>1, <1>3 DEF LiveInv, FrameInv, AsyncTypeOK
<1>7. AwaitInv'
  BY <1>1, <1>3 DEF LiveInv, AwaitInv, AsyncTypeOK
<1>8. WakeInv'
  <2>1. \A u \in Task : u # t => status'[u] = status[u]
    BY <1>3 DEF AsyncTypeOK
  <2>2. /\ ready \in Seq(Task) /\ \A i, j \in 1..Len(ready) : ready[i] = ready[j] => i = j
        /\ \A i \in 1..Len(ready) : ready[i] # t
    BY <1>1 DEF LiveInv, WakeInv, AsyncTypeOK, InReady
  <2>3. \A u \in Task : u # t => (InReady(u) <=> \E i \in 1..Len(ready) : ready[i] = u)
    BY DEF InReady
  <2> QED BY <1>1, <1>3, <2>1, <2>2, <2>3, WakeParent, ZenonT(60)
<1>9. RampInv'
  <2>1. \A u \in Task : status'[u] = "suspended" => status[u] = "suspended"
    BY <1>3 DEF AsyncTypeOK
  <2> QED BY <1>1, <1>2, <1>3, <2>1 DEF LiveInv, RampInv
<1> QED BY <1>3, <1>5, <1>6, <1>7, <1>8, <1>9 DEF LiveInv

-----------------------------------------------------------------------------
(* Steps of the event loop, in a plain program.                              *)

\* The task at the head of the ready queue, and the queue without it.
LEMMA ReadyHead ==
  ASSUME AsyncTypeOK, LiveInv, ready # <<>>
  PROVE  /\ Head(ready) \in Task /\ InReady(Head(ready)) /\ Tail(ready) \in Seq(Task)
         /\ \A i, j \in 1..Len(Tail(ready)) : Tail(ready)[i] = Tail(ready)[j] => i = j
         /\ \A i \in 1..Len(Tail(ready)) : Tail(ready)[i] # Head(ready)
         /\ \A u \in Task : u # Head(ready) =>
              (InReady(u) <=> \E i \in 1..Len(Tail(ready)) : Tail(ready)[i] = u)
<1> DEFINE q == Tail(ready)
           n == Len(ready)
<1>1. /\ n \in Nat \ {0} /\ Head(ready) = ready[1] /\ q \in Seq(Task) /\ Len(q) = n - 1
      /\ \A i \in 1..(n - 1) : q[i] = ready[i + 1]
  BY HeadTailProperties, EmptySeq DEF AsyncTypeOK
<1>2. /\ ready[1] \in Task
      /\ \A i, j \in 1..n : ready[i] = ready[j] => i = j
  BY <1>1, ElementOfSeq DEF LiveInv, WakeInv, AsyncTypeOK
<1>3. InReady(Head(ready))
  BY <1>1 DEF InReady
<1> HIDE DEF q, n
<1>4. \A i \in 1..(n - 1) : i + 1 \in 1..n /\ i + 1 # 1
  BY <1>1
<1>5. \A i, j \in 1..(n - 1) : q[i] = q[j] => i = j
  BY <1>1, <1>2, <1>4
<1>6. 1 \in 1..n
  BY <1>1
<1>7. \A i \in 1..(n - 1) : q[i] # Head(ready)
  BY <1>1, <1>2, <1>4, <1>6
<1>8. \A u \in Task : u # Head(ready) => (InReady(u) <=> \E i \in 1..(n - 1) : q[i] = u)
  <2>1. \A j \in 1..n : j # 1 => j - 1 \in 1..(n - 1) /\ q[j - 1] = ready[j]
    BY <1>1
  <2>2. \A u : InReady(u) <=> \E j \in 1..n : ready[j] = u
    BY DEF InReady, n
  <2> QED BY <1>1, <1>4, <2>1, <2>2, ZenonT(60)
<1> QED BY <1>1, <1>2, <1>3, <1>5, <1>7, <1>8 DEF q

\* A coroutine that is resumed runs, and has taken the result it waited for.
LEMMA ResumeRuns ==
  ASSUME AsyncTypeOK, LiveInv, NEW t \in Task, Resume(t), status[t] = "suspended"
  PROVE  /\ status' = [u \in Task |-> IF u = t THEN "running"
                                      ELSE IF u = awaiting[t] THEN "destroyed" ELSE status[u]]
         /\ awaiting' = [awaiting EXCEPT ![t] = NoTask]
         /\ wakeAt' = [wakeAt EXCEPT ![t] = 0]
         /\ stack' = Append(stack, t) /\ owner' = owner /\ fault' = fault
<1>1. ~(awaiting[t] # NoTask /\ status[awaiting[t]] = "destroyed")
  BY DEF LiveInv, AwaitInv
<1> QED BY <1>1 DEF Resume

\* A due coroutine is resumed from the event loop.
LEMMA ResumeLive ==
  ASSUME AsyncTypeOK, LiveInv, NEW t \in Task, stack = <<>>, Resume(t),
         status[t] = "suspended", ~done[t], ~InAwait(t), phase' # "ramp",
         UNCHANGED <<done, cancelled, parent, children>>
  PROVE  fault' = fault /\ StackInv' /\ FrameInv' /\ AwaitInv'
<1>1. /\ status' = [u \in Task |-> IF u = t THEN "running"
                                   ELSE IF u = awaiting[t] THEN "destroyed" ELSE status[u]]
      /\ awaiting' = [awaiting EXCEPT ![t] = NoTask]
      /\ wakeAt' = [wakeAt EXCEPT ![t] = 0]
      /\ stack' = Append(stack, t) /\ owner' = owner /\ fault' = fault
  BY ResumeRuns
<1>2. awaiting[t] # NoTask =>
        /\ awaiting[t] \in Task /\ done[awaiting[t]] /\ awaiting[t] # Root
        /\ status[awaiting[t]] # "none"
  <2>1. ASSUME awaiting[t] # NoTask
        PROVE  awaiting[t] \in Task /\ done[awaiting[t]] /\ owner[awaiting[t]] = t
    BY <2>1, AwaitedTasks DEF InAwait, AsyncTypeOK
  <2>2. t # NoTask
    BY TaskAssumption
  <2> QED BY <2>1, <2>2 DEF LiveInv, FrameInv
<1>3. \A u \in Task : status[u] # "running"
  <2>1. Len(stack) = 0
    BY EmptySeq
  <2> QED BY <2>1 DEF LiveInv, StackInv
<1>4. \A u \in Task : status'[u] = "running" <=> u = t
  BY <1>1, <1>3
<1>5. owner[t] # t
  BY TaskAssumption DEF LiveInv, FrameInv
<1>6. StackInv'
  BY <1>1, <1>3, <1>4, <1>5, StackPushed DEF LiveInv
<1>7. FrameInv'
  <2>1. \A u \in Task : status'[u] = "none" <=> status[u] = "none"
    BY <1>1, <1>2, TaskAssumption
  <2>2. \A u \in Task : /\ awaiting[u] = NoTask => awaiting'[u] = NoTask
                       /\ wakeAt[u] = 0 => wakeAt'[u] = 0
    BY <1>1 DEF AsyncTypeOK
  <2>3. \A u \in Task : status'[u] = "destroyed" => done[u] /\ u # Root
    BY <1>1, <1>2, TaskAssumption DEF LiveInv, FrameInv
  <2>4. \A u \in Task : status'[u] = "final" => done[u]
    BY <1>1 DEF LiveInv, FrameInv
  <2>5. \A u \in Task : status'[u] = "running" => ~done[u] /\ awaiting'[u] = NoTask /\ wakeAt'[u] = 0
    BY <1>1, <1>4 DEF AsyncTypeOK
  <2>6. \A u \in Task : owner[u] # NoTask => owner[u] # u /\ status'[owner[u]] # "none"
    BY <2>1 DEF LiveInv, FrameInv, AsyncTypeOK
  <2>7. status'[Root] # "none"
    BY <2>1, TaskAssumption DEF LiveInv, FrameInv
  <2> QED BY <1>1, <2>1, <2>2, <2>3, <2>4, <2>5, <2>6, <2>7 DEF LiveInv, FrameInv
<1>8. AwaitInv'
  <2>1. ASSUME NEW u \in Task, awaiting'[u] # NoTask
        PROVE  /\ parent[awaiting'[u]] = u /\ wakeAt'[u] = 0
               /\ status'[u] = "suspended" => status'[awaiting'[u]] # "destroyed"
    <3>1. u # t /\ awaiting'[u] = awaiting[u] /\ awaiting[u] \in Task
      BY <1>1, <2>1 DEF AsyncTypeOK
    <3>2. parent[awaiting[u]] = u /\ wakeAt[u] = 0 /\ awaiting[u] # awaiting[t]
      BY <3>1, AwaitedTasks
    <3>3. status[u] = "suspended" => status[awaiting[u]] # "destroyed"
      BY <2>1, <3>1 DEF LiveInv, AwaitInv
    <3> QED BY <1>1, <3>1, <3>2, <3>3 DEF AsyncTypeOK
  <2>2. ASSUME NEW c \in Task, parent[c] # NoTask
        PROVE  /\ parent[c] = owner[c]
               /\ ~done[c] => awaiting'[parent[c]] = c /\ status'[parent[c]] = "suspended" /\ ~done[parent[c]]
    <3>1. /\ parent[c] = owner[c] /\ parent[c] \in Task
          /\ ~done[c] => awaiting[parent[c]] = c /\ status[parent[c]] = "suspended" /\ ~done[parent[c]]
      BY <2>2 DEF LiveInv, AwaitInv, AsyncTypeOK
    <3>2. ~done[c] => parent[c] # t /\ parent[c] # awaiting[t]
      BY <1>2, <2>2, <3>1, TaskAssumption DEF InAwait
    <3> QED BY <1>1, <3>1, <3>2 DEF AsyncTypeOK
  <2> QED BY SMTT(60), <1>1, <2>1, <2>2 DEF AwaitInv
<1> QED BY <1>1, <1>6, <1>7, <1>8
LEMMA StartLive ==
  ASSUME AsyncTypeOK, LiveInv, Start
  PROVE  fault' = fault /\ LiveInv'
<1>1. /\ stack = <<>> /\ phase = "ramp" /\ phase' = "loop" /\ ready' = <<>> /\ timers' = {}
      /\ UNCHANGED <<done, cancelled, parent, children, now>>
  BY DEF Start, InLoop, task
<1>2. /\ \A t \in Task : parent[t] = NoTask /\ awaiting[t] = NoTask
      /\ \A t \in Task : status[t] = "suspended" => t = Root
  BY <1>1 DEF LiveInv, RampInv
<1>3. RampInv'
  BY <1>1 DEF RampInv
<1>4. Root \in Task /\ Len(<<>>) = 0
  BY TaskAssumption
<1>5. CASE done[Root]
  <2>1. UNCHANGED <<status, owner, awaiting, wakeAt, stack>> /\ fault' = fault
    BY <1>5 DEF Start, coro
  <2>2. StackInv' /\ FrameInv' /\ AwaitInv'
    BY <1>1, <2>1 DEF LiveInv, StackInv, FrameInv, AwaitInv
  <2>3. WakeInv'
    BY <1>1, <1>2, <1>4, <1>5, <2>1 DEF WakeInv, InReady
  <2> QED BY <1>3, <2>1, <2>2, <2>3 DEF LiveInv
<1>6. CASE ~done[Root]
  <2>1. Resume(Root)
    BY <1>6 DEF Start
  <2>2. status[Root] = "suspended"
    <3>1. status[Root] # "running"
      BY <1>1, <1>4 DEF LiveInv, StackInv
    <3>2. status[Root] \notin {"none", "final", "destroyed"}
      BY <1>4, <1>6 DEF LiveInv, FrameInv
    <3> QED BY <1>4, <3>1, <3>2 DEF AsyncTypeOK, Statuses
  <2>3. ~InAwait(Root)
    BY <1>2, <1>4 DEF InAwait
  <2>4. fault' = fault /\ StackInv' /\ FrameInv' /\ AwaitInv'
    BY <1>1, <1>4, <1>6, <2>1, <2>2, <2>3, ResumeLive
  <2>5. \A t \in Task : status'[t] # "suspended"
    BY <1>2, <1>4, <2>1, <2>2, ResumeRuns
  <2>6. WakeInv'
    BY <1>1, <1>4, <2>5 DEF WakeInv, InReady
  <2> QED BY <1>3, <2>4, <2>6 DEF LiveInv
<1> QED BY <1>5, <1>6

\* The task that PopTask finds is suspended, due and not done: it is resumed.
LEMMA PopTaskResumes ==
  ASSUME AsyncTypeOK, LiveInv, PopTask
  PROVE  /\ Head(ready) \in Task /\ InReady(Head(ready)) /\ Resume(Head(ready))
         /\ ~cancelled[Head(ready)] /\ status[Head(ready)] = "suspended"
         /\ ~done[Head(ready)] /\ ~InAwait(Head(ready)) /\ ~InTimers(Head(ready))
         /\ wakeAt[Head(ready)] <= now
<1>1. Head(ready) \in Task /\ InReady(Head(ready))
  BY ReadyHead DEF PopTask
<1>2. /\ status[Head(ready)] = "suspended" /\ ~done[Head(ready)] /\ wakeAt[Head(ready)] <= now
      /\ ~InAwait(Head(ready)) /\ ~InTimers(Head(ready))
  BY <1>1 DEF LiveInv, WakeInv
<1> QED BY <1>1, <1>2 DEF PopTask

\* The resumed task leaves the queue, its only source of a wake.
LEMMA PopTaskLive ==
  ASSUME AsyncTypeOK, LiveInv, PopTask
  PROVE  fault' = fault /\ LiveInv'
<1> DEFINE t == Head(ready)
           q == Tail(ready)
<1>1. /\ t \in Task /\ InReady(t) /\ Resume(t) /\ status[t] = "suspended"
      /\ ~done[t] /\ ~InAwait(t) /\ ~InTimers(t)
  BY PopTaskResumes
<1>2. /\ stack = <<>> /\ ready # <<>> /\ phase' = "loop" /\ ready' = q
      /\ UNCHANGED <<done, cancelled, parent, children, now, timers>>
  BY DEF PopTask, InLoop, task
<1>3. /\ q \in Seq(Task) /\ \A i, j \in 1..Len(q) : q[i] = q[j] => i = j
      /\ \A i \in 1..Len(q) : q[i] # t
      /\ \A u \in Task : u # t => (InReady(u) <=> \E i \in 1..Len(q) : q[i] = u)
  BY <1>2, ReadyHead
<1>4. /\ status' = [u \in Task |-> IF u = t THEN "running"
                                   ELSE IF u = awaiting[t] THEN "destroyed" ELSE status[u]]
      /\ awaiting' = [awaiting EXCEPT ![t] = NoTask]
      /\ wakeAt' = [wakeAt EXCEPT ![t] = 0]
  BY <1>1, ResumeRuns
<1> HIDE DEF t, q
<1>5. fault' = fault /\ StackInv' /\ FrameInv' /\ AwaitInv'
  BY <1>1, <1>2, ResumeLive
<1>6. RampInv'
  BY <1>2 DEF RampInv
<1>7. \A u \in Task : InReady(u)' <=> (u # t /\ InReady(u))
  BY <1>2, <1>3 DEF InReady
<1>8. \A u \in Task : /\ InTimers(u)' <=> InTimers(u)
                      /\ u # t => (InAwait(u)' <=> InAwait(u))
  BY <1>2, <1>4 DEF InTimers, InAwait, AsyncTypeOK
<1>9. \A u \in Task : u = awaiting[t] => done[u]
  BY <1>1, TaskAssumption DEF InAwait
<1>10. \A u \in Task : u # t /\ ~done[u] =>
         status'[u] = status[u] /\ awaiting'[u] = awaiting[u] /\ wakeAt'[u] = wakeAt[u]
  BY <1>4, <1>9 DEF AsyncTypeOK
<1>11. status'[t] = "running"
  BY <1>1, <1>4
<1>12. \A e \in timers' : /\ status'[e.task] = "suspended" /\ ~done'[e.task]
                          /\ awaiting'[e.task] = NoTask /\ wakeAt'[e.task] = e.at
  <2>1. \A e \in timers : e.task \in Task /\ e.task # t /\ ~done[e.task]
    BY <1>1 DEF AsyncTypeOK, TimerEntries, InTimers, LiveInv, WakeInv
  <2> QED BY <1>2, <1>10, <2>1 DEF LiveInv, WakeInv
<1>13. \A u \in Task : InReady(u)' =>
          /\ status'[u] = "suspended" /\ ~done'[u] /\ wakeAt'[u] <= now'
          /\ ~InTimers(u)' /\ ~InAwait(u)'
  BY <1>2, <1>7, <1>8, <1>10 DEF LiveInv, WakeInv
<1>14. \A u \in Task : status'[u] = "suspended" /\ ~done'[u] =>
         InReady(u)' \/ InTimers(u)' \/ InAwait(u)'
  BY <1>2, <1>7, <1>8, <1>10, <1>11 DEF LiveInv, WakeInv
<1>15. \A e, f \in timers' : e.task = f.task => e = f
  BY <1>2 DEF LiveInv, WakeInv
<1>16. WakeInv'
  BY <1>2, <1>3, <1>12, <1>13, <1>14, <1>15 DEF WakeInv
<1> QED BY <1>5, <1>6, <1>16 DEF LiveInv

\* A cancelled task wakes its parent as a finished one does.
LEMMA PopCancelledLive ==
  ASSUME AsyncTypeOK, LiveInv, PopCancelled
  PROVE  LiveInv'
<1> DEFINE t == Head(ready)
           q == Tail(ready)
<1>1. /\ ready # <<>> /\ stack = <<>> /\ phase' = "loop" /\ cancelled[t]
      /\ done' = [done EXCEPT ![t] = TRUE]
      /\ ready' = IF parent[t] = NoTask THEN q ELSE Append(q, parent[t])
      /\ UNCHANGED <<cancelled, parent, children, status, owner, awaiting, wakeAt, stack, timers, now>>
  BY DEF PopCancelled, InLoop, coro
<1>2. /\ t \in Task /\ InReady(t) /\ q \in Seq(Task)
      /\ \A i, j \in 1..Len(q) : q[i] = q[j] => i = j
      /\ \A i \in 1..Len(q) : q[i] # t
      /\ \A u \in Task : u # t => (InReady(u) <=> \E i \in 1..Len(q) : q[i] = u)
  BY <1>1, ReadyHead
<1> HIDE DEF t, q
<1>3. status[t] = "suspended" /\ ~done[t] /\ ~InTimers(t) /\ ~InAwait(t)
  BY <1>2 DEF LiveInv, WakeInv
<1>4. \A c \in Task : parent[c] = t => done[c]
  BY <1>2, <1>3, TaskAssumption DEF LiveInv, AwaitInv, InAwait
<1>5. StackInv'
  BY <1>1, StackKept DEF LiveInv
<1>6. FrameInv'
  BY <1>1, <1>2, <1>3 DEF LiveInv, FrameInv, AsyncTypeOK
<1>7. AwaitInv'
  BY <1>1, <1>2, <1>4 DEF LiveInv, AwaitInv, AsyncTypeOK
<1>8. WakeInv'
  BY <1>1, <1>2, <1>3, <1>4, WakeParent
<1>9. RampInv'
  BY <1>1 DEF RampInv
<1> QED BY <1>5, <1>6, <1>7, <1>8, <1>9 DEF LiveInv

\* An expired timer becomes a place in the ready queue.
LEMMA ExpiryLive ==
  ASSUME AsyncTypeOK, LiveInv, ProcessExpired, phase' # "ramp",
         UNCHANGED <<task, coro, now>>
  PROVE  LiveInv'
<1>1. UNCHANGED <<done, cancelled, parent, children, status, owner, awaiting, wakeAt, stack, now>>
  BY DEF task, coro
<1>2. StackInv' /\ FrameInv' /\ AwaitInv' /\ RampInv'
  BY <1>1 DEF LiveInv, StackInv, FrameInv, AwaitInv, RampInv
<1>3. \A e, f \in timers : e.task = f.task => e = f
  BY DEF LiveInv, WakeInv
<1> DEFINE n == Len(ready)
           m == Len(ready')
<1>4. /\ timers' \subseteq timers /\ n \in Nat /\ m \in Nat /\ m >= n
      /\ \A i \in 1..n : ready'[i] = ready[i]
      /\ \A i \in (n + 1)..m : \E e \in timers \ timers' : ready'[i] = e.task /\ e.at <= now
      /\ \A e \in timers \ timers' : \E i \in (n + 1)..m : ready'[i] = e.task
      /\ \A i, j \in (n + 1)..m : ready'[i] = ready'[j] => i = j
  BY <1>3, ExpiryMovesTasks, LenProperties DEF AsyncTypeOK
<1>5. \A u : /\ InReady(u) <=> \E i \in 1..n : ready[i] = u
             /\ InReady(u)' <=> \E i \in 1..m : ready'[i] = u
  BY DEF InReady
<1>6. \A i, j \in 1..n : ready[i] = ready[j] => i = j
  BY DEF LiveInv, WakeInv
<1> HIDE DEF n, m
<1>7. /\ \A i \in 1..m : i \in 1..n \/ i \in (n + 1)..m
      /\ \A i \in 1..n : i \in 1..m
      /\ \A i \in (n + 1)..m : i \in 1..m
  BY <1>4
<1>8. \A e \in timers : /\ e.task \in Task /\ InTimers(e.task) /\ ~InReady(e.task)
                        /\ status[e.task] = "suspended" /\ ~done[e.task]
                        /\ awaiting[e.task] = NoTask /\ wakeAt[e.task] = e.at
  <2>1. \A e \in timers : e.task \in Task /\ InTimers(e.task)
    BY DEF AsyncTypeOK, TimerEntries, InTimers
  <2> QED BY <2>1 DEF LiveInv, WakeInv
<1>9. \A u \in Task : /\ InReady(u)' <=> (InReady(u) \/ \E e \in timers \ timers' : e.task = u)
                      /\ InTimers(u)' <=> \E e \in timers' : e.task = u
                      /\ InAwait(u)' <=> InAwait(u)
  BY <1>1, <1>4, <1>5, <1>7 DEF InTimers, InAwait
<1>10. \A i, j \in 1..m : ready'[i] = ready'[j] => i = j
  <2>1. \A i \in 1..n, j \in (n + 1)..m : ready'[i] # ready'[j]
    BY <1>4, <1>5, <1>8
  <2> QED BY <1>4, <1>6, <1>7, <2>1
<1>11. \A u \in Task : InReady(u)' =>
          /\ status'[u] = "suspended" /\ ~done'[u] /\ wakeAt'[u] <= now'
          /\ ~InTimers(u)' /\ ~InAwait(u)'
  <2>1. ASSUME NEW u \in Task, InReady(u)
        PROVE  /\ status'[u] = "suspended" /\ ~done'[u] /\ wakeAt'[u] <= now'
               /\ ~InTimers(u)' /\ ~InAwait(u)'
    <3>1. ~InTimers(u)'
      BY <1>4, <1>8, <1>9, <2>1
    <3> QED BY <1>1, <1>9, <2>1, <3>1 DEF LiveInv, WakeInv
  <2>2. ASSUME NEW u \in Task, NEW e \in timers \ timers', e.task = u, e.at <= now
        PROVE  /\ status'[u] = "suspended" /\ ~done'[u] /\ wakeAt'[u] <= now'
               /\ ~InTimers(u)' /\ ~InAwait(u)'
    <3>1. ~InTimers(u)'
      BY <1>3, <1>4, <1>9, <2>2
    <3>2. ~InAwait(u)
      BY <1>8, <2>2 DEF InAwait
    <3> QED BY <1>1, <1>8, <1>9, <2>2, <3>1, <3>2
  <2>3. \A e \in timers \ timers' : e.at <= now
    BY DEF ProcessExpired, Expired
  <2> QED BY <1>9, <2>1, <2>2, <2>3
<1>12. \A e \in timers' : /\ status'[e.task] = "suspended" /\ ~done'[e.task]
                          /\ awaiting'[e.task] = NoTask /\ wakeAt'[e.task] = e.at
  BY <1>1, <1>4, <1>8
<1>13. \A u \in Task : status'[u] = "suspended" /\ ~done'[u] =>
         InReady(u)' \/ InTimers(u)' \/ InAwait(u)'
  BY <1>1, <1>9 DEF LiveInv, WakeInv, InTimers
<1>14. \A e, f \in timers' : e.task = f.task => e = f
  BY <1>3, <1>4
<1>15. WakeInv'
  BY <1>10, <1>11, <1>12, <1>13, <1>14 DEF WakeInv, m
<1> QED BY <1>2, <1>15 DEF LiveInv

\* A due task stays due.
LEMMA TickLive ==
  ASSUME AsyncTypeOK, LiveInv, Tick
  PROVE  LiveInv'
<1>1. /\ UNCHANGED <<done, cancelled, parent, children, status, owner, awaiting, wakeAt, stack, ready,
                     timers, phase>>
      /\ now' = now + 1 /\ now \in Nat
  BY DEF Tick, task, coro, queues, AsyncTypeOK
<1>2. StackInv' /\ FrameInv' /\ AwaitInv' /\ RampInv'
  BY <1>1 DEF LiveInv, StackInv, FrameInv, AwaitInv, RampInv
<1>3. WakeInv'
  <2>1. \A u \in Task : wakeAt[u] <= now => wakeAt'[u] <= now'
    BY <1>1 DEF AsyncTypeOK
  <2> QED BY <1>1, <2>1 DEF LiveInv, WakeInv, InReady, InTimers, InAwait
<1> QED BY <1>2, <1>3 DEF LiveInv
-----------------------------------------------------------------------------
(* The invariants of the composed system.                                    *)

\* The blocking calls keep the types of AsyncScheduler.
LEMMA BlockingType ==
  ASSUME AsyncTypeOK, BlockingStep
  PROVE  AsyncTypeOK'
<1>1. PICK t \in Task :
        \/ \E c \in Task : GroupSpawn(t, c) \/ ResumeGiven(t, c)
        \/ GroupSpawned(t) \/ GroupAwaitAll(t) \/ AwaitAllReturns(t)
        \/ GroupCancelAll(t) \/ GroupFree(t)
        \/ \E S \in SUBSET Task : SelectCall(t, S)
        \/ SelectReturns(t)
        \/ \E c \in Task, d \in Delays : TimeoutCall(t, c, d)
        \/ SetDeadline(t) \/ TimeoutCompleted(t) \/ TimeoutExpired(t)
  BY DEF BlockingStep
<1>2. phase \in {"ramp", "loop"}
  <2>1. Running(t)
    BY <1>1 DEF GroupSpawn, ResumeGiven, GroupSpawned, GroupAwaitAll, AwaitAllReturns, GroupCancelAll,
                GroupFree, SelectCall, SelectReturns, TimeoutCall, SetDeadline, TimeoutCompleted,
                TimeoutExpired, Free, Inside
  <2> QED BY <2>1 DEF Running, AsyncTypeOK
<1> USE DEF task, coro, queues
<1>3. CASE UNCHANGED vars
  BY <1>3 DEF vars, AsyncTypeOK
<1>4. ASSUME NEW c \in Task, GroupSpawn(t, c) PROVE AsyncTypeOK'
  BY <1>2, <1>4 DEF GroupSpawn, AsyncTypeOK
<1>5. ASSUME NEW c \in Task, ResumeGiven(t, c) PROVE AsyncTypeOK'
  <2>1. CASE UNCHANGED coro
    BY <1>2, <1>5, <2>1 DEF ResumeGiven, AsyncTypeOK
  <2>2. CASE Resume(c)
    BY <1>2, <1>5, <2>2, ResumeType DEF ResumeGiven, AsyncTypeOK
  <2> QED BY <1>5, <2>1, <2>2 DEF ResumeGiven
<1>6. CASE GroupCancelAll(t)
  <2>1. cancelled' \in [Task -> BOOLEAN]
    BY <1>6, CancelType DEF GroupCancelAll
  <2> QED BY <1>2, <1>6, <2>1 DEF GroupCancelAll, AsyncTypeOK
<1>7. CASE GroupFree(t)
  BY <1>2, <1>7 DEF GroupFree, AsyncTypeOK, Statuses
<1>8. CASE TimeoutExpired(t)
  <2>1. cancelled' \in [Task -> BOOLEAN]
    BY <1>8, CancelType DEF TimeoutExpired
  <2> QED BY <1>2, <1>8, <2>1 DEF TimeoutExpired, AsyncTypeOK
<1> QED BY <1>1, <1>3, <1>4, <1>5, <1>6, <1>7, <1>8
        DEF GroupSpawned, GroupAwaitAll, AwaitAllReturns, SelectCall, SelectReturns, TimeoutCall,
            SetDeadline, TimeoutCompleted

\* Every step of the composed system keeps the types.
LEMMA TypeStep ==
  ASSUME AsyncTypeOK, [BNext]_bvars
  PROVE  AsyncTypeOK'
<1>1. CASE UNCHANGED vars
  BY <1>1 DEF vars, task, coro, queues, AsyncTypeOK
<1>2. CASE BodyStep \/ LoopStep \/ Tick \/ BlockingStep
  BY <1>2, BodyType, LoopType, TickType, BlockingType
<1> QED BY <1>1, <1>2 DEF BNext, bvars, FreeBodyStep, Poll, Ended

\* The types hold at first.
LEMMA TypeInit == BInit => AsyncTypeOK
<1>1. IsFiniteSet({}) /\ <<>> \in Seq(Task) /\ <<Root>> \in Seq(Task)
  BY FS_EmptySet, TaskAssumption
<1> QED BY <1>1, TaskAssumption DEF BInit, Init, AsyncTypeOK, Statuses

\* The fields of the tasks, the queues and the thread keep their types in every program.
THEOREM AsyncTypes == BSpec => []AsyncTypeOK
<1>1. AsyncTypeOK /\ [BNext]_bvars => AsyncTypeOK'
  BY TypeStep
<1> QED BY TypeInit, <1>1, PTL DEF BSpec

\* In a plain program a step is one of a body or of the event loop, or the clock.
LEMMA PlainSteps ==
  ASSUME AsyncTypeOK, Plain, fault = "none", BNext
  PROVE  BodyStep \/ LoopStep \/ Tick \/ UNCHANGED vars
BY DEF BNext, BlockingStep, FreeBodyStep, Poll, Ended, bvars, Plain

\* The loop returns once.
LEMMA ReturnedStays ==
  ASSUME AsyncTypeOK, phase = "returned"
  PROVE  ~BodyStep /\ ~LoopStep /\ ~Tick
<1>1. stack = <<>>
  BY DEF AsyncTypeOK
<1>2. ~BodyStep
  BY <1>1 DEF BodyStep, CallAsync, AwaitDone, Await, Cancel, Sleep, Finish, Running
<1>3. ~LoopStep
  BY DEF LoopStep, Start, RootDone, ScanTimers, PopCancelled, PopTask, Idle, GiveUp
<1> QED BY <1>2, <1>3 DEF Tick

\* Every step of a plain program keeps its invariant.
LEMMA PlainStep ==
  ASSUME AsyncTypeOK, PlainInv, [BNext]_bvars
  PROVE  PlainInv'
<1>1. CASE UNCHANGED vars
  BY <1>1 DEF vars, task, coro, queues, PlainInv, Plain, Features, LiveInv, StackInv, FrameInv, AwaitInv,
              WakeInv, RampInv, InReady, InTimers, InAwait
<1>2. ASSUME Plain, BNext, ~UNCHANGED vars PROVE PlainInv'
  <2>1. fault = "none" /\ (BodyStep \/ LoopStep \/ Tick)
    BY <1>2, PlainSteps DEF PlainInv
  <2>2. LiveInv
    BY <1>2, <2>1, ReturnedStays DEF PlainInv
  <2>3. CASE BodyStep
    <3>1. PICK t \in Task :
            \/ \E c \in Task : CallAsync(t, c) \/ AwaitDone(t, c) \/ Await(t, c) \/ Cancel(t, c)
            \/ \E d \in Delays : Sleep(t, d)
            \/ Finish(t)
      BY <2>3 DEF BodyStep
    <3>2. fault' = fault /\ LiveInv'
      <4>1. ASSUME NEW c \in Task, CallAsync(t, c) \/ AwaitDone(t, c) \/ Await(t, c)
            PROVE  fault' = fault /\ LiveInv'
        BY <1>2, <2>2, <4>1, CallAsyncLive, AwaitDoneLive, AwaitLive DEF CallAsync, AwaitDone, Await
      <4>2. ASSUME NEW c \in Task, Cancel(t, c) PROVE fault' = fault /\ LiveInv'
        BY <1>2, <2>2, <4>2, CancelLive
      <4>3. ASSUME NEW d \in Delays, Sleep(t, d) PROVE fault' = fault /\ LiveInv'
        BY <1>2, <2>2, <4>3, SleepLive
      <4>4. ASSUME Finish(t) PROVE fault' = fault /\ LiveInv'
        BY <2>2, <4>4, FinishLive
      <4> QED BY <3>1, <4>1, <4>2, <4>3, <4>4
    <3> QED BY <2>1, <3>2 DEF PlainInv
  <2>4. CASE LoopStep
    <3>1. CASE RootDone \/ GiveUp
      BY <2>1, <3>1 DEF RootDone, GiveUp, Return, PlainInv
    <3>2. CASE Start \/ PopTask
      BY <2>1, <2>2, <3>2, StartLive, PopTaskLive DEF PlainInv
    <3>3. CASE PopCancelled
      BY <2>1, <2>2, <3>3, PopCancelledLive DEF PlainInv, PopCancelled
    <3>4. CASE ScanTimers \/ Idle
      BY <2>1, <2>2, <3>4, ExpiryLive DEF PlainInv, ScanTimers, Idle
    <3> QED BY <2>4, <3>1, <3>2, <3>3, <3>4 DEF LoopStep
  <2>5. CASE Tick
    BY <2>1, <2>2, <2>5, TickLive DEF PlainInv, Tick
  <2> QED BY <2>1, <2>3, <2>4, <2>5
<1>3. ASSUME ~Plain, BNext PROVE PlainInv'
  <2>1. program' = program
    BY ZenonT(90), <1>3
        DEF BNext, FreeBodyStep, BlockingStep, Poll, Ended, BodyStep, LoopStep, Tick, bvars,
            vars, CallAsync, AwaitDone, Await, Cancel, Sleep, Finish, Start, RootDone,
            ScanTimers, PopCancelled, PopTask, Idle, GiveUp, GroupSpawn, ResumeGiven,
            GroupSpawned, GroupAwaitAll, AwaitAllReturns, GroupCancelAll, GroupFree, SelectCall,
            SelectReturns, TimeoutCall, SetDeadline, TimeoutCompleted, TimeoutExpired
  <2> QED BY SMTT(60), <1>3, <2>1 DEF PlainInv, Plain, Features
<1> QED BY <1>1, <1>2, <1>3 DEF bvars

\* The invariant holds at first: async main runs alone.
LEMMA PlainInit == BInit => PlainInv
<1> SUFFICES ASSUME BInit PROVE LiveInv
  BY DEF BInit, Init, PlainInv
<1>1. Len(<<>>) = 0 /\ Len(<<Root>>) = 1 /\ <<Root>>[1] = Root /\ Root \in Task /\ NoTask \notin Task
  BY TaskAssumption
<1>2. StackInv /\ FrameInv
  BY <1>1 DEF BInit, Init, StackInv, FrameInv
<1>3. AwaitInv /\ WakeInv /\ RampInv
  BY <1>1 DEF BInit, Init, AwaitInv, WakeInv, RampInv, InReady
<1> QED BY <1>2, <1>3 DEF LiveInv

\* In a plain program nothing undefined happens, the stack holds the running
\* coroutines, an awaited task is there until its parent has taken the result, and a
\* suspended coroutine is in the ready queue, in the timer heap or awaits a child.
THEOREM PlainInvariant == BSpec => []PlainInv
<1>1. AsyncTypeOK /\ PlainInv /\ [BNext]_bvars => PlainInv'
  BY PlainStep
<1> QED BY PlainInit, <1>1, AsyncTypes, PTL DEF BSpec

\* PlainNoFault for any number of tasks, delays and instants: no coroutine of a plain
\* program is resumed, and no task read, after it is destroyed.
THEOREM PlainNeverFaults == BSpec => []PlainNoFault
<1>1. PlainInv => PlainNoFault
  BY DEF PlainInv, PlainNoFault, NoFault
<1> QED BY <1>1, PlainInvariant, PTL
LEMMA SourceCounts ==
  ASSUME AsyncTypeOK, LiveInv, NEW t \in Task
  PROVE  /\ Occurrences(ready, t) = IF InReady(t) THEN 1 ELSE 0
         /\ TimerCount(t) = IF InTimers(t) THEN 1 ELSE 0
<1>1. DOMAIN ready = 1..Len(ready)
  BY LenProperties DEF AsyncTypeOK
<1>2. ASSUME InReady(t) PROVE Occurrences(ready, t) = 1
  <2>1. PICK i \in 1..Len(ready) : ready[i] = t
    BY <1>2 DEF InReady
  <2>2. {j \in DOMAIN ready : ready[j] = t} = {i}
    BY <1>1, <2>1 DEF LiveInv, WakeInv
  <2> QED BY <2>2, FS_Singleton DEF Occurrences
<1>3. ASSUME ~InReady(t) PROVE Occurrences(ready, t) = 0
  <2>1. {j \in DOMAIN ready : ready[j] = t} = {}
    BY <1>1, <1>3 DEF InReady
  <2> QED BY <2>1, FS_EmptySet DEF Occurrences
<1>4. ASSUME InTimers(t) PROVE TimerCount(t) = 1
  <2>1. PICK e \in timers : e.task = t
    BY <1>4 DEF InTimers
  <2>2. {f \in timers : f.task = t} = {e}
    BY <2>1 DEF LiveInv, WakeInv
  <2> QED BY <2>2, FS_Singleton DEF TimerCount
<1>5. ASSUME ~InTimers(t) PROVE TimerCount(t) = 0
  <2>1. {f \in timers : f.task = t} = {}
    BY <1>5 DEF InTimers
  <2> QED BY <2>1, FS_EmptySet DEF TimerCount
<1> QED BY <1>2, <1>3, <1>4, <1>5

\* PlainOneWakeSource for any number of tasks: a suspended coroutine of a plain program
\* is woken by exactly one timer, ready entry or child.
THEOREM OneWakeSource == BSpec => []PlainOneWakeSource
<1>1. ASSUME AsyncTypeOK, PlainInv PROVE PlainOneWakeSource
  <2> SUFFICES ASSUME Plain, phase # "returned", NEW t \in Task, status[t] = "suspended", ~done[t]
               PROVE  Occurrences(ready, t) + TimerCount(t)
                        + (IF awaiting[t] # NoTask /\ ~done[awaiting[t]] THEN 1 ELSE 0) = 1
    BY DEF PlainOneWakeSource
  <2>1. LiveInv
    BY <1>1 DEF PlainInv
  <2>2. InReady(t) \/ InTimers(t) \/ InAwait(t)
    BY <2>1 DEF LiveInv, WakeInv
  <2>3. InReady(t) => ~InTimers(t) /\ ~InAwait(t)
    BY <2>1 DEF LiveInv, WakeInv
  <2>4. InTimers(t) => ~InAwait(t)
    BY <2>1 DEF LiveInv, WakeInv, InTimers, InAwait
  <2>5. /\ Occurrences(ready, t) = IF InReady(t) THEN 1 ELSE 0
        /\ TimerCount(t) = IF InTimers(t) THEN 1 ELSE 0
    BY <1>1, <2>1, SourceCounts
  <2> QED BY <2>2, <2>3, <2>4, <2>5 DEF InAwait
<1> QED BY <1>1, AsyncTypes, PlainInvariant, PTL

\* PlainAwaitCompletes: in every plain program, an await ends when its task is done.
THEOREM PlainAwaits == BSpec => PlainAwaitCompletes
<1>1. ASSUME AsyncTypeOK, PlainInv, [BNext]_bvars PROVE [Plain => AwaitsEndDone]_vars
  <2> SUFFICES ASSUME Plain, BNext, ~UNCHANGED vars,
                      NEW t \in Task, awaiting[t] # NoTask, awaiting'[t] # awaiting[t]
               PROVE  done[awaiting[t]]
    BY <1>1 DEF AwaitsEndDone, bvars
  <2>1. BodyStep \/ LoopStep \/ Tick
    BY <1>1, PlainSteps DEF PlainInv
  <2>2. LiveInv
    BY <1>1, <2>1, ReturnedStays DEF PlainInv
  <2>3. CASE BodyStep
    <3>1. PICK u \in Task, c \in Task : Await(u, c)
      BY <2>3, ZenonT(60) DEF BodyStep, CallAsync, AwaitDone, Cancel, Sleep, Finish, coro
    <3>2. awaiting[u] = NoTask /\ awaiting' = [awaiting EXCEPT ![u] = c]
      BY <1>1, <2>2, <3>1, RunningFacts DEF Await
    <3> QED BY <1>1, <3>2 DEF AsyncTypeOK
  <2>4. CASE LoopStep
    <3>1. CASE Start
      <4>1. awaiting[t] = NoTask
        BY <2>2, <3>1 DEF Start, LiveInv, RampInv
      <4> QED BY <4>1
    <3>2. CASE PopTask
      <4>1. /\ awaiting' = [awaiting EXCEPT ![Head(ready)] = NoTask]
            /\ Head(ready) \in Task /\ ~InAwait(Head(ready))
        BY <1>1, <2>2, <3>2, PopTaskResumes, ResumeRuns
      <4>2. t = Head(ready)
        BY <1>1, <4>1 DEF AsyncTypeOK
      <4> QED BY <4>1, <4>2 DEF InAwait
    <3>3. CASE RootDone \/ ScanTimers \/ PopCancelled \/ Idle \/ GiveUp
      BY <3>3 DEF RootDone, ScanTimers, PopCancelled, Idle, GiveUp, coro
    <3> QED BY <2>4, <3>1, <3>2, <3>3 DEF LoopStep
  <2>5. CASE Tick
    BY <2>5 DEF Tick, coro
  <2> QED BY <2>1, <2>3, <2>4, <2>5
<1> QED BY <1>1, AsyncTypes, PlainInvariant, PTL DEF BSpec, PlainAwaitCompletes

\* PlainResumesAreDue: in every plain program, no sleep ends early once the loop runs,
\* and the loop resumes no cancelled task.
THEOREM ResumesWhenDue == BSpec => PlainResumesAreDue
<1>1. ASSUME AsyncTypeOK, PlainInv, [BNext]_bvars PROVE [Plain => OnlyDueResumed]_vars
  <2> SUFFICES ASSUME Plain, BNext, ~UNCHANGED vars, NEW t \in Task
               PROVE  /\ phase # "ramp" /\ wakeAt[t] # 0 /\ wakeAt'[t] = 0 => now >= wakeAt[t]
                      /\ phase = "pop" /\ cancelled[t] /\ status[t] = "suspended" => status'[t] # "running"
    BY <1>1 DEF OnlyDueResumed, bvars
  <2>1. BodyStep \/ LoopStep \/ Tick
    BY <1>1, PlainSteps DEF PlainInv
  <2>2. LiveInv
    BY <1>1, <2>1, ReturnedStays DEF PlainInv
  <2>3. CASE BodyStep
    <3>1. phase # "pop"
      BY ZenonT(90), <1>1, <2>3
          DEF AsyncTypeOK, BodyStep, CallAsync, AwaitDone, Await, Cancel, Sleep, Finish,
              Running
    <3>2. CASE wakeAt' = wakeAt
      BY <3>1, <3>2
    <3>3. CASE \E u \in Task, d \in Delays : Sleep(u, d) /\ wakeAt' = [wakeAt EXCEPT ![u] = now + d]
      <4>1. PICK u \in Task, d \in Delays : Sleep(u, d) /\ wakeAt' = [wakeAt EXCEPT ![u] = now + d]
        BY <3>3
      <4>2. wakeAt[u] = 0
        BY <1>1, <2>2, <4>1, RunningFacts DEF Sleep
      <4> QED BY <1>1, <3>1, <4>1, <4>2 DEF AsyncTypeOK
    <3> QED BY ZenonT(90), <2>3, <3>2, <3>3
            DEF BodyStep, CallAsync, AwaitDone, Await, Cancel, Sleep, Finish, coro
  <2>4. CASE LoopStep
    <3>1. CASE Start
      BY <3>1 DEF Start
    <3>2. CASE PopTask
      <4>1. /\ wakeAt' = [wakeAt EXCEPT ![Head(ready)] = 0] /\ wakeAt[Head(ready)] <= now
            /\ status' = [u \in Task |-> IF u = Head(ready) THEN "running"
                                   ELSE IF u = awaiting[Head(ready)] THEN "destroyed" ELSE status[u]]
            /\ Head(ready) \in Task /\ ~cancelled[Head(ready)]
        BY <1>1, <2>2, <3>2, PopTaskResumes, ResumeRuns
      <4>2. CASE t = Head(ready)
        BY <1>1, <4>1, <4>2 DEF AsyncTypeOK
      <4>3. CASE t # Head(ready)
        BY <1>1, <4>1, <4>3 DEF AsyncTypeOK
      <4> QED BY <4>2, <4>3
    <3>3. CASE ScanTimers \/ PopCancelled \/ Idle
      BY <3>3 DEF ScanTimers, PopCancelled, Idle, coro
    <3>4. CASE RootDone \/ GiveUp
      <4>1. status'[t] # "running" \/ status'[t] = status[t]
        BY <1>1, <3>4 DEF RootDone, GiveUp, Return, AsyncTypeOK
      <4> QED BY <3>4, <4>1 DEF RootDone, GiveUp
    <3> QED BY <2>4, <3>1, <3>2, <3>3, <3>4 DEF LoopStep
  <2>5. CASE Tick
    BY <2>5 DEF Tick, coro
  <2> QED BY <2>1, <2>3, <2>4, <2>5
<1> QED BY <1>1, AsyncTypes, PlainInvariant, PTL DEF BSpec, PlainResumesAreDue
-----------------------------------------------------------------------------
(* The blocking calls, in every program.                                     *)

CallKinds == {"none", "spawn", "awaitAll", "select", "startTimeout", "timeout"}

\* r orders the tasks: async main first, a task before those it calls, and on the stack
\* from the bottom to the top.
CallerOrder(r) ==
  /\ \A t \in Task : t # Root => r[Root] < r[t]
  /\ \A t \in Task : owner[t] # NoTask => r[owner[t]] < r[t]
  /\ \A i, j \in 1..Len(stack) : i < j => r[stack[i]] < r[stack[j]]

\* The stack holds the running coroutines, in such an order, and a coroutine is above
\* the one that called it or whose blocking call resumed it.
ShapeInv ==
  /\ \E r \in [Task -> Nat] : CallerOrder(r)
  /\ \A t \in Task : status[t] = "running" <=> \E i \in 1..Len(stack) : stack[i] = t
  /\ \A i \in 2..Len(stack) :
       owner[stack[i]] = stack[i - 1] \/ stack[i] \in call[stack[i - 1]].on

\* A blocking call is of a running coroutine, on tasks that it holds; only async main
\* uses the group, whose tasks nobody holds.
CallsInv ==
  /\ call \in [Task -> [kind : CallKinds, todo : SUBSET Task, on : SUBSET Task, until : Nat]]
  /\ \A t \in Task : call[t] # NoCall => status[t] = "running"
  /\ \A t \in Task : call[t].todo \subseteq call[t].on
  /\ \A t, c \in Task : c \in call[t].on =>
       c # Root /\ status[c] # "none" /\ (owner[c] = t \/ (t = Root /\ owner[c] = NoTask))
  /\ group \subseteq Task
  /\ \A c \in group : c # Root /\ owner[c] = NoTask /\ status[c] \notin {"none", "destroyed"}

\* A task that another called is held by it until the group takes it.
HoldInv ==
  /\ owner[Root] = NoTask /\ status[Root] # "none"
  /\ \A t \in Task : owner[t] # NoTask => status[owner[t]] # "none" /\ status[t] # "none"
  /\ \A t \in Task : awaiting[t] # NoTask =>
       owner[awaiting[t]] = t /\ status[t] \notin {"none", "running"}

BlockingInv == ShapeInv /\ CallsInv /\ HoldInv

\* The running coroutine is the last in the order: no task it holds runs, and if it is
\* async main it runs alone.
LEMMA TopIsLast ==
  ASSUME AsyncTypeOK, ShapeInv, NEW t \in Task, Running(t),
         NEW r \in [Task -> Nat], CallerOrder(r)
  PROVE  /\ status[t] = "running"
         /\ \A u \in Task : status[u] = "running" => u = t \/ r[u] < r[t]
         /\ \A u \in Task : owner[u] = t => status[u] # "running"
         /\ t = Root => \A u \in Task : u # t => status[u] # "running"
<1> DEFINE n == Len(stack)
<1>1. n \in Nat \ {0} /\ stack[n] = t
  BY StackTop DEF AsyncTypeOK
<1>2. \A i \in 1..n : i = n \/ i < n
  BY <1>1
<1>3. n \in 1..n
  BY <1>1
<1> HIDE DEF n
<1>4. status[t] = "running"
  BY <1>1, <1>3 DEF ShapeInv, n
<1>5. ASSUME NEW u \in Task, status[u] = "running" PROVE u = t \/ r[u] < r[t]
  <2>1. PICK i \in 1..n : stack[i] = u
    BY <1>5 DEF ShapeInv, n
  <2> QED BY <1>1, <1>2, <1>3, <2>1 DEF CallerOrder, n
<1>6. t # NoTask /\ Root \in Task
  BY TaskAssumption
<1>7. ASSUME NEW u \in Task, owner[u] = t, status[u] = "running" PROVE FALSE
  <2>1. r[t] < r[u] /\ r[t] \in Nat /\ r[u] \in Nat
    BY <1>6, <1>7 DEF CallerOrder
  <2> QED BY <1>5, <1>7, <2>1
<1>8. ASSUME t = Root, NEW u \in Task, u # t, status[u] = "running" PROVE FALSE
  <2>1. r[t] < r[u] /\ r[t] \in Nat /\ r[u] \in Nat
    BY <1>8 DEF CallerOrder
  <2> QED BY <1>5, <1>8, <2>1
<1> QED BY <1>4, <1>5, <1>7, <1>8

\* What holds of the running coroutine whatever the order.
LEMMA TopFacts ==
  ASSUME AsyncTypeOK, ShapeInv, NEW t \in Task, Running(t)
  PROVE  /\ status[t] = "running"
         /\ \A u \in Task : owner[u] = t => status[u] # "running"
         /\ t = Root => \A u \in Task : u # t => status[u] # "running"
BY TopIsLast DEF ShapeInv

\* A step that starts and ends no coroutine; only the call of the top one changes.
LEMMA ShapeKept ==
  ASSUME AsyncTypeOK, ShapeInv, stack' = stack,
         \A u \in Task : status'[u] = "running" <=> status[u] = "running",
         \A u \in Task : owner'[u] = owner[u] \/ (owner'[u] = NoTask /\ status[u] # "running"),
         \A u \in Task : call'[u].on = call[u].on \/ Running(u)
  PROVE  ShapeInv'
<1> DEFINE n == Len(stack)
<1>1. n \in Nat /\ \A i \in 1..n : stack[i] \in Task /\ status[stack[i]] = "running"
  BY ElementOfSeq, LenProperties DEF AsyncTypeOK, ShapeInv
<1>2. PICK r \in [Task -> Nat] : CallerOrder(r)
  BY DEF ShapeInv
<1>3. CallerOrder(r)'
  BY <1>2 DEF CallerOrder
<1>4. ASSUME NEW i \in 2..n
      PROVE  owner'[stack[i]] = stack[i - 1] \/ stack[i] \in call'[stack[i - 1]].on
  <2>1. i \in 1..n /\ i - 1 \in 1..n /\ n \in 1..n /\ i - 1 < n
    BY <1>1
  <2>2. r[stack[i - 1]] < r[stack[n]] /\ r[stack[n]] \in Nat
    BY <1>1, <1>2, <2>1 DEF CallerOrder
  <2>3. stack[i - 1] # stack[n]
    BY <2>2
  <2>4. Running(stack[i - 1]) => stack[i - 1] = stack[n]
    BY <1>1, <2>1, StackTop DEF AsyncTypeOK
  <2>5. call'[stack[i - 1]].on = call[stack[i - 1]].on /\ owner'[stack[i]] = owner[stack[i]]
    BY <1>1, <2>1, <2>3, <2>4
  <2> QED BY <2>5 DEF ShapeInv
<1> QED BY <1>3, <1>4 DEF ShapeInv

\* The running coroutine gives control back.
LEMMA ShapePopped ==
  ASSUME AsyncTypeOK, ShapeInv, NEW t \in Task, Running(t),
         stack' = Front(stack), owner' = owner, call' = call,
         \A u \in Task : status'[u] = "running" <=> status[u] = "running" /\ u # t
  PROVE  ShapeInv'
<1> DEFINE n == Len(stack)
<1>1. /\ n \in Nat \ {0} /\ stack[n] = t
      /\ Len(stack') = n - 1 /\ \A i \in 1..(n - 1) : stack'[i] = stack[i]
  BY StackTop DEF AsyncTypeOK
<1>2. PICK r \in [Task -> Nat] : CallerOrder(r)
  BY DEF ShapeInv
<1>3. \A i, j \in 1..n : i < j => r[stack[i]] < r[stack[j]]
  BY <1>2 DEF CallerOrder
<1>4. \A i \in 1..n : stack[i] \in Task /\ r[stack[i]] \in Nat
  BY <1>2, ElementOfSeq DEF AsyncTypeOK
<1>5. \A u \in Task : status[u] = "running" <=> \E i \in 1..n : stack[i] = u
  BY DEF ShapeInv
<1>6. \A i \in 2..n : owner[stack[i]] = stack[i - 1] \/ stack[i] \in call[stack[i - 1]].on
  BY DEF ShapeInv
<1> HIDE DEF n
<1>7. \A i \in 1..(n - 1) : i \in 1..n /\ i < n /\ n \in 1..n
  BY <1>1
<1>8. \A i \in 1..(n - 1) : stack[i] # t
  <2>1. \A i \in 1..(n - 1) : r[stack[i]] < r[t] /\ r[t] \in Nat
    BY <1>1, <1>3, <1>4, <1>7
  <2> QED BY <2>1
<1>9. \A i \in 1..n : i \in 1..(n - 1) \/ stack[i] = t
  BY <1>1
<1>10. CallerOrder(r)'
  <2>1. \A i, j \in 1..(n - 1) : i < j => r[stack'[i]] < r[stack'[j]]
    BY <1>1, <1>3, <1>7
  <2> QED BY <1>1, <1>2, <2>1 DEF CallerOrder
<1>11. \A u \in Task : status'[u] = "running" <=> \E i \in 1..(n - 1) : stack'[i] = u
  BY <1>1, <1>5, <1>7, <1>8, <1>9
<1>12. \A i \in 2..(n - 1) : owner'[stack'[i]] = stack'[i - 1] \/ stack'[i] \in call'[stack'[i - 1]].on
  <2>1. \A i \in 2..(n - 1) : i \in 2..n /\ i \in 1..(n - 1) /\ i - 1 \in 1..(n - 1)
    BY <1>1
  <2> QED BY <1>1, <1>6, <2>1
<1> QED BY <1>1, <1>10, <1>11, <1>12 DEF ShapeInv

\* The coroutine c is called or resumed; r is an order for the new owners.
LEMMA ShapePushed ==
  ASSUME AsyncTypeOK, ShapeInv, NEW c \in Task, status[c] # "running",
         stack' = Append(stack, c),
         NEW r \in [Task -> Nat], CallerOrder(r),
         NEW q \in [Task -> Nat], \A u \in Task : u # c => q[u] = r[u],
         \A u \in Task : status[u] = "running" => q[u] < q[c],
         \A u \in Task : u # Root => q[Root] < q[u],
         \A u \in Task : owner'[u] # NoTask => q[owner'[u]] < q[u],
         \A u \in Task : status[u] = "running" => owner'[u] = owner[u] /\ call'[u].on = call[u].on,
         \A u \in Task : Running(u) => owner'[c] = u \/ c \in call'[u].on,
         fault = "none",
         \A u \in Task : status'[u] = "running" <=> status[u] = "running" \/ u = c
  PROVE  ShapeInv'
<1> DEFINE n == Len(stack)
<1>1. /\ n \in Nat /\ Len(stack') = n + 1 /\ stack'[n + 1] = c
      /\ \A i \in 1..n : stack'[i] = stack[i] /\ stack[i] \in Task
  BY SMTT(60), AppendProperties, ElementOfSeq, LenProperties DEF AsyncTypeOK
<1>2. /\ \A u \in Task : status[u] = "running" <=> \E i \in 1..n : stack[i] = u
      /\ \A i \in 2..n : owner[stack[i]] = stack[i - 1] \/ stack[i] \in call[stack[i - 1]].on
  BY DEF ShapeInv
<1>3. \A i, j \in 1..n : i < j => r[stack[i]] < r[stack[j]]
  BY DEF CallerOrder
<1>4. n # 0 => Running(stack[n])
  BY <1>1, EmptySeq DEF Running, Last, AsyncTypeOK
<1> HIDE DEF n
<1>5. \A i \in 1..n : status[stack[i]] = "running" /\ stack[i] # c
  BY <1>1, <1>2
<1>6. \A i, j \in 1..(n + 1) : i < j => i \in 1..n /\ (j \in 1..n \/ j = n + 1)
  BY <1>1
<1>7. \A i, j \in 1..(n + 1) : i < j => q[stack'[i]] < q[stack'[j]]
  <2>1. \A i \in 1..n : q[stack[i]] = r[stack[i]] /\ q[stack[i]] < q[c]
    BY <1>1, <1>5
  <2>2. ASSUME NEW i \in 1..n, NEW j \in 1..n, i < j PROVE q[stack'[i]] < q[stack'[j]]
    BY <1>1, <1>3, <2>1, <2>2
  <2>3. \A i \in 1..n : q[stack'[i]] < q[stack'[n + 1]]
    BY <1>1, <2>1
  <2> QED BY <1>6, <2>2, <2>3
<1>8. CallerOrder(q)'
  BY <1>1, <1>7 DEF CallerOrder
<1>9. \A u \in Task : status'[u] = "running" <=> \E i \in 1..(n + 1) : stack'[i] = u
  <2>1. \A i \in 1..(n + 1) : i \in 1..n \/ i = n + 1
    BY <1>1
  <2>2. n + 1 \in 1..(n + 1) /\ \A i \in 1..n : i \in 1..(n + 1)
    BY <1>1
  <2> QED BY <1>1, <1>2, <2>1, <2>2
<1>10. ASSUME NEW i \in 2..(n + 1)
       PROVE  owner'[stack'[i]] = stack'[i - 1] \/ stack'[i] \in call'[stack'[i - 1]].on
  <2>1. CASE i = n + 1
    <3>1. n # 0 /\ n \in 1..n /\ i - 1 = n
      BY <1>1, <2>1
    <3>2. stack'[i] = c /\ stack'[i - 1] = stack[n] /\ Running(stack[n]) /\ stack[n] \in Task
      BY <1>1, <1>4, <2>1, <3>1
    <3> QED BY <3>2
  <2>2. CASE i # n + 1
    <3>1. i \in 2..n /\ i \in 1..n /\ i - 1 \in 1..n
      BY <1>1, <2>2
    <3>2. /\ stack'[i] = stack[i] /\ stack'[i - 1] = stack[i - 1]
          /\ owner[stack[i]] = stack[i - 1] \/ stack[i] \in call[stack[i - 1]].on
      BY <1>1, <1>2, <3>1
    <3>3. /\ owner'[stack[i]] = owner[stack[i]]
          /\ call'[stack[i - 1]].on = call[stack[i - 1]].on
      BY <1>1, <1>5, <3>1
    <3> QED BY <3>2, <3>3
  <2> QED BY <2>1, <2>2
<1> QED BY <1>1, <1>8, <1>9, <1>10, ZenonT(60) DEF ShapeInv
LEMMA BlockingKept ==
  ASSUME AsyncTypeOK, BlockingInv, UNCHANGED <<status, owner, awaiting, stack, call, group>>
  PROVE  BlockingInv'
<1>1. ShapeInv'
  BY ShapeKept DEF BlockingInv
<1>2. CallsInv'
  BY DEF BlockingInv, CallsInv
<1>3. HoldInv'
  BY DEF BlockingInv, HoldInv
<1> QED BY <1>1, <1>2, <1>3 DEF BlockingInv

\* A coroutine in no blocking call ends or suspends, in an await of a task it holds if any.
LEMMA BlockingPopped ==
  ASSUME AsyncTypeOK, BlockingInv, NEW t \in Task, Running(t), call[t] = NoCall,
         stack' = Front(stack), UNCHANGED <<owner, call, group>>,
         NEW s \in {"suspended", "final"}, status' = [status EXCEPT ![t] = s],
         \A u \in Task : u # t => awaiting'[u] = awaiting[u],
         awaiting'[t] # awaiting[t] => owner[awaiting'[t]] = t
  PROVE  BlockingInv'
<1>1. status[t] = "running"
  BY TopFacts DEF BlockingInv
<1>2. \A u \in Task : status'[u] = IF u = t THEN s ELSE status[u]
  BY DEF AsyncTypeOK
<1>3. ShapeInv'
  BY <1>1, <1>2, ShapePopped DEF BlockingInv
<1>4. CallsInv'
  BY <1>1, <1>2 DEF BlockingInv, CallsInv
<1>5. HoldInv'
  <2>1. \A u \in Task : awaiting'[u] # NoTask => owner[awaiting'[u]] = u /\ status'[u] \notin {"none", "running"}
    BY <1>1, <1>2 DEF BlockingInv, HoldInv
  <2>2. \A u \in Task : status'[u] = "none" <=> status[u] = "none"
    BY <1>1, <1>2
  <2>3. \A u \in Task : owner[u] # NoTask => owner[u] \in Task
    BY DEF AsyncTypeOK
  <2> QED BY <2>1, <2>2, <2>3, TaskAssumption DEF BlockingInv, HoldInv
<1> QED BY <1>3, <1>4, <1>5 DEF BlockingInv

\* Tasks that do not run are destroyed.
LEMMA BlockingDestroyed ==
  ASSUME AsyncTypeOK, BlockingInv, NEW S \in SUBSET Task,
         status' = [u \in Task |-> IF u \in S THEN "destroyed" ELSE status[u]],
         \A u \in S : status[u] \notin {"none", "running"},
         UNCHANGED <<owner, awaiting, stack, call>>, group' \subseteq group \ S
  PROVE  BlockingInv'
<1>1. \A u \in Task : /\ status'[u] = "running" <=> status[u] = "running"
                      /\ status'[u] = "none" <=> status[u] = "none"
                      /\ status'[u] = "destroyed" <=> (status[u] = "destroyed" \/ u \in S)
  OBVIOUS
<1>2. ShapeInv'
  BY <1>1, ShapeKept DEF BlockingInv
<1>3. CallsInv'
  BY <1>1 DEF BlockingInv, CallsInv
<1>4. HoldInv'
  <2>1. \A u \in Task : owner[u] # NoTask => owner[u] \in Task
    BY DEF AsyncTypeOK
  <2> QED BY <1>1, <2>1, TaskAssumption DEF BlockingInv, HoldInv
<1> QED BY <1>2, <1>3, <1>4 DEF BlockingInv

\* The running coroutine enters or leaves a blocking call.
LEMMA BlockingCalled ==
  ASSUME AsyncTypeOK, BlockingInv, NEW t \in Task, Running(t),
         UNCHANGED <<status, owner, awaiting, stack, group>>,
         NEW r \in [kind : CallKinds, todo : SUBSET Task, on : SUBSET Task, until : Nat],
         call' = [call EXCEPT ![t] = r], r.todo \subseteq r.on,
         \A c \in r.on : c # Root /\ status[c] # "none" /\ (owner[c] = t \/ (t = Root /\ owner[c] = NoTask))
  PROVE  BlockingInv'
<1>1. \A u \in Task : call'[u] = IF u = t THEN r ELSE call[u]
  BY DEF BlockingInv, CallsInv
<1>2. ShapeInv'
  <2>1. \A u \in Task : call'[u].on = call[u].on \/ Running(u)
    BY <1>1
  <2> QED BY <2>1, ShapeKept DEF BlockingInv
<1>3. CallsInv'
  <2>1. status[t] = "running"
    BY TopFacts DEF BlockingInv
  <2>2. call' \in [Task -> [kind : CallKinds, todo : SUBSET Task, on : SUBSET Task, until : Nat]]
    BY DEF BlockingInv, CallsInv
  <2> QED BY <1>1, <2>1, <2>2 DEF BlockingInv, CallsInv
<1> QED BY <1>2, <1>3 DEF BlockingInv, HoldInv

\* The event loop, or the blocking call of the running coroutine, resumes c.
LEMMA BlockingResumed ==
  ASSUME AsyncTypeOK, BlockingInv, NEW c \in Task, Resume(c), fault = "none",
         \A u \in Task : Running(u) => c \in call[u].on,
         call' \in [Task -> [kind : CallKinds, todo : SUBSET Task, on : SUBSET Task, until : Nat]],
         \A u \in Task : /\ call'[u].on = call[u].on /\ call'[u].todo \subseteq call[u].todo
                         /\ call'[u] # NoCall => call[u] # NoCall,
         group' = group
  PROVE  BlockingInv'
<1>1. CASE UNCHANGED coro
  <2>1. UNCHANGED <<status, owner, awaiting, stack>>
    BY <1>1 DEF coro
  <2>2. ShapeInv'
    BY <2>1, ShapeKept DEF BlockingInv
  <2>3. CallsInv'
    BY <2>1 DEF BlockingInv, CallsInv
  <2> QED BY <2>1, <2>2, <2>3 DEF BlockingInv, HoldInv
<1>2. CASE ~UNCHANGED coro
  <2> DEFINE d == awaiting[c]
  <2>1. /\ status[c] = "suspended" /\ stack' = Append(stack, c) /\ owner' = owner
        /\ awaiting' = [awaiting EXCEPT ![c] = NoTask]
        /\ status' = [u \in Task |-> IF u = c THEN "running"
                                     ELSE IF u = d THEN "destroyed" ELSE status[u]]
    BY <1>2 DEF Resume
  <2>2. PICK r \in [Task -> Nat] : CallerOrder(r)
    BY DEF BlockingInv, ShapeInv
  <2>3. \A u \in Task : status[u] = "running" => r[u] < r[c]
    <3>1. ASSUME NEW u \in Task, status[u] = "running" PROVE r[u] < r[c]
      <4>1. PICK t \in Task : Running(t)
        <5>1. stack \in Seq(Task) /\ Len(stack) \in Nat /\ \E i \in 1..Len(stack) : stack[i] = u
          BY <3>1, LenProperties DEF AsyncTypeOK, BlockingInv, ShapeInv
        <5>2. stack # <<>> /\ Last(stack) \in Task
          BY <5>1, EmptySeq, ElementOfSeq DEF Last
        <5> QED BY <5>2 DEF Running
      <4>2. u = t \/ r[u] < r[t]
        BY <2>2, <3>1, <4>1, TopIsLast DEF BlockingInv
      <4>3. c # Root /\ (owner[c] = t \/ t = Root)
        BY <4>1 DEF BlockingInv, CallsInv
      <4>4. r[t] < r[c]
        BY <2>2, <4>3, TaskAssumption DEF CallerOrder
      <4> QED BY <2>2, <4>2, <4>4
    <3> QED BY <3>1
  <2>4. d # NoTask => d \in Task /\ owner[d] = c /\ status[d] \notin {"none", "running"} /\ d # c
    <3>1. ASSUME d # NoTask PROVE d \in Task /\ owner[d] = c /\ status[d] # "none"
      BY <3>1, TaskAssumption DEF AsyncTypeOK, BlockingInv, HoldInv
    <3>2. ASSUME d # NoTask PROVE r[c] < r[d] /\ r[c] \in Nat /\ r[d] \in Nat
      BY <2>2, <3>1, <3>2, TaskAssumption DEF CallerOrder
    <3> QED BY <2>3, <3>1, <3>2
  <2> HIDE DEF d
  <2>5. \A u \in Task : status'[u] = "running" <=> status[u] = "running" \/ u = c
    BY <2>1, <2>4, TaskAssumption
  <2>6. ShapeInv'
    <3>1. \A u \in Task : u # Root => r[Root] < r[u]
      BY <2>2 DEF CallerOrder
    <3>2. \A u \in Task : owner'[u] # NoTask => r[owner'[u]] < r[u]
      BY <2>1, <2>2 DEF CallerOrder
    <3>3. status[c] # "running"
      BY <2>1
    <3>4. \A u \in Task : status[u] = "running" => owner'[u] = owner[u] /\ call'[u].on = call[u].on
      BY <2>1
    <3>5. \A u \in Task : Running(u) => owner'[c] = u \/ c \in call'[u].on
      OBVIOUS
    <3> QED BY <2>1, <2>2, <2>3, <2>5, <3>1, <3>2, <3>3, <3>4, <3>5, ShapePushed DEF BlockingInv
  <2>7. \A u \in Task : /\ status'[u] = "none" <=> status[u] = "none"
                        /\ status'[u] = "destroyed" => status[u] = "destroyed" \/ owner[u] = c
    BY <2>1, <2>4, TaskAssumption
  <2>8. CallsInv'
    <3>1. \A u \in group : status'[u] \notin {"none", "destroyed"}
      BY <2>7, TaskAssumption DEF BlockingInv, CallsInv
    <3>2. \A u \in Task : call'[u] # NoCall => status'[u] = "running"
      BY <2>5 DEF BlockingInv, CallsInv
    <3>3. \A u \in Task : call'[u].todo \subseteq call'[u].on
      BY DEF BlockingInv, CallsInv
    <3>4. \A t, u \in Task : u \in call'[t].on =>
            u # Root /\ status'[u] # "none" /\ (owner[u] = t \/ (t = Root /\ owner[u] = NoTask))
      BY <2>7 DEF BlockingInv, CallsInv
    <3>5. group \subseteq Task /\ \A u \in group : u # Root /\ owner[u] = NoTask
      BY DEF BlockingInv, CallsInv
    <3>6. owner' = owner /\ group' = group
      BY <2>1
    <3> QED BY <3>1, <3>2, <3>3, <3>4, <3>5, <3>6 DEF CallsInv
  <2>9. HoldInv'
    <3>1. \A u \in Task : awaiting'[u] # NoTask =>
            owner[awaiting'[u]] = u /\ status'[u] \notin {"none", "running"}
      <4>1. \A u \in Task : awaiting'[u] = IF u = c THEN NoTask ELSE awaiting[u]
        BY <2>1 DEF AsyncTypeOK
      <4> QED BY <2>5, <2>7, <4>1 DEF BlockingInv, HoldInv
    <3>2. \A u \in Task : owner[u] # NoTask => owner[u] \in Task
      BY DEF AsyncTypeOK
    <3> QED BY <2>1, <2>7, <3>1, <3>2, TaskAssumption DEF BlockingInv, HoldInv
  <2> QED BY <2>6, <2>8, <2>9 DEF BlockingInv
<1> QED BY <1>1, <1>2
LEMMA CallAsyncBlocking ==
  ASSUME AsyncTypeOK, BlockingInv, NEW t \in Task, NEW c \in Task, CallAsync(t, c),
         UNCHANGED <<group, call>>
  PROVE  BlockingInv'
<1>1. /\ Running(t) /\ status[c] = "none" /\ fault = "none"
      /\ status' = [status EXCEPT ![c] = "running"] /\ owner' = [owner EXCEPT ![c] = t]
      /\ stack' = Append(stack, c) /\ awaiting' = awaiting
  BY DEF CallAsync, Running
<1>2. PICK r \in [Task -> Nat] : CallerOrder(r)
  BY DEF BlockingInv, ShapeInv
<1>3. /\ status[t] = "running" /\ t # c
      /\ \A u \in Task : status[u] = "running" => u = t \/ r[u] < r[t]
  BY <1>1, <1>2, TopIsLast DEF BlockingInv
<1>4. c # Root /\ \A u \in Task : owner[u] # c
  BY <1>1, TaskAssumption, ZenonT(60) DEF BlockingInv, HoldInv
<1>5. \A u \in Task : /\ status'[u] = IF u = c THEN "running" ELSE status[u]
                      /\ owner'[u] = IF u = c THEN t ELSE owner[u]
  BY <1>1 DEF AsyncTypeOK
<1> DEFINE q == [r EXCEPT ![c] = r[t] + 1]
<1>6. ShapeInv'
  <2>1. /\ q \in [Task -> Nat] /\ q[c] = r[t] + 1 /\ \A u \in Task : u # c => q[u] = r[u]
        /\ r[t] \in Nat
    BY <1>2
  <2> HIDE DEF q
  <2>2. \A u \in Task : status[u] = "running" => q[u] < q[c]
    <3>1. \A u \in Task : status[u] = "running" => u # c /\ r[u] \in Nat /\ (u = t \/ r[u] < r[t])
      BY <1>1, <1>2, <1>3
    <3> QED BY <2>1, <3>1
  <2>3. \A u \in Task : u # Root => q[Root] < q[u]
    <3>1. r[Root] \in Nat /\ (r[Root] < r[t] \/ Root = t) /\ q[Root] = r[Root]
      BY <1>2, <1>4, <2>1, TaskAssumption DEF CallerOrder
    <3>2. \A u \in Task : u # Root => r[Root] < r[u]
      BY <1>2 DEF CallerOrder
    <3> QED BY <2>1, <3>1, <3>2
  <2>4. \A u \in Task : owner'[u] # NoTask => q[owner'[u]] < q[u]
    <3>1. q[owner'[c]] < q[c]
      BY <1>3, <1>5, <2>1
    <3>2. ASSUME NEW u \in Task, u # c, owner[u] # NoTask PROVE q[owner'[u]] < q[u]
      <4>1. owner'[u] = owner[u] /\ owner[u] \in Task /\ owner[u] # c /\ r[owner[u]] < r[u]
        BY <1>2, <1>4, <1>5, <3>2 DEF AsyncTypeOK, CallerOrder
      <4> QED BY <2>1, <3>2, <4>1
    <3> QED BY <1>5, <3>1, <3>2
  <2>5. \A u \in Task : status[u] = "running" => owner'[u] = owner[u] /\ call'[u].on = call[u].on
    BY <1>1, <1>5
  <2>6. \A u \in Task : Running(u) => owner'[c] = u \/ c \in call'[u].on
    BY <1>1, <1>5 DEF Running
  <2>7. status[c] # "running" /\ \A u \in Task : status'[u] = "running" <=> status[u] = "running" \/ u = c
    BY <1>1, <1>5
  <2> QED BY <1>1, <1>2, <2>1, <2>2, <2>3, <2>4, <2>5, <2>6, <2>7, ShapePushed DEF BlockingInv
<1>7. CallsInv'
  <2>1. c \notin group
    BY <1>1 DEF BlockingInv, CallsInv
  <2>2. \A u \in Task : c \notin call[u].on
    BY <1>1 DEF BlockingInv, CallsInv
  <2> QED BY <1>1, <1>5, <2>1, <2>2 DEF BlockingInv, CallsInv
<1>8. HoldInv'
  <2>1. \A u \in Task : awaiting[u] # NoTask => awaiting[u] # c /\ u # c /\ awaiting[u] \in Task
    BY ZenonT(90), <1>1, TaskAssumption DEF BlockingInv, HoldInv, AsyncTypeOK
  <2>2. \A u \in Task : owner[u] # NoTask => owner[u] \in Task
    BY DEF AsyncTypeOK
  <2> QED BY <1>1, <1>3, <1>4, <1>5, <2>1, <2>2, TaskAssumption DEF BlockingInv, HoldInv
<1> QED BY <1>6, <1>7, <1>8 DEF BlockingInv

\* A step of a body keeps the invariant of the blocking calls.
LEMMA BodyBlocking ==
  ASSUME AsyncTypeOK, BlockingInv, FreeBodyStep
  PROVE  BlockingInv'
<1>1. PICK t \in Task :
        \/ \E c \in Task : CallAsync(t, c) \/ AwaitDone(t, c) \/ Await(t, c) \/ Cancel(t, c)
        \/ \E d \in Delays : Sleep(t, d)
        \/ Finish(t)
  BY DEF FreeBodyStep, BodyStep
<1>2. Running(t) /\ call[t] = NoCall /\ UNCHANGED <<group, call>>
  <2>1. Running(t)
    BY <1>1 DEF CallAsync, AwaitDone, Await, Cancel, Sleep, Finish
  <2> QED BY <2>1 DEF FreeBodyStep, Free, Running
<1>3. ASSUME NEW c \in Task, CallAsync(t, c) PROVE BlockingInv'
  BY <1>2, <1>3, CallAsyncBlocking
<1>4. ASSUME NEW c \in Task, AwaitDone(t, c) PROVE BlockingInv'
  <2>1. /\ owner[c] = t /\ UNCHANGED <<owner, awaiting, stack>>
        /\ status' = [status EXCEPT ![c] = "destroyed"]
    BY <1>4 DEF AwaitDone, Holds
  <2>2. status[c] \notin {"none", "running"}
    BY <1>2, <2>1, TopFacts, TaskAssumption DEF BlockingInv, HoldInv
  <2>3. c \notin group
    BY <2>1, TaskAssumption DEF BlockingInv, CallsInv
  <2>4. status' = [u \in Task |-> IF u \in {c} THEN "destroyed" ELSE status[u]]
    BY <2>1 DEF AsyncTypeOK
  <2> QED BY <1>2, <2>1, <2>2, <2>3, <2>4, BlockingDestroyed, ZenonT(60)
<1>5. ASSUME NEW c \in Task, Await(t, c) PROVE BlockingInv'
  BY <1>2, <1>5, BlockingPopped DEF Await, Suspend, Holds, AsyncTypeOK
<1>6. ASSUME NEW c \in Task, Cancel(t, c) PROVE BlockingInv'
  BY <1>2, <1>6, BlockingKept DEF Cancel, coro
<1>7. ASSUME NEW d \in Delays, Sleep(t, d) PROVE BlockingInv'
  <2>1. CASE UNCHANGED <<status, stack>>
    BY <1>2, <1>7, <2>1, BlockingKept DEF Sleep
  <2>2. CASE Suspend(t)
    BY <1>2, <1>7, <2>2, BlockingPopped DEF Sleep, Suspend
  <2> QED BY <1>7, <2>1, <2>2 DEF Sleep
<1>8. CASE Finish(t)
  <2>1. CASE UNCHANGED <<status, stack>>
    BY <1>2, <1>8, <2>1, BlockingKept DEF Finish
  <2>2. CASE status' = [status EXCEPT ![t] = "final"] /\ stack' = Front(stack)
    BY <1>2, <1>8, <2>2, BlockingPopped DEF Finish
  <2> QED BY <1>8, <2>1, <2>2 DEF Finish
<1> QED BY <1>1, <1>3, <1>4, <1>5, <1>6, <1>7, <1>8

\* So does one of the event loop, which finds no coroutine and no call.
LEMMA LoopBlocking ==
  ASSUME AsyncTypeOK, BlockingInv, LoopStep, UNCHANGED <<group, call>>
  PROVE  BlockingInv'
<1>1. fault = "none" /\ stack = <<>>
  BY DEF LoopStep, Start, RootDone, ScanTimers, PopCancelled, PopTask, Idle, GiveUp, InLoop
<1>2. /\ \A u \in Task : ~Running(u)
      /\ call \in [Task -> [kind : CallKinds, todo : SUBSET Task, on : SUBSET Task, until : Nat]]
  BY <1>1 DEF Running, BlockingInv, CallsInv
<1>3. ASSUME NEW c \in Task, Resume(c) PROVE BlockingInv'
  BY <1>1, <1>2, <1>3, BlockingResumed
<1>4. CASE UNCHANGED coro
  BY <1>4, BlockingKept DEF coro
<1>5. CASE RootDone \/ GiveUp
  <2>1. /\ status' = [status EXCEPT ![Root] = "destroyed"] /\ UNCHANGED <<owner, awaiting, stack>>
    BY <1>5 DEF RootDone, GiveUp, Return
  <2>2. status[Root] \notin {"none", "running"} /\ Root \notin group /\ Root \in Task
    <3>1. Len(stack) = 0 /\ Root \in Task
      BY <1>1, EmptySeq, TaskAssumption
    <3> QED BY <3>1 DEF BlockingInv, ShapeInv, CallsInv, HoldInv
  <2>3. status' = [u \in Task |-> IF u \in {Root} THEN "destroyed" ELSE status[u]]
    BY <2>1 DEF AsyncTypeOK
  <2> QED BY <2>1, <2>2, <2>3, BlockingDestroyed, ZenonT(60)
<1>6. CASE Start
  BY <1>3, <1>4, <1>6, TaskAssumption DEF Start
<1>7. CASE PopTask
  <2>1. Head(ready) \in Task
    BY <1>7, HeadTailProperties DEF PopTask, AsyncTypeOK
  <2> QED BY <1>3, <1>4, <1>7, <2>1 DEF PopTask
<1> QED BY <1>4, <1>5, <1>6, <1>7 DEF LoopStep, ScanTimers, PopCancelled, Idle

\* So does a step of a blocking call.
LEMMA CallBlocking ==
  ASSUME AsyncTypeOK, BlockingInv, BlockingStep
  PROVE  BlockingInv'
<1>1. PICK t \in Task :
        \/ \E c \in Task : GroupSpawn(t, c) \/ ResumeGiven(t, c)
        \/ GroupSpawned(t) \/ GroupAwaitAll(t) \/ AwaitAllReturns(t)
        \/ GroupCancelAll(t) \/ GroupFree(t)
        \/ \E S \in SUBSET Task : SelectCall(t, S)
        \/ SelectReturns(t)
        \/ \E c \in Task, d \in Delays : TimeoutCall(t, c, d)
        \/ SetDeadline(t) \/ TimeoutCompleted(t) \/ TimeoutExpired(t)
  BY DEF BlockingStep
<1>2. Running(t)
  BY <1>1 DEF GroupSpawn, ResumeGiven, GroupSpawned, GroupAwaitAll, AwaitAllReturns, GroupCancelAll,
              GroupFree, SelectCall, SelectReturns, TimeoutCall, SetDeadline, TimeoutCompleted,
              TimeoutExpired, Free, Inside
<1> DEFINE Calls == [kind : CallKinds, todo : SUBSET Task, on : SUBSET Task, until : Nat]
<1>3. call \in [Task -> Calls] /\ group \in SUBSET Task /\ fault = "none"
  BY <1>2 DEF BlockingInv, CallsInv, Running
<1>4. /\ status[t] = "running" /\ \A u \in Task : owner[u] = t => status[u] # "running"
      /\ t = Root => \A u \in Task : u # t => status[u] # "running"
  BY <1>2, TopFacts DEF BlockingInv
\* The tasks it holds.
<1>5. \A c \in Task : owner[c] = t => c # Root /\ status[c] # "none"
  BY TaskAssumption DEF BlockingInv, HoldInv
\* A call on tasks it holds, or of async main on the group.
<1>6. ASSUME NEW k \in CallKinds, NEW todo \in SUBSET Task, NEW on \in SUBSET Task, NEW d \in Nat,
             SetCall(t, k, todo, on, d), todo \subseteq on,
             UNCHANGED <<status, owner, awaiting, stack, group>>,
             \A c \in on : owner[c] = t \/ c \in call[t].on \/ (t = Root /\ c \in group)
      PROVE  BlockingInv'
  <2> DEFINE r == [kind |-> k, todo |-> todo, on |-> on, until |-> d]
  <2>1. r \in Calls /\ r.on = on /\ r.todo = todo /\ call' = [call EXCEPT ![t] = r]
    BY <1>6 DEF SetCall
  <2> HIDE DEF r
  <2>2. \A c \in on : c # Root /\ status[c] # "none" /\ (owner[c] = t \/ (t = Root /\ owner[c] = NoTask))
    BY <1>5, <1>6 DEF BlockingInv, CallsInv
  <2> QED BY <1>2, <1>6, <2>1, <2>2, BlockingCalled
<1>7. ASSUME Leave(t), UNCHANGED <<status, owner, awaiting, stack, group>> PROVE BlockingInv'
  <2>1. SetCall(t, "none", {}, {}, 0) /\ "none" \in CallKinds
    BY <1>7 DEF Leave, NoCall, SetCall, CallKinds
  <2> QED BY <1>6, <1>7, <2>1
<1>8. ASSUME NEW c \in Task, GroupSpawn(t, c) PROVE BlockingInv'
  <2>1. /\ t = Root /\ owner[c] = t /\ status[c] # "destroyed" /\ group' = group \cup {c}
        /\ owner' = [owner EXCEPT ![c] = NoTask] /\ UNCHANGED <<status, awaiting, stack>>
        /\ call' = [call EXCEPT ![t] = [kind |-> "spawn", todo |-> {c}, on |-> {c}, until |-> 0]]
    BY <1>8 DEF GroupSpawn, Holds, Enter, SetCall
  <2>2. /\ \A u \in Task : owner'[u] = IF u = c THEN NoTask ELSE owner[u]
        /\ \A u \in Task : u # t => call'[u] = call[u]
        /\ call'[t].todo = {c} /\ call'[t].on = {c} /\ call' \in [Task -> Calls]
    BY ZenonT(90), <1>3, <2>1 DEF AsyncTypeOK, CallKinds
  <2>3. c # Root /\ status[c] \notin {"none", "destroyed", "running"}
    BY <1>4, <1>5, <2>1
  <2>4. ShapeInv'
    BY <1>2, <2>1, <2>2, <2>3, ShapeKept DEF BlockingInv
  <2>5. CallsInv'
    <3>1. \A u \in Task : call'[u] # NoCall => status[u] = "running"
      BY <1>4, <2>2 DEF BlockingInv, CallsInv
    <3>2. \A u \in Task : call'[u].todo \subseteq call'[u].on
      BY <2>2 DEF BlockingInv, CallsInv
    <3>3. \A u, v \in Task : v \in call'[u].on =>
            v # Root /\ status[v] # "none" /\ (owner'[v] = u \/ (u = Root /\ owner'[v] = NoTask))
      <4>1. ASSUME NEW u \in Task, NEW v \in Task, v \in call'[u].on, u = t
            PROVE  v # Root /\ status[v] # "none" /\ (owner'[v] = u \/ (u = Root /\ owner'[v] = NoTask))
        BY <2>1, <2>2, <2>3, <4>1
      <4>2. ASSUME NEW u \in Task, NEW v \in Task, v \in call'[u].on, u # t
            PROVE  v # Root /\ status[v] # "none" /\ (owner'[v] = u \/ (u = Root /\ owner'[v] = NoTask))
        <5>1. v \in call[u].on
          BY <2>2, <4>2
        <5> QED BY <2>1, <2>2, <4>2, <5>1 DEF BlockingInv, CallsInv
      <4> QED BY <4>1, <4>2
    <3>4. \A v \in group' : v # Root /\ owner'[v] = NoTask /\ status[v] \notin {"none", "destroyed"}
      BY <1>3, <2>1, <2>2, <2>3 DEF BlockingInv, CallsInv
    <3>5. group' \subseteq Task
      BY <1>3, <2>1
    <3> QED BY <2>1, <2>2, <3>1, <3>2, <3>3, <3>4, <3>5 DEF CallsInv
  <2>6. HoldInv'
    <3>1. \A u \in Task : awaiting[u] # NoTask => awaiting[u] \in Task /\ awaiting[u] # c
      BY <1>4, <2>1 DEF BlockingInv, HoldInv, AsyncTypeOK
    <3> QED BY <2>1, <2>2, <2>3, <3>1, TaskAssumption DEF BlockingInv, HoldInv
  <2> QED BY <2>4, <2>5, <2>6 DEF BlockingInv
<1>9. ASSUME NEW c \in Task, ResumeGiven(t, c) PROVE BlockingInv'
  <2>1. /\ c \in call[t].todo /\ call' = [call EXCEPT ![t].todo = @ \ {c}] /\ group' = group
    BY <1>9 DEF ResumeGiven
  <2>2. /\ call' \in [Task -> Calls]
        /\ \A u \in Task : /\ call'[u].on = call[u].on /\ call'[u].todo \subseteq call[u].todo
                           /\ u # t => call'[u] = call[u]
    BY <1>3, <2>1
  <2>3. call[t] # NoCall
    BY <2>1 DEF NoCall
  <2>4. CASE Resume(c)
    <3>1. \A u \in Task : Running(u) => c \in call[u].on
      BY <1>2, <2>1 DEF Running, BlockingInv, CallsInv
    <3> QED BY <1>3, <2>1, <2>2, <2>3, <2>4, <3>1, BlockingResumed
  <2>5. CASE UNCHANGED coro
    <3>1. UNCHANGED <<status, owner, awaiting, stack>>
      BY <2>5 DEF coro
    <3>2. ShapeInv'
      BY <2>2, <3>1, ShapeKept DEF BlockingInv
    <3>3. CallsInv'
      BY <1>4, <2>1, <2>2, <2>3, <3>1 DEF BlockingInv, CallsInv
    <3> QED BY <3>1, <3>2, <3>3 DEF BlockingInv, HoldInv
  <2> QED BY <1>9, <2>4, <2>5 DEF ResumeGiven
<1>10. ASSUME GroupSpawned(t) \/ AwaitAllReturns(t) \/ SelectReturns(t) \/ TimeoutCompleted(t)
       PROVE  BlockingInv'
  BY <1>7, <1>10 DEF GroupSpawned, AwaitAllReturns, SelectReturns, TimeoutCompleted, vars, coro
<1>11. CASE TimeoutExpired(t)
  BY <1>7, <1>11 DEF TimeoutExpired, coro
<1>12. CASE GroupCancelAll(t)
  BY <1>12, BlockingKept DEF GroupCancelAll, coro
<1>13. CASE GroupAwaitAll(t)
  BY <1>3, <1>6, <1>13 DEF GroupAwaitAll, Enter, CallKinds, vars, coro
<1>14. ASSUME NEW S \in SUBSET Task, SelectCall(t, S) PROVE BlockingInv'
  BY <1>6, <1>14 DEF SelectCall, Enter, CallKinds, Holds, vars, coro
<1>15. ASSUME NEW c \in Task, NEW d \in Delays, TimeoutCall(t, c, d) PROVE BlockingInv'
  <2>1. d \in Nat
    BY ProgramAssumption DEF Delays, AsyncTypeOK
  <2> QED BY <1>6, <1>15, <2>1 DEF TimeoutCall, Enter, CallKinds, Holds, vars, coro
<1>16. CASE SetDeadline(t)
  <2> DEFINE end == now + call[t].until
             at == IF end > MaxTime THEN MaxTime ELSE end
  <2>1. call[t] \in Calls /\ MaxTime \in Nat
    BY <1>3, ProgramAssumption DEF MaxTime, AsyncTypeOK
  <2>2. at \in Nat /\ call[t].on \in SUBSET Task
    BY <2>1, SMTT(60) DEF AsyncTypeOK
  <2>3. SetCall(t, "timeout", {}, call[t].on, at) /\ UNCHANGED <<status, owner, awaiting, stack, group>>
    BY <1>16 DEF SetDeadline, vars, coro
  <2> HIDE DEF at
  <2> QED BY <1>6, <2>2, <2>3 DEF CallKinds
<1>17. CASE GroupFree(t)
  <2>1. /\ t = Root /\ group' = {} /\ UNCHANGED <<owner, awaiting, stack, call>>
        /\ status' = [u \in Task |-> IF u \in group THEN "destroyed" ELSE status[u]]
    BY <1>17 DEF GroupFree
  <2>2. \A u \in group : status[u] \notin {"none", "running"}
    BY <1>3, <1>4, <2>1 DEF BlockingInv, CallsInv
  <2> QED BY <1>3, <2>1, <2>2, BlockingDestroyed
<1> QED BY <1>1, <1>8, <1>9, <1>10, <1>11, <1>12, <1>13, <1>14, <1>15, <1>16, <1>17

\* At first there is no call and the group is empty.
LEMMA BlockingInit == BInit => BlockingInv
<1> SUFFICES ASSUME BInit PROVE BlockingInv
  OBVIOUS
<1>1. Len(<<Root>>) = 1 /\ <<Root>>[1] = Root /\ Root \in Task /\ NoTask \notin Task
  BY TaskAssumption
<1>2. ShapeInv
  <2> DEFINE r == [t \in Task |-> IF t = Root THEN 0 ELSE 1]
  <2>1. r \in [Task -> Nat] /\ CallerOrder(r)
    BY <1>1 DEF BInit, Init, CallerOrder
  <2> QED BY <1>1, <2>1 DEF BInit, Init, ShapeInv
<1>3. CallsInv
  BY DEF BInit, Init, CallsInv, NoCall, CallKinds
<1>4. HoldInv
  BY <1>1 DEF BInit, Init, HoldInv
<1> QED BY <1>2, <1>3, <1>4 DEF BlockingInv

\* BStackDiscipline for any number of tasks and of blocking calls, and for every class
\* of programs: no coroutine is entered twice, each is above the one that called it or
\* was given it, and no blocking call is left below another's suspension.
THEOREM StackDiscipline == BSpec => []BStackDiscipline
<1>1. ASSUME AsyncTypeOK, BlockingInv, [BNext]_bvars PROVE BlockingInv'
  <2>1. CASE UNCHANGED <<vars, group, call>>
    BY <1>1, <2>1, BlockingKept DEF vars, coro
  <2>2. CASE Tick /\ UNCHANGED <<group, call>>
    BY <1>1, <2>2, BlockingKept DEF Tick, coro
  <2>3. CASE LoopStep /\ UNCHANGED <<group, call>>
    BY <1>1, <2>3, LoopBlocking
  <2>4. CASE FreeBodyStep \/ BlockingStep
    BY <1>1, <2>4, BodyBlocking, CallBlocking
  <2> QED BY <1>1, <2>1, <2>2, <2>3, <2>4 DEF BNext, Poll, Ended, bvars
<1>2. ASSUME AsyncTypeOK, BlockingInv PROVE BStackDiscipline
  <2>1. PICK r \in [Task -> Nat] : CallerOrder(r)
    BY <1>2 DEF BlockingInv, ShapeInv
  <2>2. DOMAIN stack = 1..Len(stack) /\ Len(stack) \in Nat /\ \A i \in 1..Len(stack) : stack[i] \in Task
    BY <1>2, LenProperties, ElementOfSeq DEF AsyncTypeOK
  <2>3. IsInjective(stack)
    <3>1. ASSUME NEW i \in 1..Len(stack), NEW j \in 1..Len(stack), stack[i] = stack[j], i < j PROVE FALSE
      BY <2>1, <2>2, <3>1 DEF CallerOrder
    <3> QED BY <2>2, <3>1 DEF IsInjective
  <2>4. ToSet(stack) = {t \in Task : status[t] = "running"}
    <3>1. \A t \in Task : status[t] = "running" <=> \E i \in 1..Len(stack) : stack[i] = t
      BY <1>2 DEF BlockingInv, ShapeInv
    <3>2. ToSet(stack) = {stack[i] : i \in 1..Len(stack)}
      BY <2>2 DEF ToSet
    <3>3. \A t : t \in ToSet(stack) <=> t \in Task /\ status[t] = "running"
      BY <2>2, <3>1, <3>2
    <3> QED BY <3>3
  <2>5. \A i \in 2..Len(stack) : owner[stack[i]] = stack[i - 1] \/ stack[i] \in call[stack[i - 1]].on
    BY <1>2 DEF BlockingInv, ShapeInv
  <2>6. \A t \in Task : call[t] # NoCall => t \in ToSet(stack)
    BY <1>2, <2>4 DEF BlockingInv, CallsInv
  <2>7. \A c \in group : status[c] # "destroyed"
    BY <1>2 DEF BlockingInv, CallsInv
  <2> QED BY <2>3, <2>4, <2>5, <2>6, <2>7 DEF BStackDiscipline
<1> QED BY BlockingInit, <1>1, <1>2, AsyncTypes, PTL DEF BSpec
=============================================================================
