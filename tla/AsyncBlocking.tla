---------------------------- MODULE AsyncBlocking ----------------------------
(***************************************************************************)
(* Task groups, taskSelect and withTimeout (stdlib/runtime/runtime.cpp),   *)
(* composed with the coroutines and the event loop of AsyncScheduler.      *)
(*                                                                         *)
(* These calls hold the only thread: they resume the tasks they are given  *)
(* and then poll done flags, in a wait that nothing but the clock and the  *)
(* tasks above them on the stack can end.  The event loop and its timers   *)
(* stand still meanwhile.                                                  *)
(***************************************************************************)
EXTENDS AsyncScheduler

CONSTANT MaxCalls   \* bound: the blocking calls of one behaviour

ASSUME CallsAssumption == MaxCalls \in Nat

VARIABLES
  group,   \* LivaTaskGroup.tasks of the one task group, which async main uses
  call,    \* the blocking call each coroutine is in
  calls    \* the number of blocking calls so far

bvars == <<vars, group, call, calls>>

NoCall == [kind |-> "none", todo |-> {}, on |-> {}, until |-> 0]

BInit ==
  /\ Init
  /\ group = {}
  /\ call = [t \in Task |-> NoCall]
  /\ calls = 0

SetCall(t, k, todo, on, d) ==
  call' = [call EXCEPT ![t] = [kind |-> k, todo |-> todo, on |-> on, until |-> d]]

Enter(t, k, todo, on, d) ==
  /\ calls < MaxCalls /\ calls' = calls + 1
  /\ SetCall(t, k, todo, on, d)

Free(t) == Running(t) /\ call[t] = NoCall
Inside(t, k) == Running(t) /\ call[t].kind = k /\ call[t].todo = {}
Leave(t) == call' = [call EXCEPT ![t] = NoCall]

-----------------------------------------------------------------------------

\* taskGroupSpawn resumes the task it is given, which ran its ramp when its
\* function was called.  The group holds the task from now on: the programs
\* covered do not use it after that.
GroupSpawn(t, c) ==
  /\ t = Root /\ Free(t) /\ Holds(t, c)
  /\ group' = group \cup {c}
  /\ owner' = [owner EXCEPT ![c] = NoTask]
  /\ Enter(t, "spawn", {c}, {c}, 0)
  /\ UNCHANGED <<program, task, status, awaiting, wakeAt, stack, queues, now, phase, fault>>

\* The first loop of taskSelect, and the head of the others: resume the tasks.
\* taskGroupSpawn does not look at the done flag.
ResumeGiven(t, c) ==
  /\ Running(t)
  /\ c \in call[t].todo
  /\ call' = [call EXCEPT ![t].todo = @ \ {c}]
  /\ IF done[c] /\ call[t].kind # "spawn" THEN UNCHANGED <<coro, fault>> ELSE Resume(c)
  /\ UNCHANGED <<program, task, queues, now, phase, group, calls>>

GroupSpawned(t) ==
  /\ Inside(t, "spawn")
  /\ Leave(t)
  /\ UNCHANGED <<vars, group, calls>>

GroupAwaitAll(t) ==
  /\ t = Root /\ Free(t) /\ group # {}
  /\ Enter(t, "awaitAll", {}, group, 0)
  /\ UNCHANGED <<vars, group>>

AwaitAllReturns(t) ==
  /\ Inside(t, "awaitAll")
  /\ \A c \in call[t].on : done[c]
  /\ Leave(t)
  /\ UNCHANGED <<vars, group, calls>>

GroupCancelAll(t) ==
  /\ t = Root /\ Free(t)
  /\ \E c \in group : ~cancelled[c]
  /\ \A c \in group : children[c] # <<>> => "cancelTree" \in Features
  /\ CancelTasks(group)
  /\ UNCHANGED <<program, done, parent, children, coro, queues, now, phase, group, call, calls>>

\* taskGroupFree destroys every member, done or not.
GroupFree(t) ==
  /\ t = Root /\ Free(t) /\ group # {}
  /\ status' = [u \in Task |-> IF u \in group THEN "destroyed" ELSE status[u]]
  /\ group' = {}
  /\ UNCHANGED <<program, task, owner, awaiting, wakeAt, stack, queues, now, phase, fault, call, calls>>

SelectCall(t, S) ==
  /\ Free(t)
  /\ S # {} /\ \A c \in S : Holds(t, c)
  /\ Enter(t, "select", S, S, 0)
  /\ UNCHANGED <<vars, group>>

SelectReturns(t) ==
  /\ Inside(t, "select")
  /\ \E c \in call[t].on : done[c]
  /\ Leave(t)
  /\ UNCHANGED <<vars, group, calls>>

\* The deadline of withTimeout is set when the task has come back.
TimeoutCall(t, c, d) ==
  /\ Free(t) /\ Holds(t, c)
  /\ Enter(t, "startTimeout", {c}, {c}, d)
  /\ UNCHANGED <<vars, group>>

SetDeadline(t) ==
  /\ Inside(t, "startTimeout")
  /\ LET end == now + call[t].until
     IN  SetCall(t, "timeout", {}, call[t].on, IF end > MaxTime THEN MaxTime ELSE end)
  /\ UNCHANGED <<vars, group, calls>>

TimeoutCompleted(t) ==
  /\ Inside(t, "timeout")
  /\ \A c \in call[t].on : done[c]
  /\ Leave(t)
  /\ UNCHANGED <<vars, group, calls>>

\* Mutation: the timeout is looked at only once the task is done.
TimeoutAfterDone(t) ==
  /\ Inside(t, "timeout")
  /\ \A c \in call[t].on : done[c]
  /\ call[t].until <= now
  /\ Leave(t)
  /\ UNCHANGED <<vars, group, calls>>

TimeoutExpired(t) ==
  /\ Inside(t, "timeout")
  /\ \E c \in call[t].on : ~done[c]
  /\ call[t].until <= now
  /\ CancelTasks(call[t].on)
  /\ Leave(t)
  /\ UNCHANGED <<program, done, parent, children, coro, queues, now, phase, group, calls>>

-----------------------------------------------------------------------------

\* A step of the body of a coroutine that is in no blocking call.
FreeBodyStep ==
  /\ \E t \in Task : Free(t)
  /\ BodyStep
  /\ UNCHANGED <<group, call, calls>>

BlockingStep ==
  /\ "blocking" \in Features
  /\ \E t \in Task :
       \/ \E c \in Task : GroupSpawn(t, c) \/ ResumeGiven(t, c)
       \/ GroupSpawned(t) \/ GroupAwaitAll(t) \/ AwaitAllReturns(t)
       \/ GroupCancelAll(t) \/ GroupFree(t)
       \/ \E S \in SUBSET Task : SelectCall(t, S)
       \/ SelectReturns(t)
       \/ \E c \in Task, d \in Delays : TimeoutCall(t, c, d)
       \/ SetDeadline(t) \/ TimeoutCompleted(t) \/ TimeoutExpired(t)

\* A wait that finds its condition false goes round again.
Poll ==
  /\ \E t \in Task : \E k \in {"awaitAll", "select", "timeout"} : Inside(t, k)
  /\ UNCHANGED bvars

BNext ==
  \/ FreeBodyStep
  \/ BlockingStep \/ Poll
  \/ LoopStep /\ UNCHANGED <<group, call, calls>>
  \/ Tick /\ UNCHANGED <<group, call, calls>>
  \/ Ended /\ UNCHANGED <<group, call, calls>>

BSpec == BInit /\ [][BNext]_bvars

BFairSpec ==
  BSpec /\ WF_bvars(FreeBodyStep) /\ WF_bvars(BlockingStep)
        /\ WF_bvars(LoopStep /\ UNCHANGED <<group, call, calls>>)
        /\ SF_bvars(Tick /\ UNCHANGED <<group, call, calls>>)

-----------------------------------------------------------------------------
(* Properties *)

\* No coroutine is entered a second time while it runs: the coroutines on the
\* stack are distinct and are exactly the running ones, and each was called by
\* the one below it, resumed by the event loop, or handed by the one below to the
\* blocking call that one is in.  A blocking call never goes on below another's
\* suspension, and what it waits for is never a destroyed task of the group.
BStackDiscipline ==
  /\ IsInjective(stack)
  /\ ToSet(stack) = {t \in Task : status[t] = "running"}
  /\ \A i \in 2..Len(stack) :
       \/ owner[stack[i]] = stack[i - 1]
       \/ stack[i] \in call[stack[i - 1]].on
  /\ \A t \in Task : call[t] # NoCall /\ phase # "returned" => t \in ToSet(stack)
  /\ \A c \in group : status[c] # "destroyed"

\* withTimeout comes back: once the task it resumed has given the thread back,
\* the wait ends at the deadline at the latest, although no timer fires and no
\* other task runs meanwhile.  (A fault ends the program.)
TimeoutReturns ==
  \A t \in Task :
    Running(t) /\ call[t].kind = "timeout"
      ~> call[t].kind # "timeout" \/ fault # "none"

\* "Wait for all tasks to complete" (taskGroupAwaitAll, docs/en/API-REFERENCE.md):
\* the wait of a task that has nothing above it on the stack ends.
AwaitAllEnds ==
  \A t \in Task :
    call[t].kind = "awaitAll" ~> call[t].kind # "awaitAll" \/ fault # "none"
=============================================================================
