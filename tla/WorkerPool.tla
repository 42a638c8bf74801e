---------------------------- MODULE WorkerPool ----------------------------
(***************************************************************************)
(* The worker threads of liva_scheduler_init and liva_scheduler_shutdown,    *)
(* runtime.cpp:3873-3985.  Nothing the compiler emits puts a task into their *)
(* queues, so every look at the three queues finds nothing: what is left is  *)
(* the life of the threads and of the array workers_ they all read.          *)
(***************************************************************************)
EXTENDS Integers

CONSTANTS WorkerIds,   \* 0 .. worker_count_ - 1
          MaxInits     \* how many pools the program starts, one after the other

ASSUME PoolAssumption == WorkerIds \subseteq Nat /\ MaxInits \in Nat

VARIABLES scheduler_running,
          allocated,    \* workers_ # nullptr
          running,      \* running[w]: the flag of the worker, written without a lock
          wpc,          \* wpc[w]: where the worker thread is in worker_loop
          caller,       \* where the thread that called init or shutdown is
          pending,      \* the workers it has still to start, stop or join
          inits

pvars == <<scheduler_running, allocated, running, wpc, caller, pending, inits>>

First(S) == CHOOSE w \in S : \A v \in S : w <= v

WStep(w, from, to) ==
  /\ wpc[w] = from /\ wpc' = [wpc EXCEPT ![w] = to]
  /\ UNCHANGED <<scheduler_running, allocated, running, caller, pending, inits>>

\* while (w->running)
LoopTest(w) == WStep(w, "loop", IF running[w] THEN "look" ELSE "returned")

\* Its own queue, the global one, and those of the other workers: all empty.
Look(w) == WStep(w, "look", "predicate")

\* wait_for evaluates its predicate, then blocks, under w->mtx.
Predicate(w) == WStep(w, "predicate", IF running[w] THEN "block" ELSE "loop")
Block(w) == WStep(w, "block", "waiting")

\* Mutant: a wait without a time limit.
WakeNever(w) == WStep(w, "waiting", "waiting")

\* After 5 ms, or spuriously, with the predicate evaluated again.
Wake(w) == WStep(w, "waiting", "loop")

\* An init while a pool runs returns at once.
InitCall ==
  /\ caller = "idle" /\ ~scheduler_running /\ inits < MaxInits
  /\ allocated' = TRUE /\ scheduler_running' = TRUE
  /\ caller' = "starting" /\ pending' = WorkerIds
  /\ inits' = inits + 1
  /\ UNCHANGED <<running, wpc>>

StartWorker ==
  /\ caller = "starting"
  /\ IF pending = {} THEN caller' = "idle" /\ UNCHANGED <<running, wpc, pending>>
     ELSE LET w == First(pending)
          IN  /\ running' = [running EXCEPT ![w] = TRUE]
              /\ wpc' = [wpc EXCEPT ![w] = "loop"]
              /\ pending' = pending \ {w}
              /\ UNCHANGED caller
  /\ UNCHANGED <<scheduler_running, allocated, inits>>

ShutdownCall ==
  /\ caller = "idle" /\ scheduler_running
  /\ scheduler_running' = FALSE
  /\ caller' = "stopping" /\ pending' = WorkerIds
  /\ UNCHANGED <<allocated, running, wpc, inits>>

\* workers_[i].running = false, without w->mtx
StopWorker ==
  /\ caller = "stopping" /\ pending # {}
  /\ running' = [running EXCEPT ![First(pending)] = FALSE]
  /\ caller' = "notifying"
  /\ UNCHANGED <<scheduler_running, allocated, wpc, pending, inits>>

\* notify_all wakes the worker if it waits, and is lost on one about to.
NotifyWorker ==
  /\ caller = "notifying"
  /\ LET w == First(pending)
     IN  /\ wpc' = IF wpc[w] = "waiting" THEN [wpc EXCEPT ![w] = "loop"] ELSE wpc
         /\ pending' = pending \ {w}
  /\ caller' = "stopping"
  /\ UNCHANGED <<scheduler_running, allocated, running, inits>>

\* Mutant: only the first worker is joined.
JoinFirst ==
  /\ \/ /\ caller = "stopping" /\ pending = {}
        /\ caller' = "joining" /\ pending' = {First(WorkerIds)}
        /\ UNCHANGED wpc
     \/ /\ caller = "joining" /\ pending # {} /\ wpc[First(pending)] = "returned"
        /\ wpc' = [wpc EXCEPT ![First(pending)] = "none"]
        /\ pending' = pending \ {First(pending)}
        /\ UNCHANGED caller
  /\ UNCHANGED <<scheduler_running, allocated, running, inits>>

\* join, in the order of the workers.
Join ==
  /\ \/ /\ caller = "stopping" /\ pending = {}
        /\ caller' = "joining" /\ pending' = WorkerIds
        /\ UNCHANGED wpc
     \/ /\ caller = "joining" /\ pending # {} /\ wpc[First(pending)] = "returned"
        /\ wpc' = [wpc EXCEPT ![First(pending)] = "none"]
        /\ pending' = pending \ {First(pending)}
        /\ UNCHANGED caller
  /\ UNCHANGED <<scheduler_running, allocated, running, inits>>

\* delete[] workers_
DeleteWorkers ==
  /\ caller = "joining" /\ pending = {}
  /\ allocated' = FALSE /\ caller' = "idle"
  /\ UNCHANGED <<scheduler_running, running, wpc, pending, inits>>

Worker(w) == LoopTest(w) \/ Look(w) \/ Predicate(w) \/ Block(w) \/ Wake(w)

Caller == StartWorker \/ StopWorker \/ NotifyWorker \/ Join \/ DeleteWorkers

PInit ==
  /\ scheduler_running = FALSE /\ allocated = FALSE
  /\ running = [w \in WorkerIds |-> FALSE] /\ wpc = [w \in WorkerIds |-> "none"]
  /\ caller = "idle" /\ pending = {} /\ inits = 0

\* The bound on the pools is reached.
NoMorePools ==
  /\ caller = "idle" /\ ~scheduler_running /\ inits = MaxInits
  /\ UNCHANGED pvars

PNext ==
  \/ InitCall \/ ShutdownCall \/ Caller \/ NoMorePools
  \/ \E w \in WorkerIds : Worker(w)

PoolSpec == PInit /\ [][PNext]_pvars

\* The threads are scheduled and a wait with a time limit ends; whether the program
\* calls init or shutdown is up to it.
PFairness == WF_pvars(Caller) /\ \A w \in WorkerIds : WF_pvars(Worker(w))

-----------------------------------------------------------------------------
(* Properties. *)

\* No worker reads the array of the workers (its flag, its mutex, the queues it
\* would steal from) after shutdown has deleted it, whatever pool it belongs to.
NoWorkerAfterDelete == ~allocated => \A w \in WorkerIds : wpc[w] = "none"

\* Shutdown returns: running is cleared without the mutex the workers wait under,
\* so the notify may be lost, and it is the limit of 5 ms on the wait that ends it.
ShutdownReturns == caller = "stopping" ~> caller = "idle"
=============================================================================
