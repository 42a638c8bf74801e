------------------------------ MODULE Channel ------------------------------
(***************************************************************************)
(* LivaChannel of the runtime (stdlib/runtime/runtime.cpp): a bounded ring *)
(* buffer guarded by one mutex, with one condition variable for senders    *)
(* (cv_not_full) and one for receivers (cv_not_empty).                     *)
(*                                                                         *)
(* Grain of atomicity.  Everything the code does between taking ch->mtx    *)
(* and releasing it (by unlock, by return, or by blocking in wait) is one  *)
(* step: no other thread can see the fields in between.  The notifications *)
(* are made after the unlock, so each of them is a step of its own, and    *)
(* anything may happen between the two.  A thread blocked in wait leaves   *)
(* it when it is notified, or spuriously, and then tests its predicate     *)
(* again under the mutex: it is back at "send" or "receive".               *)
(***************************************************************************)
EXTENDS Integers, Sequences, FiniteSets

CONSTANTS
  Senders, Receivers, Closers,  \* the threads, by what they call (may overlap)
  RequestedCapacity,            \* the argument of liva_channel_create
  MaxSends,                     \* bound: the sends each sender makes
  Zero                          \* what calloc leaves in a slot never written

Threads == Senders \cup Receivers \cup Closers

\* The values sent are told apart by their sender and their rank.
Item == Senders \X (1..MaxSends)

ASSUME ThreadsAssumption == IsFiniteSet(Threads)
ASSUME CapacityAssumption == RequestedCapacity \in Int
ASSUME SendsAssumption == MaxSends \in Nat
ASSUME ZeroAssumption == Zero \notin Item

\* liva_channel_create takes a capacity of at least one slot.
Capacity == IF RequestedCapacity <= 0 THEN 1 ELSE RequestedCapacity

VARIABLES
  buffer, head, tail, count, closed,  \* the fields of LivaChannel
  freed,                              \* liva_channel_free was called
  pc,                                 \* where each thread is in its call
  sent,                               \* how many sends each sender completed
  closers,                            \* the closers that called close
  accepted, delivered,                \* history: values in, values out
  finished                            \* the receivers that were returned nil

fields == <<buffer, head, tail, count>>
history == <<accepted, delivered>>
vars == <<buffer, head, tail, count, closed, freed, pc, sent, closers,
          accepted, delivered, finished>>

Location == {"idle", "send", "waitNotFull", "notifyNotEmpty",
             "receive", "waitNotEmpty", "notifyNotFull",
             "closeNotFull", "closeNotEmpty"}

At(loc) == {t \in Threads : pc[t] = loc}
Goto(t, loc) == pc' = [pc EXCEPT ![t] = loc]
Succ(i) == (i + 1) % Capacity

Init ==
  /\ buffer = [i \in 0..(Capacity - 1) |-> Zero]
  /\ head = 0
  /\ tail = 0
  /\ count = 0
  /\ closed = FALSE
  /\ freed = FALSE
  /\ pc = [t \in Threads |-> "idle"]
  /\ sent = [t \in Senders |-> 0]
  /\ closers = {}
  /\ accepted = <<>>
  /\ delivered = <<>>
  /\ finished = {}

-----------------------------------------------------------------------------
(* The two critical sections that change the buffer. *)

\* Mutation: a full buffer passes for one with room.
HasRoomOffByOne == count <= Capacity
HasRoom == count < Capacity
HasItem == count > 0

NextItem(t) == <<t, sent[t] + 1>>

Push(t) ==
  /\ buffer' = [buffer EXCEPT ![tail] = NextItem(t)]
  /\ tail' = Succ(tail)
  /\ count' = count + 1
  /\ accepted' = Append(accepted, NextItem(t))
  /\ sent' = [sent EXCEPT ![t] = @ + 1]
  /\ UNCHANGED <<head, delivered>>

Pop ==
  /\ delivered' = Append(delivered, buffer[head])
  /\ head' = Succ(head)
  /\ count' = count - 1
  /\ UNCHANGED <<buffer, tail, accepted>>

\* notify_one: one of the threads blocked at `from`, if any, goes to `to`.
NotifyOne(t, from, to) ==
  IF At(from) = {} THEN Goto(t, "idle")
  ELSE \E w \in At(from) : pc' = [pc EXCEPT ![t] = "idle", ![w] = to]

\* notify_all: all of them do, and the caller goes on at `next`.
NotifyAll(t, from, to, next) ==
  pc' = [u \in Threads |-> IF u = t THEN next
                           ELSE IF pc[u] = from THEN to ELSE pc[u]]

-----------------------------------------------------------------------------
(* liva_channel_send, liva_channel_try_send *)

SendCall(t) ==
  /\ pc[t] = "idle" /\ ~freed
  /\ sent[t] < MaxSends
  /\ Goto(t, "send")
  /\ UNCHANGED <<fields, closed, freed, sent, closers, history, finished>>

SendBlock(t) ==
  /\ pc[t] = "send"
  /\ ~HasRoom /\ ~closed
  /\ Goto(t, "waitNotFull")
  /\ UNCHANGED <<fields, closed, freed, sent, closers, history, finished>>

\* A send on a closed channel returns at once: the value is dropped, room or
\* not, and the caller is not told.
SendDropped(t) ==
  /\ pc[t] = "send"
  /\ closed
  /\ Goto(t, "idle")
  /\ sent' = [sent EXCEPT ![t] = @ + 1]
  /\ UNCHANGED <<fields, closed, freed, closers, history, finished>>

\* Mutation: a receiver is notified only when the buffer stops being empty.
SendPushNotifyOnEdge(t) ==
  /\ pc[t] = "send"
  /\ ~closed /\ HasRoom
  /\ Push(t)
  /\ Goto(t, IF count = 0 THEN "notifyNotEmpty" ELSE "idle")
  /\ UNCHANGED <<closed, freed, closers, finished>>

\* Mutation: the flag is not tested again after the wait.
SendPushIgnoreClosed(t) ==
  /\ pc[t] = "send"
  /\ HasRoom
  /\ Push(t)
  /\ Goto(t, "notifyNotEmpty")
  /\ UNCHANGED <<closed, freed, closers, finished>>

SendPush(t) ==
  /\ pc[t] = "send"
  /\ ~closed /\ HasRoom
  /\ Push(t)
  /\ Goto(t, "notifyNotEmpty")
  /\ UNCHANGED <<closed, freed, closers, finished>>

\* A try_send that finds the channel closed or full returns 0 and changes
\* nothing; the caller keeps the value.
TrySend(t) ==
  /\ pc[t] = "idle" /\ ~freed
  /\ sent[t] < MaxSends
  /\ ~closed /\ HasRoom
  /\ Push(t)
  /\ Goto(t, "notifyNotEmpty")
  /\ UNCHANGED <<closed, freed, closers, finished>>

SendNotify(t) ==
  /\ pc[t] = "notifyNotEmpty"
  /\ NotifyOne(t, "waitNotEmpty", "receive")
  /\ UNCHANGED <<fields, closed, freed, sent, closers, history, finished>>

-----------------------------------------------------------------------------
(* liva_channel_receive, liva_channel_try_receive *)

ReceiveCall(t) ==
  /\ pc[t] = "idle" /\ ~freed
  /\ t \notin finished
  /\ Goto(t, "receive")
  /\ UNCHANGED <<fields, closed, freed, sent, closers, history, finished>>

ReceiveBlock(t) ==
  /\ pc[t] = "receive"
  /\ ~HasItem /\ ~closed
  /\ Goto(t, "waitNotEmpty")
  /\ UNCHANGED <<fields, closed, freed, sent, closers, history, finished>>

ReceivePop(t) ==
  /\ pc[t] = "receive"
  /\ HasItem
  /\ Pop
  /\ Goto(t, "notifyNotFull")
  /\ UNCHANGED <<closed, freed, sent, closers, finished>>

\* Mutation: a closed channel yields nil although values are left.
ReceiveNilEarly(t) ==
  /\ pc[t] = "receive"
  /\ closed
  /\ finished' = finished \cup {t}
  /\ Goto(t, "idle")
  /\ UNCHANGED <<fields, closed, freed, sent, closers, history>>

\* Nothing left and closed: *ok = 0, which the compiled code turns into nil.
ReceiveNil(t) ==
  /\ pc[t] = "receive"
  /\ ~HasItem /\ closed
  /\ finished' = finished \cup {t}
  /\ Goto(t, "idle")
  /\ UNCHANGED <<fields, closed, freed, sent, closers, history>>

\* A try_receive that finds nothing sets *ok = 0 and changes nothing.
TryReceive(t) ==
  /\ pc[t] = "idle" /\ ~freed
  /\ t \notin finished
  /\ HasItem
  /\ Pop
  /\ Goto(t, "notifyNotFull")
  /\ UNCHANGED <<closed, freed, sent, closers, finished>>

ReceiveNotify(t) ==
  /\ pc[t] = "notifyNotFull"
  /\ NotifyOne(t, "waitNotFull", "send")
  /\ UNCHANGED <<fields, closed, freed, sent, closers, history, finished>>

-----------------------------------------------------------------------------
(* liva_channel_close, liva_channel_free *)

Close(t) ==
  /\ pc[t] = "idle" /\ ~freed
  /\ t \notin closers
  /\ closed' = TRUE
  /\ closers' = closers \cup {t}
  /\ Goto(t, "closeNotFull")
  /\ UNCHANGED <<fields, freed, sent, history, finished>>

\* Mutation: the receivers are forgotten.
CloseNotifySendersOnly(t) ==
  /\ pc[t] = "closeNotFull"
  /\ NotifyAll(t, "waitNotFull", "send", "idle")
  /\ UNCHANGED <<fields, closed, freed, sent, closers, history, finished>>

CloseNotifySenders(t) ==
  /\ pc[t] = "closeNotFull"
  /\ NotifyAll(t, "waitNotFull", "send", "closeNotEmpty")
  /\ UNCHANGED <<fields, closed, freed, sent, closers, history, finished>>

CloseNotifyReceivers(t) ==
  /\ pc[t] = "closeNotEmpty"
  /\ NotifyAll(t, "waitNotEmpty", "receive", "idle")
  /\ UNCHANGED <<fields, closed, freed, sent, closers, history, finished>>

\* Neither call takes a lock on behalf of the others, so the owner frees the
\* channel (withChannel: when its body has returned) after every thread has
\* made its last call and that call has returned.
Free ==
  /\ ~freed
  /\ At("idle") = Threads
  /\ \A t \in Senders : sent[t] = MaxSends
  /\ Receivers \subseteq finished
  /\ Closers \subseteq closers
  /\ freed' = TRUE
  /\ UNCHANGED <<fields, closed, pc, sent, closers, history, finished>>

-----------------------------------------------------------------------------
\* std::condition_variable may wake a thread that nobody notified.
SpuriousWakeup(t) ==
  /\ \/ pc[t] = "waitNotFull" /\ Goto(t, "send")
     \/ pc[t] = "waitNotEmpty" /\ Goto(t, "receive")
  /\ UNCHANGED <<fields, closed, freed, sent, closers, history, finished>>

SenderStep(t) ==
  \/ SendCall(t) \/ SendBlock(t) \/ SendDropped(t) \/ SendPush(t)
  \/ TrySend(t) \/ SendNotify(t)

ReceiverStep(t) ==
  \/ ReceiveCall(t) \/ ReceiveBlock(t) \/ ReceivePop(t) \/ ReceiveNil(t)
  \/ TryReceive(t) \/ ReceiveNotify(t)

CloserStep(t) ==
  \/ Close(t) \/ CloseNotifySenders(t) \/ CloseNotifyReceivers(t)

\* The program has ended: the channel is gone and no thread calls it again.
Ended == freed /\ UNCHANGED vars

Next ==
  \/ \E t \in Senders : SenderStep(t)
  \/ \E t \in Receivers : ReceiverStep(t)
  \/ \E t \in Closers : CloserStep(t)
  \/ \E t \in Threads : SpuriousWakeup(t)
  \/ Free
  \/ Ended

Spec == Init /\ [][Next]_vars

\* The operating system runs every thread that can run.  Nothing is assumed
\* of the order in which threads get the mutex, of the choice notify_one
\* makes, or of spurious wakeups.
Fairness ==
  /\ \A t \in Senders : WF_vars(SenderStep(t))
  /\ \A t \in Receivers : WF_vars(ReceiverStep(t))
  /\ \A t \in Closers : WF_vars(CloserStep(t))
  /\ WF_vars(Free)

FairSpec == Spec /\ Fairness

-----------------------------------------------------------------------------
(* Properties *)

\* Every variable has its type.
TypeOK ==
  /\ buffer \in [0..(Capacity - 1) -> Item \cup {Zero}]
  /\ head \in 0..(Capacity - 1)
  /\ tail \in 0..(Capacity - 1)
  /\ count \in 0..Capacity
  /\ closed \in BOOLEAN
  /\ freed \in BOOLEAN
  /\ pc \in [Threads -> Location]
  /\ sent \in [Senders -> 0..MaxSends]
  /\ closers \subseteq Closers
  /\ accepted \in Seq(Item)
  /\ delivered \in Seq(Item)
  /\ finished \subseteq Receivers

\* The slot of the i-th oldest value in the buffer, counting from 0, and the
\* values in the buffer, oldest first.
Slot(i) == (head + i) % Capacity
Contents == [i \in 1..count |-> buffer[Slot(i - 1)]]

\* Exactly once and in order, whatever the interleaving: the values the ring
\* buffer took in are those it handed out followed by those it still holds,
\* and it never overwrote or skipped a slot.
FifoExactlyOnce == accepted = delivered \o Contents

\* No lost wakeup.  A receiver that is blocked while k values are in the
\* buffer can rely on k threads that will either wake a receiver or take a
\* value themselves; a blocked sender likewise on as many threads as there
\* are free slots.  The code notifies one thread per value, after the unlock,
\* without looking at who waits.
WakersOfReceivers == At("notifyNotEmpty") \cup At("receive")
WakersOfSenders == At("notifyNotFull") \cup At("send")

NoLostWakeup ==
  /\ At("waitNotEmpty") # {} => count <= Cardinality(WakersOfReceivers)
  /\ At("waitNotFull") # {} =>
       closed \/ Capacity - count <= Cardinality(WakersOfSenders)

\* Close sets the flag, releases the mutex and only then notifies, the senders
\* first: a thread still blocked on a closed channel is owed that call.
CloseReleasesWaiters ==
  closed =>
    /\ At("waitNotFull") # {} => At("closeNotFull") # {}
    /\ At("waitNotEmpty") # {} => At("closeNotFull") \cup At("closeNotEmpty") # {}

\* nil is the end of the stream for everybody: once one receiver was told so,
\* every accepted value has been delivered and no value will ever be accepted.
NilIsFinal ==
  finished # {} => closed /\ Len(delivered) = Len(accepted)

\* The channel implements the bounded queue that can be closed.
Fifo == INSTANCE BoundedFifo WITH
  Value <- Item, Reader <- Receivers, queue <- Contents,
  open <- ~closed, taken <- delivered, ended <- finished

FifoSpec == Fifo!Spec

\* Every program whose threads make finitely many calls and close the channel
\* comes to its end: no call blocks for ever, and the channel is freed.
Termination == <>freed
=============================================================================
