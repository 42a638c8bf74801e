--------------------------- MODULE ChannelProofs ---------------------------
(***************************************************************************)
(* Proofs about Channel, for any finite sets of threads, any capacity and  *)
(* any number of sends.                                                    *)
(***************************************************************************)
EXTENDS Channel, TLAPS, FiniteSetTheorems, SequenceTheorems

-----------------------------------------------------------------------------
(* The capacity and the indices of the ring. *)

\* The channel created for any requested capacity has at least one slot.
LEMMA CapacityPos == Capacity \in Nat \ {0}
BY CapacityAssumption DEF Capacity

\* Advancing an index wraps around at the capacity and nowhere else.
LEMMA SuccStep ==
  ASSUME NEW i \in 0..(Capacity - 1)
  PROVE  Succ(i) = (IF i + 1 = Capacity THEN 0 ELSE i + 1)
<1> DEFINE c == Capacity
<1>1. c \in Nat \ {0}
  BY CapacityPos
<1>2. \A k \in 0..(c - 1) : (k + 1) % c = (IF k + 1 = c THEN 0 ELSE k + 1)
  <2> HIDE DEF c
  <2> QED BY <1>1
<1> QED BY <1>2 DEF Succ

-----------------------------------------------------------------------------
(* The inductive invariant.  Type correctness is not inductive by itself:   *)
(* that a value read from the buffer is a value somebody sent, and not what *)
(* calloc left there, needs the relation between the ring and the history;  *)
(* that a send stays within its bound needs to know where the senders are.  *)

\* The slot k places after the head, without the modulo.
SlotAt(k) == IF head + k < Capacity THEN head + k ELSE head + k - Capacity

\* The ring holds the accepted values that were not delivered yet.
RingInv ==
  /\ tail = SlotAt(count)
  /\ Len(accepted) = Len(delivered) + count
  /\ \A i \in 1..Len(delivered) : delivered[i] = accepted[i]
  /\ \A k \in 0..(count - 1) :
       buffer[SlotAt(k)] = accepted[Len(delivered) + 1 + k]

\* A sender inside a call has not used up its sends.
SendsLeft ==
  \A t \in Senders : pc[t] \in {"send", "waitNotFull"} => sent[t] < MaxSends

IInv == TypeOK /\ RingInv /\ SendsLeft

LEMMA IInvInit == Init => IInv
<1> SUFFICES ASSUME Init PROVE IInv
  OBVIOUS
<1> USE CapacityPos, SendsAssumption DEF Init
<1>1. buffer \in [0..(Capacity - 1) -> Item \cup {Zero}]
  OBVIOUS
<1>2. /\ head \in 0..(Capacity - 1) /\ tail \in 0..(Capacity - 1)
      /\ count \in 0..Capacity
  OBVIOUS
<1>3. pc \in [Threads -> Location]
  BY DEF Location
<1>4. sent \in [Senders -> 0..MaxSends]
  OBVIOUS
<1>5. accepted \in Seq(Item) /\ delivered \in Seq(Item)
  OBVIOUS
<1>6. closers \subseteq Closers /\ finished \subseteq Receivers
  OBVIOUS
<1>7. TypeOK
  BY <1>1, <1>2, <1>3, <1>4, <1>5, <1>6 DEF TypeOK
<1>8. RingInv
  BY DEF RingInv, SlotAt
<1>9. SendsLeft
  BY DEF SendsLeft, Threads
<1> QED BY <1>7, <1>8, <1>9 DEF IInv

\* Every way a step moves threads keeps every thread at a location.
LEMMA GotoType ==
  ASSUME TypeOK, NEW t, NEW loc \in Location, Goto(t, loc)
  PROVE  pc' \in [Threads -> Location]
BY DEF TypeOK, Goto

LEMMA NotifyType ==
  ASSUME TypeOK, NEW t, NEW from, NEW to \in Location, NEW next \in Location,
         NotifyOne(t, from, to) \/ NotifyAll(t, from, to, next)
  PROVE  pc' \in [Threads -> Location]
BY DEF TypeOK, NotifyOne, NotifyAll, Goto, Location

\* Pushing into a buffer with room.
LEMMA PushStep ==
  ASSUME IInv, NEW t \in Senders, sent[t] < MaxSends, HasRoom, Push(t)
  PROVE  /\ buffer' \in [0..(Capacity - 1) -> Item \cup {Zero}]
         /\ head' \in 0..(Capacity - 1) /\ tail' \in 0..(Capacity - 1)
         /\ count' \in 0..Capacity
         /\ sent' \in [Senders -> 0..MaxSends]
         /\ accepted' \in Seq(Item) /\ delivered' \in Seq(Item)
         /\ RingInv'
<1> USE CapacityPos, SendsAssumption DEF IInv, TypeOK
<1>1. NextItem(t) \in Item
  BY DEF NextItem, Item
<1>2. buffer' \in [0..(Capacity - 1) -> Item \cup {Zero}]
  BY <1>1 DEF Push
<1>3. head' \in 0..(Capacity - 1) /\ delivered' \in Seq(Item)
  BY DEF Push
<1>4. tail' = (IF tail + 1 = Capacity THEN 0 ELSE tail + 1)
  BY SuccStep DEF Push
<1>5. count' \in 0..Capacity
  BY DEF Push, HasRoom
<1>6. sent' \in [Senders -> 0..MaxSends]
  BY DEF Push
<1>7. accepted' \in Seq(Item)
  BY <1>1 DEF Push
<1>8. RingInv'
  <2>1. tail' = SlotAt(count)'
    BY <1>4 DEF RingInv, SlotAt, Push, HasRoom
  <2>2. Len(accepted') = Len(delivered') + count'
    BY SMTT(60), <1>1 DEF RingInv, Push
  <2>3. \A i \in 1..Len(delivered') : delivered'[i] = accepted'[i]
    BY <1>1 DEF RingInv, Push
  <2>4. ASSUME NEW k \in 0..(count' - 1)
        PROVE  buffer'[SlotAt(k)'] = accepted'[Len(delivered') + 1 + k]
    <3>1. CASE k = count
      <4>1. SlotAt(k)' = tail
        BY <3>1 DEF RingInv, Push, SlotAt
      <4>2. Len(delivered') + 1 + k = Len(accepted) + 1
        BY <3>1 DEF RingInv, Push
      <4>3. accepted'[Len(accepted) + 1] = NextItem(t)
        BY <1>1 DEF Push
      <4>4. buffer'[tail] = NextItem(t)
        BY DEF Push
      <4> QED BY <4>1, <4>2, <4>3, <4>4
    <3>2. CASE k < count
      <4>1. k \in 0..(count - 1)
        BY <3>2
      <4>2. SlotAt(k) \in 0..(Capacity - 1) /\ SlotAt(k) # tail
        BY <4>1 DEF SlotAt, RingInv, HasRoom
      <4>3. SlotAt(k)' = SlotAt(k) /\ buffer'[SlotAt(k)] = buffer[SlotAt(k)]
        BY <4>2 DEF Push, SlotAt
      <4>4. accepted'[Len(delivered) + 1 + k] = accepted[Len(delivered) + 1 + k]
        BY SMTT(60), <1>1, <4>1 DEF Push, RingInv
      <4> QED BY <4>1, <4>3, <4>4 DEF RingInv, Push
    <3>3. k = count \/ k < count
      BY <1>5 DEF Push
    <3> QED BY <3>1, <3>2, <3>3
  <2> QED BY <2>1, <2>2, <2>3, <2>4 DEF RingInv
<1> QED BY <1>2, <1>3, <1>4, <1>5, <1>6, <1>7, <1>8

\* Popping from a buffer with an item.
LEMMA PopStep ==
  ASSUME IInv, HasItem, Pop
  PROVE  /\ buffer' \in [0..(Capacity - 1) -> Item \cup {Zero}]
         /\ head' \in 0..(Capacity - 1) /\ tail' \in 0..(Capacity - 1)
         /\ count' \in 0..Capacity
         /\ accepted' \in Seq(Item) /\ delivered' \in Seq(Item)
         /\ RingInv'
<1> USE CapacityPos DEF IInv, TypeOK
<1>1. buffer[head] = accepted[Len(delivered) + 1] /\ buffer[head] \in Item
  <2>1. 0 \in 0..(count - 1) /\ SlotAt(0) = head
    BY DEF HasItem, SlotAt
  <2>2. buffer[head] = accepted[Len(delivered) + 1 + 0]
    BY <2>1 DEF RingInv
  <2>3. Len(delivered) + 1 \in 1..Len(accepted)
    BY DEF RingInv, HasItem
  <2> QED BY <2>2, <2>3
<1>2. head' = (IF head + 1 = Capacity THEN 0 ELSE head + 1)
  BY SuccStep DEF Pop
<1>3. count' \in 0..Capacity
  <2>1. count' = count - 1 /\ count > 0
    BY DEF Pop, HasItem
  <2> QED BY <2>1
<1>4. delivered' \in Seq(Item)
  BY <1>1 DEF Pop
<1>5. RingInv'
  <2>1. tail' = SlotAt(count)'
    BY <1>2 DEF RingInv, SlotAt, Pop, HasItem
  <2>2. Len(accepted') = Len(delivered') + count'
    <3>1. Len(delivered') = Len(delivered) + 1
      BY <1>1 DEF Pop
    <3>2. Len(accepted') = Len(accepted) /\ count' = count - 1
      BY DEF Pop
    <3>3. Len(accepted) = Len(delivered) + count
      BY DEF RingInv
    <3>4. Len(delivered) \in Nat /\ count \in Nat
      OBVIOUS
    <3> HIDE DEF TypeOK, IInv
    <3> QED BY <3>1, <3>2, <3>3, <3>4
  <2>3. ASSUME NEW i \in 1..Len(delivered') PROVE delivered'[i] = accepted'[i]
    <3>1. /\ Len(delivered') = Len(delivered) + 1
          /\ delivered'[Len(delivered) + 1] = buffer[head]
          /\ \A j \in 1..Len(delivered) : delivered'[j] = delivered[j]
      BY <1>1 DEF Pop
    <3>2. i \in 1..Len(delivered) \/ i = Len(delivered) + 1
      BY <3>1
    <3> QED BY <1>1, <3>1, <3>2 DEF RingInv, Pop
  <2>4. ASSUME NEW k \in 0..(count' - 1)
        PROVE  buffer'[SlotAt(k)'] = accepted'[Len(delivered') + 1 + k]
    <3>1. k + 1 \in 0..(count - 1) /\ SlotAt(k)' = SlotAt(k + 1)
      BY <1>2 DEF Pop, HasItem, SlotAt
    <3>2. buffer[SlotAt(k + 1)] = accepted[Len(delivered) + 1 + (k + 1)]
      BY <3>1 DEF RingInv
    <3>3. Len(delivered') = Len(delivered) + 1
      BY <1>1 DEF Pop
    <3> QED BY <3>1, <3>2, <3>3 DEF Pop
  <2> QED BY <2>1, <2>2, <2>3, <2>4 DEF RingInv
<1> QED BY <1>1, <1>2, <1>3, <1>4, <1>5 DEF Pop


\* A step that leaves the fields of the ring and the history alone.
LEMMA FrameStep ==
  ASSUME IInv, UNCHANGED <<fields, history>>
  PROVE  RingInv'
BY DEF IInv, RingInv, SlotAt, fields, history

\* Moving threads keeps SendsLeft when no sender's count changes: a thread is
\* notified into "send" only out of "waitNotFull".
LEMMA NotifySendsLeft ==
  ASSUME IInv, NEW t, NEW next \in {"idle", "closeNotEmpty"}, UNCHANGED sent,
         \/ NotifyOne(t, "waitNotFull", "send")
         \/ NotifyOne(t, "waitNotEmpty", "receive")
         \/ NotifyAll(t, "waitNotFull", "send", next)
         \/ NotifyAll(t, "waitNotEmpty", "receive", next)
  PROVE  SendsLeft'
BY DEF IInv, TypeOK, SendsLeft, NotifyOne, NotifyAll, Goto, At, Threads

LEMMA IInvNext == IInv /\ [Next]_vars => IInv'
<1> SUFFICES ASSUME IInv, [Next]_vars PROVE IInv'
  OBVIOUS
<1> USE SendsAssumption DEF Threads
<1>1. ASSUME NEW t \in Senders, SenderStep(t) PROVE IInv'
  <2>1. CASE SendCall(t)
    <3>1. pc' \in [Threads -> Location]
      BY <2>1, GotoType DEF SendCall, Location, IInv
    <3>2. SendsLeft'
      BY <2>1 DEF SendCall, SendsLeft, IInv, TypeOK, Goto
    <3> QED BY <2>1, <3>1, <3>2, FrameStep
            DEF SendCall, IInv, TypeOK, fields, history
  <2>2. CASE SendBlock(t)
    <3>1. pc' \in [Threads -> Location]
      BY <2>2, GotoType DEF SendBlock, Location, IInv
    <3>2. SendsLeft'
      BY <2>2 DEF SendBlock, SendsLeft, IInv, TypeOK, Goto
    <3> QED BY <2>2, <3>1, <3>2, FrameStep
            DEF SendBlock, IInv, TypeOK, fields, history
  <2>3. CASE SendDropped(t)
    <3>1. pc' \in [Threads -> Location]
      BY <2>3, GotoType DEF SendDropped, Location, IInv
    <3>2. SendsLeft' /\ sent' \in [Senders -> 0..MaxSends]
      BY <2>3 DEF SendDropped, SendsLeft, IInv, TypeOK, Goto
    <3> QED BY <2>3, <3>1, <3>2, FrameStep
            DEF SendDropped, IInv, TypeOK, fields, history
  <2>4. CASE SendPush(t)
    <3>1. pc' \in [Threads -> Location]
      BY <2>4, GotoType DEF SendPush, Location, IInv
    <3>2. sent[t] < MaxSends
      BY <2>4 DEF SendPush, SendsLeft, IInv
    <3>3. SendsLeft'
      BY <2>4 DEF SendPush, Push, SendsLeft, IInv, TypeOK, Goto
    <3> QED BY <2>4, <3>1, <3>2, <3>3, PushStep
            DEF SendPush, IInv, TypeOK
  <2>5. CASE TrySend(t)
    <3>1. pc' \in [Threads -> Location]
      BY <2>5, GotoType DEF TrySend, Location, IInv
    <3>2. SendsLeft'
      BY <2>5 DEF TrySend, Push, SendsLeft, IInv, TypeOK, Goto
    <3> QED BY <2>5, <3>1, <3>2, PushStep
            DEF TrySend, IInv, TypeOK
  <2>6. CASE SendNotify(t)
    <3>1. pc' \in [Threads -> Location]
      BY <2>6, NotifyType DEF SendNotify, Location, IInv
    <3>2. SendsLeft'
      BY <2>6, NotifySendsLeft DEF SendNotify
    <3> QED BY <2>6, <3>1, <3>2, FrameStep
            DEF SendNotify, IInv, TypeOK, fields, history
  <2> QED BY <1>1, <2>1, <2>2, <2>3, <2>4, <2>5, <2>6 DEF SenderStep
<1>2. ASSUME NEW t \in Receivers, ReceiverStep(t) PROVE IInv'
  <2>1. CASE ReceiveCall(t)
    <3>1. pc' \in [Threads -> Location]
      BY <2>1, GotoType DEF ReceiveCall, Location, IInv
    <3>2. SendsLeft'
      BY <2>1 DEF ReceiveCall, SendsLeft, IInv, TypeOK, Goto
    <3> QED BY <2>1, <3>1, <3>2, FrameStep
            DEF ReceiveCall, IInv, TypeOK, fields, history
  <2>2. CASE ReceiveBlock(t)
    <3>1. pc' \in [Threads -> Location]
      BY <2>2, GotoType DEF ReceiveBlock, Location, IInv
    <3>2. SendsLeft'
      BY <2>2 DEF ReceiveBlock, SendsLeft, IInv, TypeOK, Goto
    <3> QED BY <2>2, <3>1, <3>2, FrameStep
            DEF ReceiveBlock, IInv, TypeOK, fields, history
  <2>3. CASE ReceivePop(t)
    <3>1. pc' \in [Threads -> Location]
      BY <2>3, GotoType DEF ReceivePop, Location, IInv
    <3>2. SendsLeft'
      BY <2>3 DEF ReceivePop, SendsLeft, IInv, TypeOK, Goto
    <3> QED BY <2>3, <3>1, <3>2, PopStep
            DEF ReceivePop, IInv, TypeOK
  <2>4. CASE ReceiveNil(t)
    <3>1. pc' \in [Threads -> Location]
      BY <2>4, GotoType DEF ReceiveNil, Location, IInv
    <3>2. SendsLeft'
      BY <2>4 DEF ReceiveNil, SendsLeft, IInv, TypeOK, Goto
    <3> QED BY <2>4, <3>1, <3>2, FrameStep
            DEF ReceiveNil, IInv, TypeOK, fields, history
  <2>5. CASE TryReceive(t)
    <3>1. pc' \in [Threads -> Location]
      BY <2>5, GotoType DEF TryReceive, Location, IInv
    <3>2. SendsLeft'
      BY <2>5 DEF TryReceive, SendsLeft, IInv, TypeOK, Goto
    <3> QED BY <2>5, <3>1, <3>2, PopStep
            DEF TryReceive, IInv, TypeOK
  <2>6. CASE ReceiveNotify(t)
    <3>1. pc' \in [Threads -> Location]
      BY <2>6, NotifyType DEF ReceiveNotify, Location, IInv
    <3>2. SendsLeft'
      BY <2>6, NotifySendsLeft DEF ReceiveNotify
    <3> QED BY <2>6, <3>1, <3>2, FrameStep
            DEF ReceiveNotify, IInv, TypeOK, fields, history
  <2> QED BY <1>2, <2>1, <2>2, <2>3, <2>4, <2>5, <2>6 DEF ReceiverStep
<1>3. ASSUME NEW t \in Closers, CloserStep(t) PROVE IInv'
  <2>1. CASE Close(t)
    <3>1. pc' \in [Threads -> Location]
      BY <2>1, GotoType DEF Close, Location, IInv
    <3>2. SendsLeft'
      BY <2>1 DEF Close, SendsLeft, IInv, TypeOK, Goto
    <3> QED BY <2>1, <3>1, <3>2, FrameStep
            DEF Close, IInv, TypeOK, fields, history
  <2>2. CASE CloseNotifySenders(t)
    <3>1. pc' \in [Threads -> Location]
      BY <2>2, NotifyType DEF CloseNotifySenders, Location, IInv
    <3>2. SendsLeft'
      BY <2>2, NotifySendsLeft DEF CloseNotifySenders
    <3> QED BY <2>2, <3>1, <3>2, FrameStep
            DEF CloseNotifySenders, IInv, TypeOK, fields, history
  <2>3. CASE CloseNotifyReceivers(t)
    <3>1. pc' \in [Threads -> Location]
      BY <2>3, NotifyType DEF CloseNotifyReceivers, Location, IInv
    <3>2. SendsLeft'
      BY <2>3, NotifySendsLeft DEF CloseNotifyReceivers
    <3> QED BY <2>3, <3>1, <3>2, FrameStep
            DEF CloseNotifyReceivers, IInv, TypeOK, fields, history
  <2> QED BY <1>3, <2>1, <2>2, <2>3 DEF CloserStep
<1>4. ASSUME NEW t \in Threads, SpuriousWakeup(t) PROVE IInv'
  <2>1. pc' \in [Threads -> Location]
    BY <1>4, GotoType DEF SpuriousWakeup, Location, IInv
  <2>2. SendsLeft'
    BY <1>4 DEF SpuriousWakeup, SendsLeft, IInv, TypeOK, Goto
  <2> QED BY <1>4, <2>1, <2>2, FrameStep
          DEF SpuriousWakeup, IInv, TypeOK, fields, history
<1>5. CASE Free
  BY <1>5, FrameStep DEF Free, IInv, TypeOK, SendsLeft, fields, history
<1>6. CASE UNCHANGED vars
  BY <1>6, FrameStep DEF vars, IInv, TypeOK, SendsLeft, fields, history
<1> QED BY <1>1, <1>2, <1>3, <1>4, <1>5, <1>6 DEF Next, Ended

\* Every variable has its type in every reachable state.
THEOREM TypeCorrect == Spec => []TypeOK
<1>1. Init => IInv
  BY IInvInit
<1>2. IInv /\ [Next]_vars => IInv'
  BY IInvNext
<1>3. IInv => TypeOK
  BY DEF IInv
<1> QED BY <1>1, <1>2, <1>3, PTL DEF Spec


-----------------------------------------------------------------------------
(* First in, first out, exactly once. *)

\* Where the head stands, a slot within the ring is computed without modulo.
LEMMA SlotValue ==
  ASSUME TypeOK, NEW k \in 0..(Capacity - 1)
  PROVE  Slot(k) = SlotAt(k)
<1> DEFINE c == Capacity
<1>1. c \in Nat \ {0}
  BY CapacityPos
<1>2. \A h, i \in 0..(c - 1) :
        (h + i) % c = (IF h + i < c THEN h + i ELSE h + i - c)
  <2> HIDE DEF c
  <2> QED BY <1>1
<1> QED BY <1>2 DEF Slot, SlotAt, TypeOK

\* The values in the buffer, as a sequence.
ContentsOK ==
  /\ Contents \in Seq(Item)
  /\ Len(Contents) = count
  /\ \A i \in 1..count : Contents[i] = accepted[Len(delivered) + i]

LEMMA ContentsSeq == IInv => ContentsOK
<1> SUFFICES ASSUME IInv PROVE ContentsOK
  OBVIOUS
<1> USE DEF IInv, TypeOK
<1>1. ASSUME NEW i \in 1..count
      PROVE  Contents[i] = accepted[Len(delivered) + i] /\ Contents[i] \in Item
  <2>1. i - 1 \in 0..(count - 1) /\ i - 1 \in 0..(Capacity - 1)
    BY CapacityPos
  <2>2. Contents[i] = buffer[SlotAt(i - 1)]
    BY <2>1, SlotValue DEF Contents
  <2>3. buffer[SlotAt(i - 1)] = accepted[Len(delivered) + 1 + (i - 1)]
    BY <2>1 DEF RingInv
  <2>4. Len(delivered) + i \in 1..Len(accepted)
    BY DEF RingInv
  <2>5. accepted[Len(delivered) + i] \in Item
    BY <2>4
  <2> QED BY <2>2, <2>3, <2>5
<1>2. Contents \in [1..count -> Item]
  BY <1>1 DEF Contents
<1>3. Contents \in Seq(Item) /\ Len(Contents) = count
  BY <1>2
<1> QED BY <1>1, <1>3 DEF ContentsOK

LEMMA FifoFromIInv == IInv => FifoExactlyOnce
<1> SUFFICES ASSUME IInv PROVE accepted = delivered \o Contents
  BY DEF FifoExactlyOnce
<1> USE DEF IInv, TypeOK
<1>1. \A i \in 1..count : Contents[i] = accepted[Len(delivered) + i]
  BY ContentsSeq DEF ContentsOK
<1>2. Contents \in Seq(Item) /\ Len(Contents) = count
  BY ContentsSeq DEF ContentsOK
<1>3. Len(accepted) = Len(delivered \o Contents)
  <2>1. Len(delivered \o Contents) = Len(delivered) + Len(Contents)
    BY <1>2, ConcatProperties
  <2>2. Len(accepted) = Len(delivered) + count
    BY DEF RingInv
  <2> QED BY <2>1, <2>2, <1>2
<1>4. ASSUME NEW i \in 1..Len(accepted)
      PROVE  accepted[i] = (delivered \o Contents)[i]
  <2>1. CASE i \in 1..Len(delivered)
    BY <2>1, <1>2 DEF RingInv
  <2>2. CASE i \notin 1..Len(delivered)
    <3>1. i - Len(delivered) \in 1..count
      BY <2>2 DEF RingInv
    <3>2. (delivered \o Contents)[i] = Contents[i - Len(delivered)]
      BY <1>2, <2>2, <3>1
    <3>3. Contents[i - Len(delivered)] = accepted[Len(delivered) + (i - Len(delivered))]
      BY <3>1, <1>1
    <3> QED BY <3>2, <3>3
  <2> QED BY <2>1, <2>2
<1>5. accepted \in Seq(Item) /\ delivered \o Contents \in Seq(Item)
  BY <1>2
<1> QED BY SMTT(60), <1>3, <1>4, <1>5

\* The values taken in are the values handed out followed by those in the
\* buffer, in the same order, for any number of threads and any capacity.
THEOREM FifoCorrect == Spec => []FifoExactlyOnce
<1>1. Init => IInv
  BY IInvInit
<1>2. IInv /\ [Next]_vars => IInv'
  BY IInvNext
<1>3. IInv => FifoExactlyOnce
  BY FifoFromIInv
<1> QED BY <1>1, <1>2, <1>3, PTL DEF Spec


-----------------------------------------------------------------------------
(* Closing: nobody is left blocked, and nil is final. *)

LEMMA CloseNext ==
  IInv /\ CloseReleasesWaiters /\ [Next]_vars => CloseReleasesWaiters'
<1> SUFFICES ASSUME IInv, CloseReleasesWaiters, [Next]_vars
             PROVE  CloseReleasesWaiters'
  OBVIOUS
<1> USE DEF IInv, TypeOK, CloseReleasesWaiters, At, Threads
<1>1. ASSUME NEW t \in Senders, SenderStep(t) PROVE CloseReleasesWaiters'
  <2>1. CASE SendNotify(t)
    BY SMTT(60), <2>1 DEF SendNotify, NotifyOne, Goto
  <2>2. CASE ~SendNotify(t)
    BY ZenonT(90), <1>1, <2>2 DEF SenderStep, SendCall, SendBlock, SendDropped, SendPush,
                      TrySend, Goto
  <2> QED BY <2>1, <2>2
<1>2. ASSUME NEW t \in Receivers, ReceiverStep(t) PROVE CloseReleasesWaiters'
  <2>1. CASE ReceiveNotify(t)
    BY <2>1 DEF ReceiveNotify, NotifyOne, Goto
  <2>2. CASE ~ReceiveNotify(t)
    BY ZenonT(90), <1>2, <2>2 DEF ReceiverStep, ReceiveCall, ReceiveBlock, ReceivePop,
                      ReceiveNil, TryReceive, Goto
  <2> QED BY <2>1, <2>2
<1>3. ASSUME NEW t \in Closers, CloserStep(t) PROVE CloseReleasesWaiters'
  <2>1. CASE Close(t)
    BY <2>1 DEF Close, Goto
  <2>2. CASE CloseNotifySenders(t)
    BY <2>2 DEF CloseNotifySenders, NotifyAll
  <2>3. CASE CloseNotifyReceivers(t)
    BY <2>3 DEF CloseNotifyReceivers, NotifyAll
  <2> QED BY <1>3, <2>1, <2>2, <2>3 DEF CloserStep
<1>4. ASSUME NEW t \in Threads, SpuriousWakeup(t) PROVE CloseReleasesWaiters'
  BY <1>4 DEF SpuriousWakeup, Goto
<1>5. CASE Free \/ UNCHANGED vars
  BY <1>5 DEF Free, vars
<1> QED BY <1>1, <1>2, <1>3, <1>4, <1>5 DEF Next, Ended

\* After a close, a thread still blocked in send or receive is owed one of the
\* two notify_all calls of a close that has not returned yet.
THEOREM CloseReleases == Spec => []CloseReleasesWaiters
<1>1. Init => CloseReleasesWaiters
  BY DEF Init, CloseReleasesWaiters
<1>2. Init => IInv
  BY IInvInit
<1>3. IInv /\ [Next]_vars => IInv'
  BY IInvNext
<1>4. IInv /\ CloseReleasesWaiters /\ [Next]_vars => CloseReleasesWaiters'
  BY CloseNext
<1> QED BY <1>1, <1>2, <1>3, <1>4, PTL DEF Spec

\* What makes nil final: it is returned from an empty and closed channel, and
\* such a channel stays empty and closed.
NilInv == finished # {} => closed /\ count = 0

LEMMA NilNext == IInv /\ NilInv /\ [Next]_vars => NilInv'
<1> SUFFICES ASSUME IInv, NilInv, [Next]_vars PROVE NilInv'
  OBVIOUS
<1> USE DEF IInv, TypeOK, NilInv, fields
<1>1. ASSUME NEW t \in Senders, SenderStep(t) PROVE NilInv'
  BY <1>1 DEF SenderStep, SendCall, SendBlock, SendDropped, SendPush, TrySend,
              SendNotify
<1>2. ASSUME NEW t \in Receivers, ReceiverStep(t) PROVE NilInv'
  BY <1>2 DEF ReceiverStep, ReceiveCall, ReceiveBlock, ReceivePop, ReceiveNil,
              TryReceive, ReceiveNotify, HasItem
<1>3. ASSUME NEW t \in Closers, CloserStep(t) PROVE NilInv'
  BY <1>3 DEF CloserStep, Close, CloseNotifySenders, CloseNotifyReceivers
<1>4. ASSUME NEW t \in Threads, SpuriousWakeup(t) PROVE NilInv'
  BY <1>4 DEF SpuriousWakeup
<1>5. CASE Free \/ UNCHANGED vars
  BY <1>5 DEF Free, vars
<1> QED BY <1>1, <1>2, <1>3, <1>4, <1>5 DEF Next, Ended

\* Once a receiver was returned nil, everything accepted has been delivered.
THEOREM NilFinal == Spec => []NilIsFinal
<1>1. Init => NilInv
  BY DEF Init, NilInv
<1>2. Init => IInv
  BY IInvInit
<1>3. IInv /\ [Next]_vars => IInv'
  BY IInvNext
<1>4. IInv /\ NilInv /\ [Next]_vars => NilInv'
  BY NilNext
<1>5. IInv /\ NilInv => NilIsFinal
  BY DEF IInv, TypeOK, RingInv, NilInv, NilIsFinal
<1> QED BY <1>1, <1>2, <1>3, <1>4, <1>5, PTL DEF Spec


-----------------------------------------------------------------------------
(* No lost wakeup.  Each half of the invariant compares the number of items *)
(* (of free slots) with the number of threads at two locations; what a step *)
(* does to the latter is counted by the three lemmas below.                 *)

In(L) == {u \in Threads : pc[u] \in L}

LEMMA InFinite ==
  ASSUME TypeOK, NEW L
  PROVE  IsFiniteSet(In(L)) /\ Cardinality(In(L)) \in Nat
BY ThreadsAssumption, FS_Subset, FS_CardinalityType DEF In

\* A thread enters the locations L.
LEMMA InEnter ==
  ASSUME TypeOK, NEW L, NEW t \in Threads, NEW loc \in L, pc[t] \notin L,
         Goto(t, loc)
  PROVE  Cardinality(In(L)') = Cardinality(In(L)) + 1
<1>1. In(L)' = In(L) \cup {t} /\ t \notin In(L)
  BY DEF In, Goto, TypeOK
<1> QED BY <1>1, InFinite, FS_AddElement

\* A thread leaves them.
LEMMA InLeave ==
  ASSUME TypeOK, NEW L, NEW t \in Threads, NEW loc, loc \notin L, pc[t] \in L,
         Goto(t, loc)
  PROVE  Cardinality(In(L)') = Cardinality(In(L)) - 1
<1>1. In(L)' = In(L) \ {t} /\ t \in In(L)
  BY DEF In, Goto, TypeOK
<1> QED BY <1>1, InFinite, FS_RemoveElement, ZenonT(60)

\* One thread leaves them and another one, that was outside, enters them.
LEMMA InSwap ==
  ASSUME TypeOK, NEW L, NEW t \in Threads, NEW w \in Threads, NEW to \in L,
         pc[t] \in L, pc[w] \notin L, "idle" \notin L,
         pc' = [pc EXCEPT ![t] = "idle", ![w] = to]
  PROVE  Cardinality(In(L)') = Cardinality(In(L))
<1>1. In(L)' = (In(L) \ {t}) \cup {w} /\ t \in In(L) /\ w \notin In(L) \ {t}
  BY DEF In, TypeOK
<1>2. IsFiniteSet(In(L) \ {t}) /\ Cardinality(In(L) \ {t}) = Cardinality(In(L)) - 1
  BY <1>1, InFinite, FS_RemoveElement
<1>3. Cardinality((In(L) \ {t}) \cup {w}) = Cardinality(In(L) \ {t}) + 1
  BY <1>1, <1>2, FS_AddElement
<1> QED BY <1>1, <1>2, <1>3, InFinite

\* The receivers' half.
ForReceivers == {"notifyNotEmpty", "receive"}

ReceiversWakeup ==
  At("waitNotEmpty") # {} => count <= Cardinality(In(ForReceivers))

LEMMA ReceiversNext ==
  IInv /\ ReceiversWakeup /\ [Next]_vars => ReceiversWakeup'
<1> SUFFICES ASSUME IInv, ReceiversWakeup, [Next]_vars,
                    At("waitNotEmpty")' # {}
             PROVE  count' <= Cardinality(In(ForReceivers)')
  BY DEF ReceiversWakeup
<1> DEFINE K == Cardinality(In(ForReceivers))
<1>0. /\ TypeOK /\ count \in Nat
      /\ K \in Nat /\ K' \in Nat
      /\ At("waitNotEmpty") # {} => count <= K
  <2>1. TypeOK
    BY DEF IInv
  <2>2. In(ForReceivers) \subseteq Threads /\ In(ForReceivers)' \subseteq Threads
    BY DEF In
  <2>3. K \in Nat /\ K' \in Nat
    BY <2>2, ThreadsAssumption, FS_Subset, FS_CardinalityType
  <2> QED BY <2>1, <2>3 DEF ReceiversWakeup, TypeOK
\* A step of one thread that does not block a receiver.
<1>1. ASSUME NEW t \in Threads, NEW loc, Goto(t, loc), loc # "waitNotEmpty",
             \/ pc[t] \notin ForReceivers /\ loc \notin ForReceivers /\ count' \in {count, count - 1}
             \/ pc[t] \notin ForReceivers /\ loc \in ForReceivers /\ count' \in {count, count + 1}
             \/ pc[t] \in ForReceivers /\ loc \notin ForReceivers /\ count' = count - 1
      PROVE  count' <= K'
  <2>1. At("waitNotEmpty") # {}
    BY <1>0, <1>1 DEF At, Goto, TypeOK
  <2>2. CASE pc[t] \notin ForReceivers /\ loc \notin ForReceivers
    <3>1. In(ForReceivers)' = In(ForReceivers)
      BY <1>0, <1>1, <2>2 DEF In, Goto, TypeOK
    <3>2. K' = K
      BY <3>1
    <3> HIDE DEF K
    <3> QED BY <1>0, <1>1, <2>1, <2>2, <3>2
  <2>3. CASE pc[t] \notin ForReceivers /\ loc \in ForReceivers
    <3>1. K' = K + 1
      BY <1>0, <1>1, <2>3, InEnter
    <3> HIDE DEF K
    <3> QED BY <1>0, <1>1, <2>1, <2>3, <3>1
  <2>4. CASE pc[t] \in ForReceivers /\ loc \notin ForReceivers
    <3>1. K' = K - 1
      BY <1>0, <1>1, <2>4, InLeave
    <3> HIDE DEF K
    <3> QED BY <1>0, <1>1, <2>1, <2>4, <3>1
  <2> QED BY <1>1, <2>2, <2>3, <2>4
\* A step that leaves the buffer empty.
<1>2. ASSUME count' = 0 PROVE count' <= K'
  <2> HIDE DEF K
  <2> QED BY <1>0, <1>2
<1> USE DEF Threads, ForReceivers, fields
<1>3. ASSUME NEW t \in Senders, SenderStep(t) PROVE count' <= K'
  <2>1. CASE SendCall(t) \/ SendBlock(t) \/ SendDropped(t)
    BY <2>1, <1>1 DEF SendCall, SendBlock, SendDropped
  <2>2. CASE SendPush(t) \/ TrySend(t)
    BY <2>2, <1>1 DEF SendPush, TrySend, Push
  <2>3. CASE SendNotify(t)
    <3>1. At("waitNotEmpty") # {}
      BY <2>3, <1>0 DEF SendNotify, NotifyOne, Goto, At, TypeOK
    <3>2. PICK w \in At("waitNotEmpty") :
            pc' = [pc EXCEPT ![t] = "idle", ![w] = "receive"]
      BY <2>3, <3>1 DEF SendNotify, NotifyOne
    <3>3. K' = K
      BY <1>0, <2>3, <3>2, InSwap DEF At, SendNotify
    <3> HIDE DEF K
    <3> QED BY <1>0, <2>3, <3>1, <3>3 DEF SendNotify
  <2> QED BY <1>3, <2>1, <2>2, <2>3 DEF SenderStep
<1>4. ASSUME NEW t \in Receivers, ReceiverStep(t) PROVE count' <= K'
  <2>1. CASE ReceiveCall(t)
    BY <2>1, <1>1 DEF ReceiveCall
  <2>2. CASE ReceiveBlock(t) \/ ReceiveNil(t)
    BY <2>2, <1>0, <1>2 DEF ReceiveBlock, ReceiveNil, HasItem
  <2>3. CASE ReceivePop(t) \/ TryReceive(t)
    BY <2>3, <1>1 DEF ReceivePop, TryReceive, Pop
  <2>4. CASE ReceiveNotify(t)
    <3>1. /\ In(ForReceivers)' = In(ForReceivers)
          /\ At("waitNotEmpty")' = At("waitNotEmpty")
      BY <2>4, <1>0 DEF ReceiveNotify, NotifyOne, Goto, In, At, TypeOK
    <3>2. K' = K
      BY <3>1
    <3> HIDE DEF K
    <3> QED BY <1>0, <2>4, <3>1, <3>2 DEF ReceiveNotify
  <2> QED BY <1>4, <2>1, <2>2, <2>3, <2>4 DEF ReceiverStep
<1>5. ASSUME NEW t \in Closers, CloserStep(t) PROVE count' <= K'
  <2>1. CASE Close(t)
    BY <2>1, <1>1 DEF Close
  <2>2. CASE CloseNotifySenders(t)
    <3>1. /\ In(ForReceivers)' = In(ForReceivers)
          /\ At("waitNotEmpty")' = At("waitNotEmpty")
      BY <2>2, <1>0 DEF CloseNotifySenders, NotifyAll, In, At, TypeOK
    <3>2. K' = K
      BY <3>1
    <3> HIDE DEF K
    <3> QED BY <1>0, <2>2, <3>1, <3>2 DEF CloseNotifySenders
  <2>3. CASE CloseNotifyReceivers(t)
    BY <2>3 DEF CloseNotifyReceivers, NotifyAll, At
  <2> QED BY <1>5, <2>1, <2>2, <2>3 DEF CloserStep
<1>6. ASSUME NEW t \in Threads, SpuriousWakeup(t) PROVE count' <= K'
  BY <1>6, <1>1 DEF SpuriousWakeup
<1>7. CASE Free \/ UNCHANGED vars
  <2>1. pc' = pc /\ count' = count
    BY <1>7 DEF Free, vars
  <2>2. K' = K /\ At("waitNotEmpty")' = At("waitNotEmpty")
    BY <2>1 DEF In, At
  <2>3. count' <= K'
    <3> HIDE DEF K
    <3> QED BY <1>0, <2>1, <2>2
  <2> QED BY <2>3
<1> QED BY <1>3, <1>4, <1>5, <1>6, <1>7 DEF Next, Ended

\* The senders' half, with the free slots in the place of the values.
ForSenders == {"notifyNotFull", "send"}

SendersWakeup ==
  At("waitNotFull") # {} /\ ~closed =>
    Capacity - count <= Cardinality(In(ForSenders))

LEMMA SendersNext ==
  IInv /\ SendersWakeup /\ [Next]_vars => SendersWakeup'
<1> SUFFICES ASSUME IInv, SendersWakeup, [Next]_vars,
                    At("waitNotFull")' # {}, ~closed'
             PROVE  Capacity - count' <= Cardinality(In(ForSenders)')
  BY DEF SendersWakeup
<1> DEFINE K == Cardinality(In(ForSenders))
<1>0. /\ TypeOK /\ count \in Nat /\ Capacity \in Nat
      /\ K \in Nat /\ K' \in Nat
      /\ ~closed
      /\ At("waitNotFull") # {} => Capacity - count <= K
  <2>1. TypeOK
    BY DEF IInv
  <2>2. In(ForSenders) \subseteq Threads /\ In(ForSenders)' \subseteq Threads
    BY DEF In
  <2>3. K \in Nat /\ K' \in Nat
    BY <2>2, ThreadsAssumption, FS_Subset, FS_CardinalityType
  <2>4. ~closed
    BY DEF Next, SenderStep, ReceiverStep, CloserStep, SendCall, SendBlock,
           SendDropped, SendPush, TrySend, SendNotify, ReceiveCall, ReceiveBlock,
           ReceivePop, ReceiveNil, TryReceive, ReceiveNotify, Close,
           CloseNotifySenders, CloseNotifyReceivers, SpuriousWakeup, Free, Ended,
           vars
  <2> QED BY <2>1, <2>3, <2>4, CapacityPos DEF SendersWakeup, TypeOK
\* A step of one thread that does not block a sender.
<1>1. ASSUME NEW t \in Threads, NEW loc, Goto(t, loc), loc # "waitNotFull",
             \/ pc[t] \notin ForSenders /\ loc \notin ForSenders /\ count' \in {count, count + 1}
             \/ pc[t] \notin ForSenders /\ loc \in ForSenders /\ count' \in {count, count - 1}
             \/ pc[t] \in ForSenders /\ loc \notin ForSenders /\ count' = count + 1
      PROVE  Capacity - count' <= K'
  <2>1. At("waitNotFull") # {}
    BY <1>0, <1>1 DEF At, Goto, TypeOK
  <2>2. CASE pc[t] \notin ForSenders /\ loc \notin ForSenders
    <3>1. In(ForSenders)' = In(ForSenders)
      BY <1>0, <1>1, <2>2 DEF In, Goto, TypeOK
    <3>2. K' = K
      BY <3>1
    <3> HIDE DEF K, Capacity
    <3> QED BY <1>0, <1>1, <2>1, <2>2, <3>2
  <2>3. CASE pc[t] \notin ForSenders /\ loc \in ForSenders
    <3>1. K' = K + 1
      BY <1>0, <1>1, <2>3, InEnter
    <3> HIDE DEF K
    <3> QED BY <1>0, <1>1, <2>1, <2>3, <3>1
  <2>4. CASE pc[t] \in ForSenders /\ loc \notin ForSenders
    <3>1. K' = K - 1
      BY <1>0, <1>1, <2>4, InLeave
    <3> HIDE DEF K
    <3> QED BY <1>0, <1>1, <2>1, <2>4, <3>1
  <2> QED BY <1>1, <2>2, <2>3, <2>4
\* A step that leaves the buffer full.
<1>2. ASSUME count' >= Capacity, count' \in Nat PROVE Capacity - count' <= K'
  <2>1. \A c, d, k \in Nat : d >= c => c - d <= k
    OBVIOUS
  <2>2. Capacity \in Nat /\ K' \in Nat
    BY <1>0
  <2> HIDE DEF K
  <2> QED BY <2>1, <2>2, <1>2
<1> USE DEF Threads, ForSenders, fields
<1>3. ASSUME NEW t \in Senders, SenderStep(t) PROVE Capacity - count' <= K'
  <2>1. CASE SendCall(t)
    BY <2>1, <1>1 DEF SendCall
  <2>2. CASE SendBlock(t)
    BY <2>2, <1>0, <1>2 DEF SendBlock, HasRoom
  <2>3. CASE SendDropped(t)
    BY <2>3, <1>0 DEF SendDropped
  <2>4. CASE SendPush(t) \/ TrySend(t)
    <3>1. Goto(t, "notifyNotEmpty") /\ count' = count + 1 /\ pc[t] \in {"send", "idle"}
      BY <2>4 DEF SendPush, TrySend, Push
    <3> QED BY <3>1, <1>1
  <2>5. CASE SendNotify(t)
    <3>1. /\ In(ForSenders)' = In(ForSenders)
          /\ At("waitNotFull")' = At("waitNotFull")
      BY <2>5, <1>0 DEF SendNotify, NotifyOne, Goto, In, At, TypeOK
    <3>2. K' = K
      BY <3>1
    <3> HIDE DEF K
    <3> QED BY <1>0, <2>5, <3>1, <3>2 DEF SendNotify
  <2> QED BY <1>3, <2>1, <2>2, <2>3, <2>4, <2>5 DEF SenderStep
<1>4. ASSUME NEW t \in Receivers, ReceiverStep(t) PROVE Capacity - count' <= K'
  <2>1. CASE ReceiveCall(t) \/ ReceiveBlock(t)
    BY <2>1, <1>1 DEF ReceiveCall, ReceiveBlock
  <2>2. CASE ReceiveNil(t)
    BY <2>2, <1>0 DEF ReceiveNil
  <2>3. CASE ReceivePop(t) \/ TryReceive(t)
    BY <2>3, <1>1 DEF ReceivePop, TryReceive, Pop
  <2>4. CASE ReceiveNotify(t)
    <3>1. At("waitNotFull") # {}
      BY <2>4, <1>0 DEF ReceiveNotify, NotifyOne, Goto, At, TypeOK
    <3>2. PICK w \in At("waitNotFull") :
            pc' = [pc EXCEPT ![t] = "idle", ![w] = "send"]
      BY <2>4, <3>1 DEF ReceiveNotify, NotifyOne
    <3>3. K' = K
      BY <1>0, <2>4, <3>2, InSwap DEF At, ReceiveNotify
    <3> HIDE DEF K
    <3> QED BY <1>0, <2>4, <3>1, <3>3 DEF ReceiveNotify
  <2> QED BY <1>4, <2>1, <2>2, <2>3, <2>4 DEF ReceiverStep
<1>5. ASSUME NEW t \in Closers, CloserStep(t) PROVE Capacity - count' <= K'
  <2>1. CASE Close(t)
    BY <2>1 DEF Close
  <2>2. CASE CloseNotifySenders(t)
    BY <2>2 DEF CloseNotifySenders, NotifyAll, At
  <2>3. CASE CloseNotifyReceivers(t)
    <3>1. /\ In(ForSenders)' = In(ForSenders)
          /\ At("waitNotFull")' = At("waitNotFull")
      BY <2>3, <1>0 DEF CloseNotifyReceivers, NotifyAll, In, At, TypeOK
    <3>2. K' = K
      BY <3>1
    <3> HIDE DEF K
    <3> QED BY <1>0, <2>3, <3>1, <3>2 DEF CloseNotifyReceivers
  <2> QED BY <1>5, <2>1, <2>2, <2>3 DEF CloserStep
<1>6. ASSUME NEW t \in Threads, SpuriousWakeup(t) PROVE Capacity - count' <= K'
  BY <1>6, <1>1 DEF SpuriousWakeup
<1>7. CASE Free \/ UNCHANGED vars
  <2>1. pc' = pc /\ count' = count
    BY <1>7 DEF Free, vars
  <2>2. K' = K /\ At("waitNotFull")' = At("waitNotFull")
    BY <2>1 DEF In, At
  <2>3. Capacity - count' <= K'
    <3> HIDE DEF K
    <3> QED BY <1>0, <2>1, <2>2
  <2> QED BY <2>3
<1> QED BY <1>3, <1>4, <1>5, <1>6, <1>7 DEF Next, Ended

\* No thread is left blocked while there is something for it to do: as many
\* values as a blocked receiver could take (as many free slots as a blocked
\* sender could fill) are the business of threads that are on their way.
THEOREM NoLostWakeups == Spec => []NoLostWakeup
<1>1. Init => IInv /\ ReceiversWakeup /\ SendersWakeup
  BY IInvInit DEF Init, At, ReceiversWakeup, SendersWakeup
<1>2. IInv /\ [Next]_vars => IInv'
  BY IInvNext
<1>3. IInv /\ ReceiversWakeup /\ [Next]_vars => ReceiversWakeup'
  BY ReceiversNext
<1>4. IInv /\ SendersWakeup /\ [Next]_vars => SendersWakeup'
  BY SendersNext
<1>5. ReceiversWakeup /\ SendersWakeup => NoLostWakeup
  <2>1. /\ WakersOfReceivers = In(ForReceivers)
        /\ WakersOfSenders = In(ForSenders)
    BY DEF WakersOfReceivers, WakersOfSenders, At, In, ForReceivers, ForSenders
  <2> QED BY <2>1 DEF NoLostWakeup, ReceiversWakeup, SendersWakeup
<1> QED BY <1>1, <1>2, <1>3, <1>4, <1>5, PTL DEF Spec


-----------------------------------------------------------------------------
(* The channel implements the bounded queue that can be closed.             *)


LEMMA ContentsSeqNext == IInv' => ContentsOK'
BY ContentsSeq, PTL

\* A push appends to the queue.
LEMMA PushContents ==
  ASSUME IInv, IInv', NEW t \in Senders, sent[t] < MaxSends, Push(t)
  PROVE  NextItem(t) \in Item /\ Contents' = Append(Contents, NextItem(t))
<1> DEFINE D == Append(Contents, NextItem(t))
<1>1. NextItem(t) \in Item
  BY SMTT(60), SendsAssumption DEF NextItem, Item, IInv, TypeOK
<1>2. ContentsOK /\ ContentsOK' /\ count \in Nat
  BY SMTT(60), ContentsSeq, ContentsSeqNext DEF IInv, TypeOK
<1>3. /\ D \in Seq(Item) /\ Len(D) = count + 1
      /\ \A i \in 1..count : D[i] = Contents[i]
      /\ D[count + 1] = NextItem(t)
  BY <1>1, <1>2, AppendProperties DEF ContentsOK
<1>4. Contents' \in Seq(Item) /\ Len(Contents') = count + 1
  BY <1>2 DEF ContentsOK, Push
<1>5. ASSUME NEW i \in 1..(count + 1) PROVE Contents'[i] = D[i]
  <2>1. Contents'[i] = accepted'[Len(delivered) + i]
    BY <1>2 DEF ContentsOK, Push
  <2>2. /\ Len(accepted) = Len(delivered) + count
        /\ accepted \in Seq(Item) /\ Len(delivered) \in Nat
    BY DEF IInv, TypeOK, RingInv
  <2>3. /\ accepted'[Len(accepted) + 1] = NextItem(t)
        /\ \A j \in 1..Len(accepted) : accepted'[j] = accepted[j]
    BY <1>1, <2>2, AppendProperties DEF Push
  <2>4. CASE i = count + 1
    <3>1. Len(delivered) + i = Len(accepted) + 1
      BY <1>2, <2>2, <2>4
    <3> HIDE DEF D
    <3> QED BY <1>3, <2>1, <2>3, <2>4, <3>1
  <2>5. CASE i \in 1..count
    <3>1. Len(delivered) + i \in 1..Len(accepted)
      BY <1>2, <2>2, <2>5
    <3> QED BY <1>2, <1>3, <2>1, <2>3, <2>5, <3>1 DEF ContentsOK
  <2>6. i = count + 1 \/ i \in 1..count
    BY <1>2
  <2> QED BY <2>4, <2>5, <2>6
<1> HIDE DEF D
<1>6. Contents' = D
  BY <1>2, <1>3, <1>4, <1>5, SeqEqual
<1> QED BY <1>1, <1>6 DEF D

\* A pop takes the head of the queue.
LEMMA PopContents ==
  ASSUME IInv, IInv', HasItem, Pop
  PROVE  /\ Contents # <<>>
         /\ Head(Contents) = buffer[head]
         /\ Contents' = Tail(Contents)
<1>1. ContentsOK /\ ContentsOK' /\ count \in Nat /\ count > 0
  BY ContentsSeq, ContentsSeqNext, SMTT(60) DEF IInv, TypeOK, HasItem
<1>2. Contents # <<>>
  BY <1>1 DEF ContentsOK
<1>3. Head(Contents) = buffer[head]
  <2>1. Contents[1] = buffer[Slot(0)] /\ Slot(0) = SlotAt(0)
    BY <1>1, SlotValue, CapacityPos DEF Contents, IInv
  <2>2. SlotAt(0) = head
    BY CapacityPos DEF SlotAt, IInv, TypeOK
  <2> QED BY <1>1, <1>2, <2>1, <2>2 DEF ContentsOK
<1>4. /\ Tail(Contents) \in Seq(Item) /\ Len(Tail(Contents)) = count - 1
      /\ \A i \in 1..(count - 1) : Tail(Contents)[i] = Contents[i + 1]
  BY <1>1, <1>2, HeadTailProperties DEF ContentsOK
<1>5. Contents' \in Seq(Item) /\ Len(Contents') = count - 1
  BY <1>1 DEF ContentsOK, Pop
<1>6. ASSUME NEW i \in 1..(count - 1) PROVE Contents'[i] = Tail(Contents)[i]
  <2>1. Contents'[i] = accepted[Len(delivered') + i]
    BY <1>1 DEF ContentsOK, Pop
  <2>2. Len(accepted) = Len(delivered) + count /\ Len(accepted) = Len(delivered') + (count - 1)
    BY DEF IInv, RingInv, Pop
  <2>3. Len(delivered) \in Nat /\ Len(delivered') \in Nat
    BY DEF IInv, TypeOK
  <2>4. Len(delivered') = Len(delivered) + 1
    BY <1>1, <2>2, <2>3
  <2>5. Contents[i + 1] = accepted[Len(delivered) + (i + 1)]
    BY <1>1 DEF ContentsOK
  <2>6. Len(delivered') + i = Len(delivered) + (i + 1)
    BY <1>1, <2>3, <2>4
  <2> QED BY <1>4, <2>1, <2>5, <2>6
<1>7. Contents' = Tail(Contents)
  <2> DEFINE D == Tail(Contents)
  <2> HIDE DEF D
  <2>1. D \in Seq(Item) /\ Len(D) = Len(Contents')
    BY <1>4, <1>5 DEF D
  <2>2. \A i \in 1..Len(Contents') : Contents'[i] = D[i]
    BY <1>5, <1>6 DEF D
  <2>3. Contents' = D
    BY <1>5, <2>1, <2>2, SeqEqual
  <2> QED BY <2>3 DEF D
<1> QED BY <1>2, <1>3, <1>7

\* Every step of the channel is a step of the queue or leaves it alone.
LEMMA FifoStep == IInv /\ IInv' /\ [Next]_vars => [Fifo!Next]_(Fifo!vars)
<1> SUFFICES ASSUME IInv, IInv', [Next]_vars PROVE [Fifo!Next]_(Fifo!vars)
  OBVIOUS
<1> USE DEF Threads
<1>1. ASSUME UNCHANGED <<fields, delivered, closed, finished>>
      PROVE  UNCHANGED Fifo!vars
  BY <1>1 DEF Fifo!vars, Contents, Slot, fields
<1>2. ASSUME NEW t \in Senders, sent[t] < MaxSends, HasRoom, ~closed, Push(t),
             UNCHANGED <<closed, finished>>
      PROVE  Fifo!Next
  <2>1. NextItem(t) \in Item /\ Contents' = Append(Contents, NextItem(t))
    BY <1>2, PushContents
  <2>2. Len(Contents) < Capacity
    BY <1>2, ContentsSeq DEF ContentsOK, HasRoom
  <2>3. Fifo!Put(NextItem(t))
    BY <1>2, <2>1, <2>2 DEF Fifo!Put, Push
  <2> QED BY <2>1, <2>3 DEF Fifo!Next
<1>3. ASSUME HasItem, Pop, UNCHANGED <<closed, finished>>
      PROVE  Fifo!Next
  <2>1. Contents # <<>> /\ Head(Contents) = buffer[head] /\ Contents' = Tail(Contents)
    BY <1>3, PopContents
  <2>2. Fifo!Take
    BY <1>3, <2>1 DEF Fifo!Take, Pop
  <2> QED BY <2>2 DEF Fifo!Next
<1>4. ASSUME NEW t \in Senders, SenderStep(t) PROVE [Fifo!Next]_(Fifo!vars)
  <2>1. CASE SendCall(t) \/ SendBlock(t) \/ SendDropped(t) \/ SendNotify(t)
    BY <2>1, <1>1 DEF SendCall, SendBlock, SendDropped, SendNotify, history
  <2>2. CASE SendPush(t)
    <3>1. sent[t] < MaxSends
      BY <2>2 DEF SendPush, IInv, SendsLeft
    <3> QED BY <2>2, <3>1, <1>2 DEF SendPush
  <2>3. CASE TrySend(t)
    BY <2>3, <1>2 DEF TrySend
  <2> QED BY <1>4, <2>1, <2>2, <2>3 DEF SenderStep
<1>5. ASSUME NEW t \in Receivers, ReceiverStep(t) PROVE [Fifo!Next]_(Fifo!vars)
  <2>1. CASE ReceiveCall(t) \/ ReceiveBlock(t) \/ ReceiveNotify(t)
    BY <2>1, <1>1 DEF ReceiveCall, ReceiveBlock, ReceiveNotify, history
  <2>2. CASE ReceivePop(t) \/ TryReceive(t)
    BY <2>2, <1>3 DEF ReceivePop, TryReceive
  <2>3. CASE ReceiveNil(t)
    <3>1. Contents = <<>>
      BY <2>3, ContentsSeq DEF ReceiveNil, HasItem, ContentsOK, IInv, TypeOK
    <3>2. Contents' = Contents
      BY <2>3 DEF ReceiveNil, Contents, Slot, fields
    <3>3. Fifo!EndOfStream(t)
      BY <2>3, <3>1, <3>2 DEF ReceiveNil, Fifo!EndOfStream, history
    <3> QED BY <3>3 DEF Fifo!Next
  <2> QED BY <1>5, <2>1, <2>2, <2>3 DEF ReceiverStep
<1>6. ASSUME NEW t \in Closers, CloserStep(t) PROVE [Fifo!Next]_(Fifo!vars)
  <2>1. CASE Close(t)
    <3>1. Contents' = Contents
      BY <2>1 DEF Close, Contents, Slot, fields
    <3>2. Fifo!Close
      BY <2>1, <3>1 DEF Close, Fifo!Close, history
    <3> QED BY <3>2 DEF Fifo!Next
  <2>2. CASE CloseNotifySenders(t) \/ CloseNotifyReceivers(t)
    BY <2>2, <1>1 DEF CloseNotifySenders, CloseNotifyReceivers, history
  <2> QED BY <1>6, <2>1, <2>2 DEF CloserStep
<1>7. ASSUME NEW t \in Threads, SpuriousWakeup(t) PROVE UNCHANGED Fifo!vars
  BY <1>7, <1>1 DEF SpuriousWakeup, history
<1>8. CASE Free \/ UNCHANGED vars
  BY <1>8, <1>1 DEF Free, vars, fields, history
<1> QED BY <1>4, <1>5, <1>6, <1>7, <1>8 DEF Next, Ended

\* The ring buffer, its mutex and its condition variables implement the
\* bounded first-in first-out queue that can be closed.
THEOREM ImplementsFifo == Spec => FifoSpec
<1>1. Init => IInv
  BY IInvInit
<1>2. IInv /\ [Next]_vars => IInv'
  BY IInvNext
<1>3. Init => Fifo!Init
  <2> SUFFICES ASSUME Init PROVE Fifo!Init
    OBVIOUS
  <2>1. Contents = <<>>
    BY ContentsSeq, <1>1 DEF ContentsOK, Init
  <2> QED BY <2>1 DEF Init, Fifo!Init
<1>4. IInv /\ IInv' /\ [Next]_vars => [Fifo!Next]_(Fifo!vars)
  BY FifoStep
<1> QED BY <1>1, <1>2, <1>3, <1>4, PTL DEF Spec, FifoSpec, Fifo!Spec

=============================================================================
