-------------------------- MODULE ReadyRingProofs --------------------------
(* Proofs about ReadyRing, for any first capacity and any number of pushes.  *)
EXTENDS ReadyRing, TLAPS, SequenceTheorems

-----------------------------------------------------------------------------
(* Arithmetic of the slots.                                                  *)

\* A slot index lies in the buffer, and a small one is not wrapped.
LEMMA ModRange ==
  ASSUME NEW c \in Nat \ {0}, NEW a \in Nat
  PROVE  a % c \in 0..(c - 1) /\ (a < c => a % c = a)
OBVIOUS

\* Two positions less than a capacity apart have different slots.
LEMMA ModApart ==
  ASSUME NEW c \in Nat \ {0}, NEW a \in Nat, NEW b \in Nat, a < b, b - a < c
  PROVE  a % c # b % c
<1> SUFFICES ASSUME a % c = b % c PROVE FALSE
  OBVIOUS
<1> DEFINE p == a \div c
           q == b \div c
<1>1. p \in Int /\ a = c * p + (a % c)
  OBVIOUS
<1>2. q \in Int /\ b = c * q + (b % c)
  OBVIOUS
<1> HIDE DEF p, q
<1> DEFINE k == q - p
<1>3. k \in Int /\ b - a = c * k
  BY <1>1, <1>2
<1> HIDE DEF k
<1>4. CASE k <= 0
  <2>1. c * k <= 0
    BY <1>3, <1>4
  <2> QED BY <1>3, <2>1
<1>5. CASE k >= 1
  <2>1. c * k >= c
    BY <1>3, <1>5
  <2> QED BY <1>3, <2>1
<1> QED BY <1>3, <1>4, <1>5

-----------------------------------------------------------------------------
(* The invariant.                                                            *)

LEMMA TypeInit == Init => RingTypeOK
BY RingAssumption DEF Init, RingTypeOK, Count

\* The doubled buffer has the tasks of the ring in its first slots, in order.
LEMMA GrownType ==
  ASSUME RingTypeOK
  PROVE  /\ Grown \in [0..(2 * ready_cap - 1) -> Task \cup {null}]
         /\ \A s \in 0..(Count - 1) :
              Grown[s] = ready_queue[(ready_head + s) % ready_cap] /\ Grown[s] \in Task
<1> USE DEF RingTypeOK
<1>1. Count \in Nat /\ Count <= ready_cap
  BY DEF Count
<1>2. ASSUME NEW s \in 0..(2 * ready_cap - 1), s < Count
      PROVE  ready_queue[(ready_head + s) % ready_cap] \in Task
  <2>1. s \in 0..(Count - 1)
    BY <1>1, <1>2
  <2> QED BY <2>1
<1>3. Grown \in [0..(2 * ready_cap - 1) -> Task \cup {null}]
  BY <1>2 DEF Grown
<1>4. ASSUME NEW s \in 0..(Count - 1)
      PROVE  Grown[s] = ready_queue[(ready_head + s) % ready_cap] /\ Grown[s] \in Task
  BY <1>1, <1>2, <1>4 DEF Grown
<1> QED BY <1>3, <1>4

\* A push into a full ring leaves the old content, then the task, unwrapped.
LEMMA PushGrows ==
  ASSUME RingTypeOK, NEW t \in Task, Push(t), Count >= ready_cap
  PROVE  /\ RingTypeOK' /\ Count' = Count + 1
         /\ \A i \in 0..(Count - 1) :
              ready_queue'[(ready_head' + i) % ready_cap'] =
                ready_queue[(ready_head + i) % ready_cap]
         /\ ready_queue'[(ready_head' + Count) % ready_cap'] = t
<1>1. /\ ready_cap' = 2 * ready_cap /\ ready_head' = 0 /\ ready_tail' = Count + 1
      /\ ready_queue' = [Grown EXCEPT ![Count] = t] /\ popped' = popped
  BY DEF Push, RingTypeOK, Count
<1>2. /\ ready_cap \in Nat \ {0} /\ Count = ready_cap /\ Count' = Count + 1
      /\ ready_cap' \in Nat \ {0}
  BY <1>1 DEF RingTypeOK, Count
<1>3. /\ \A i \in 0..(Count - 1) : ready_queue'[i] = Grown[i]
      /\ ready_queue'[Count] = t
      /\ ready_queue' \in [0..(ready_cap' - 1) -> Task \cup {null}]
  BY <1>1, <1>2, GrownType
<1>4. \A i \in 0..Count : (ready_head' + i) % ready_cap' = i
  <2>1. \A i \in 0..Count : i \in Nat /\ i < ready_cap' /\ ready_head' + i = i
    BY <1>1, <1>2
  <2> QED BY <2>1, <1>2, ModRange
<1>5. ASSUME NEW i \in 0..(Count - 1)
      PROVE  ready_queue'[(ready_head' + i) % ready_cap'] =
               ready_queue[(ready_head + i) % ready_cap]
  <2>1. (ready_head' + i) % ready_cap' = i
    BY <1>2, <1>4
  <2>2. Grown[i] = ready_queue[(ready_head + i) % ready_cap]
    BY GrownType
  <2> QED BY <1>3, <2>1, <2>2
<1>6. ready_queue'[(ready_head' + Count) % ready_cap'] = t
  <2>1. (ready_head' + Count) % ready_cap' = Count
    BY <1>2, <1>4
  <2> QED BY <1>3, <2>1
<1>7. RingTypeOK'
  <2>1. \A i \in 0..(Count' - 1) :
          ready_queue'[(ready_head' + i) % ready_cap'] \in Task
    BY <1>2, <1>5, <1>6, GrownType
  <2>2. ready_head' <= ready_tail' /\ Count' <= ready_cap'
    BY <1>1, <1>2
  <2> QED BY <1>1, <1>2, <1>3, <2>1, <2>2 DEF RingTypeOK
<1> QED BY <1>2, <1>5, <1>6, <1>7

\* A push into a ring with room writes the free slot behind the content.
LEMMA PushFits ==
  ASSUME RingTypeOK, NEW t \in Task, Push(t), Count < ready_cap
  PROVE  /\ RingTypeOK' /\ Count' = Count + 1
         /\ \A i \in 0..(Count - 1) :
              ready_queue'[(ready_head' + i) % ready_cap'] =
                ready_queue[(ready_head + i) % ready_cap]
         /\ ready_queue'[(ready_head' + Count) % ready_cap'] = t
<1>1. /\ ready_cap' = ready_cap /\ ready_head' = ready_head /\ ready_tail' = ready_tail + 1
      /\ ready_queue' = [ready_queue EXCEPT ![ready_tail % ready_cap] = t]
      /\ popped' = popped
  BY DEF Push, RingTypeOK, Count
<1>2. /\ ready_cap \in Nat \ {0} /\ ready_head \in Nat /\ ready_tail \in Nat
      /\ Count \in Nat /\ Count' = Count + 1 /\ ready_head + Count = ready_tail
  BY <1>1 DEF RingTypeOK, Count
<1>3. ready_tail % ready_cap \in 0..(ready_cap - 1)
  BY <1>2, ModRange
<1>4. ASSUME NEW i \in 0..(Count - 1)
      PROVE  ready_queue'[(ready_head' + i) % ready_cap'] =
               ready_queue[(ready_head + i) % ready_cap]
  <2>1. ready_head + i \in Nat /\ ready_head + i < ready_tail
        /\ ready_tail - (ready_head + i) < ready_cap
    BY <1>2
  <2>2. (ready_head + i) % ready_cap # ready_tail % ready_cap
    BY <1>2, <2>1, ModApart
  <2>3. (ready_head + i) % ready_cap \in 0..(ready_cap - 1)
    BY <1>2, <2>1, ModRange
  <2> QED BY <1>1, <2>2, <2>3 DEF RingTypeOK
<1>5. ready_queue'[(ready_head' + Count) % ready_cap'] = t
  BY <1>1, <1>2, <1>3 DEF RingTypeOK
<1>6. RingTypeOK'
  <2>1. \A i \in 0..(Count' - 1) :
          ready_queue'[(ready_head' + i) % ready_cap'] \in Task
    <3>1. \A i \in 0..(Count - 1) : ready_queue[(ready_head + i) % ready_cap] \in Task
      BY DEF RingTypeOK
    <3>2. \A i \in 0..(Count' - 1) : i \in 0..(Count - 1) \/ i = Count
      BY <1>2
    <3> QED BY <1>4, <1>5, <3>1, <3>2
  <2>2. ready_head' <= ready_tail' /\ Count' <= ready_cap'
    BY <1>1, <1>2
  <2>3. ready_queue' \in [0..(ready_cap' - 1) -> Task \cup {null}]
    BY <1>1 DEF RingTypeOK
  <2> QED BY <1>1, <1>2, <2>1, <2>2, <2>3 DEF RingTypeOK
<1> QED BY <1>2, <1>4, <1>5, <1>6

\* A pop of a task moves the content one place forward.
LEMMA PopTakes ==
  ASSUME RingTypeOK, Pop, ready_head # ready_tail
  PROVE  /\ RingTypeOK' /\ Count \in Nat \ {0} /\ Count' = Count - 1
         /\ popped' = ready_queue[ready_head % ready_cap]
         /\ \A i \in 0..(Count' - 1) :
              ready_queue'[(ready_head' + i) % ready_cap'] =
                ready_queue[(ready_head + (i + 1)) % ready_cap]
<1>1. /\ ready_cap' = ready_cap /\ ready_head' = ready_head + 1 /\ ready_tail' = ready_tail
      /\ ready_queue' = ready_queue /\ popped' = ready_queue[ready_head % ready_cap]
  BY DEF Pop
<1>2. /\ ready_head \in Nat /\ ready_tail \in Nat /\ ready_head < ready_tail
      /\ Count \in Nat \ {0} /\ Count' = Count - 1
  BY <1>1 DEF RingTypeOK, Count
<1>3. popped' \in Task
  <2>1. 0 \in 0..(Count - 1) /\ ready_head + 0 = ready_head
    BY <1>2
  <2> QED BY <1>1, <2>1 DEF RingTypeOK
<1>4. ASSUME NEW i \in 0..(Count' - 1)
      PROVE  /\ ready_queue'[(ready_head' + i) % ready_cap'] =
                  ready_queue[(ready_head + (i + 1)) % ready_cap]
             /\ ready_queue'[(ready_head' + i) % ready_cap'] \in Task
  <2>1. i + 1 \in 0..(Count - 1) /\ ready_head' + i = ready_head + (i + 1)
    BY <1>1, <1>2
  <2> QED BY <1>1, <2>1 DEF RingTypeOK
<1>5. RingTypeOK'
  <2>1. /\ ready_head' \in Nat /\ ready_tail' \in Nat /\ ready_head' <= ready_tail'
        /\ Count' <= ready_cap'
    BY <1>1, <1>2 DEF RingTypeOK
  <2> QED BY <1>1, <1>3, <1>4, <2>1 DEF RingTypeOK
<1> QED BY <1>1, <1>2, <1>4, <1>5

\* A pop of the empty ring resets the indices.
LEMMA PopNothing ==
  ASSUME RingTypeOK, Pop, ready_head = ready_tail
  PROVE  RingTypeOK' /\ Count = 0 /\ Count' = 0 /\ popped' = null
<1>1. /\ ready_cap' = ready_cap /\ ready_head' = 0 /\ ready_tail' = 0
      /\ ready_queue' = ready_queue /\ popped' = null
  BY DEF Pop
<1> QED BY <1>1 DEF RingTypeOK, Count

LEMMA TypeNext == RingTypeOK /\ [Next]_vars => RingTypeOK'
<1> SUFFICES ASSUME RingTypeOK, [Next]_vars PROVE RingTypeOK'
  OBVIOUS
<1>1. ASSUME NEW t \in Task, Push(t) PROVE RingTypeOK'
  <2>1. Count >= ready_cap \/ Count < ready_cap
    BY DEF RingTypeOK, Count
  <2> QED BY <1>1, <2>1, PushGrows, PushFits
<1>2. CASE Pop
  BY <1>2, PopTakes, PopNothing
<1>3. CASE UNCHANGED vars
  BY <1>3 DEF vars, RingTypeOK, Count
<1> QED BY <1>1, <1>2, <1>3 DEF Next

\* The ready queue of liva_scheduler_run: whatever is pushed and popped, the
\* slots between the indices hold tasks, and the indices never lie further
\* apart than the buffer is long.
THEOREM RingTypeCorrect == Spec => []RingTypeOK
<1>1. Init => RingTypeOK
  BY TypeInit
<1>2. RingTypeOK /\ [Next]_vars => RingTypeOK'
  BY TypeNext
<1> QED BY <1>1, <1>2, PTL DEF Spec

-----------------------------------------------------------------------------
(* The refinement.                                                           *)

\* The content is a sequence of tasks, read from the cells of the ring.
ContentIsRing ==
  /\ Content \in Seq(Task) /\ Len(Content) = Count /\ Count \in Nat
  /\ \A i \in 1..Count :
       Content[i] = ready_queue[(ready_head + (i - 1)) % ready_cap]

\* So it is in every well-typed state, and, since the lemma is about any state,
\* in the state after a step.
LEMMA ContentSeq == RingTypeOK => ContentIsRing
<1> HAVE RingTypeOK
<1>1. Count \in Nat
  BY DEF RingTypeOK, Count
<1>2. \A i \in 1..Count : /\ i - 1 \in 0..(Count - 1)
                          /\ ready_head + i - 1 = ready_head + (i - 1)
  BY <1>1 DEF RingTypeOK
<1>3. \A i \in 1..Count : ready_queue[(ready_head + (i - 1)) % ready_cap] \in Task
  BY <1>2 DEF RingTypeOK
<1>4. Content \in [1..Count -> Task]
  BY <1>2, <1>3 DEF Content
<1>5. Content \in Seq(Task) /\ Len(Content) = Count
  BY <1>1, <1>4
<1>6. \A i \in 1..Count : Content[i] = ready_queue[(ready_head + (i - 1)) % ready_cap]
  BY <1>2 DEF Content
<1> QED BY <1>1, <1>5, <1>6 DEF ContentIsRing

LEMMA RefineInit == Init => Queue!Init
<1> SUFFICES ASSUME Init PROVE Queue!Init
  OBVIOUS
<1>1. RingTypeOK /\ Count = 0 /\ popped = null
  BY TypeInit DEF Init, Count
<1>2. Content = <<>>
  BY <1>1, ContentSeq DEF ContentIsRing
<1> QED BY <1>1, <1>2 DEF Queue!Init

\* Either kind of push appends the task to the content.
LEMMA RefinePush ==
  ASSUME RingTypeOK, NEW t \in Task, Push(t)
  PROVE  Content' = Append(Content, t) /\ popped' = popped
<1>1. /\ RingTypeOK' /\ Count' = Count + 1
      /\ \A i \in 0..(Count - 1) :
           ready_queue'[(ready_head' + i) % ready_cap'] =
             ready_queue[(ready_head + i) % ready_cap]
      /\ ready_queue'[(ready_head' + Count) % ready_cap'] = t
  <2>1. Count >= ready_cap \/ Count < ready_cap
    BY DEF RingTypeOK, Count
  <2> QED BY <2>1, PushGrows, PushFits
<1>2. /\ Content \in Seq(Task) /\ Len(Content) = Count /\ Count \in Nat
      /\ \A i \in 1..Count :
           Content[i] = ready_queue[(ready_head + (i - 1)) % ready_cap]
  BY ContentSeq DEF ContentIsRing
<1>3. /\ Content' \in Seq(Task) /\ Len(Content') = Count'
      /\ \A i \in 1..Count' :
           Content'[i] = ready_queue'[(ready_head' + (i - 1)) % ready_cap']
  <2>1. RingTypeOK' => ContentIsRing'
    BY ContentSeq, PTL
  <2> QED BY <1>1, <2>1 DEF ContentIsRing
<1> DEFINE longer == Append(Content, t)
<1>4. /\ longer \in Seq(Task) /\ Len(longer) = Count + 1
      /\ \A i \in 1..Count : longer[i] = Content[i]
      /\ longer[Count + 1] = t
  BY <1>2, AppendProperties
<1>5. ASSUME NEW i \in 1..(Count + 1) PROVE Content'[i] = longer[i]
  <2>1. CASE i = Count + 1
    <3>1. i - 1 = Count
      BY <1>2, <2>1
    <3> QED BY <1>1, <1>3, <1>4, <2>1, <3>1
  <2>2. CASE i # Count + 1
    <3>1. i \in 1..Count /\ i - 1 \in 0..(Count - 1)
      BY <1>2, <2>2
    <3> QED BY <1>1, <1>2, <1>3, <1>4, <3>1, ZenonT(60)
  <2> QED BY <2>1, <2>2
<1>6. Len(Content') = Count + 1
  BY <1>1, <1>3
<1> HIDE DEF longer
<1>7. Content' = longer
  BY <1>3, <1>4, <1>5, <1>6, SeqEqual
<1>8. popped' = popped
  BY DEF Push
<1> QED BY <1>7, <1>8 DEF longer

\* A pop returns the head of the content, or null, and leaves the tail.
LEMMA RefinePop ==
  ASSUME RingTypeOK, Pop
  PROVE  \/ Content # <<>> /\ popped' = Head(Content) /\ Content' = Tail(Content)
         \/ Content = <<>> /\ popped' = null /\ Content' = Content
<1>1. /\ Content \in Seq(Task) /\ Len(Content) = Count /\ Count \in Nat
      /\ \A i \in 1..Count :
           Content[i] = ready_queue[(ready_head + (i - 1)) % ready_cap]
  BY ContentSeq DEF ContentIsRing
<1>2. RingTypeOK' =>
        /\ Content' \in Seq(Task) /\ Len(Content') = Count'
        /\ \A i \in 1..Count' :
             Content'[i] = ready_queue'[(ready_head' + (i - 1)) % ready_cap']
  <2>1. RingTypeOK' => ContentIsRing'
    BY ContentSeq, PTL
  <2> QED BY <2>1 DEF ContentIsRing
<1>3. CASE ready_head = ready_tail
  <2>1. RingTypeOK' /\ Count = 0 /\ Count' = 0 /\ popped' = null
    BY <1>3, PopNothing
  <2>2. Content = <<>> /\ Content' = <<>>
    BY <1>1, <1>2, <2>1
  <2> QED BY <2>1, <2>2
<1>4. CASE ready_head # ready_tail
  <2>1. /\ RingTypeOK' /\ Count \in Nat \ {0} /\ Count' = Count - 1
        /\ popped' = ready_queue[ready_head % ready_cap]
        /\ \A i \in 0..(Count' - 1) :
             ready_queue'[(ready_head' + i) % ready_cap'] =
               ready_queue[(ready_head + (i + 1)) % ready_cap]
    BY <1>4, PopTakes
  <2>2. Content # <<>>
    BY <1>1, <2>1
  <2>3. popped' = Head(Content)
    <3>1. Head(Content) = Content[1]
      BY <1>1, <2>2
    <3>2. 1 \in 1..Count /\ ready_head + (1 - 1) = ready_head
      BY <2>1 DEF RingTypeOK
    <3> QED BY <1>1, <2>1, <3>1, <3>2
  <2> DEFINE rest == Tail(Content)
  <2>4. /\ rest \in Seq(Task) /\ Len(rest) = Count - 1
        /\ \A i \in 1..(Count - 1) : rest[i] = Content[i + 1]
    BY <1>1, <2>2, HeadTailProperties
  <2>5. ASSUME NEW i \in 1..(Count - 1) PROVE Content'[i] = rest[i]
    <3>1. /\ i - 1 \in 0..(Count' - 1) /\ i \in 1..Count' /\ i + 1 \in 1..Count
          /\ (i - 1) + 1 = (i + 1) - 1
      BY <2>1
    <3>2. Content'[i] = ready_queue[(ready_head + ((i - 1) + 1)) % ready_cap]
      BY <1>2, <2>1, <3>1
    <3>3. rest[i] = ready_queue[(ready_head + ((i + 1) - 1)) % ready_cap]
      BY <1>1, <2>4, <3>1
    <3> QED BY <3>1, <3>2, <3>3
  <2> HIDE DEF rest
  <2>6. Content' = rest
    <3>1. Content' \in Seq(Task) /\ Len(Content') = Count - 1
      BY <1>2, <2>1
    <3> QED BY <2>4, <2>5, <3>1, SeqEqual
  <2> QED BY <2>2, <2>3, <2>6 DEF rest
<1> QED BY <1>3, <1>4

\* liva_scheduler_run may be read as if its ready queue were an unbounded queue:
\* the ring implements it, whatever the first capacity and the pushes.
THEOREM RingRefinesQueue == Spec => RingIsFifo
<1>1. Init => Queue!Init
  BY RefineInit
<1>2. RingTypeOK /\ [Next]_vars => [Queue!Next]_<<Content, popped>>
  <2> SUFFICES ASSUME RingTypeOK, [Next]_vars
               PROVE  [Queue!Next]_<<Content, popped>>
    OBVIOUS
  <2>1. ASSUME NEW t \in Task, Push(t) PROVE Queue!Next
    <3>1. Queue!Push(t)
      BY <2>1, RefinePush DEF Queue!Push
    <3> QED BY <3>1 DEF Queue!Next
  <2>2. ASSUME Pop PROVE Queue!Next
    <3>1. Queue!Pop
      BY <2>2, RefinePop DEF Queue!Pop
    <3> QED BY <3>1 DEF Queue!Next
  <2>3. CASE UNCHANGED vars
    BY <2>3 DEF vars, Content, Count
  <2> QED BY <2>1, <2>2, <2>3 DEF Next
<1> QED BY <1>1, <1>2, RingTypeCorrect, PTL DEF Spec, RingIsFifo, Queue!Spec
=============================================================================
