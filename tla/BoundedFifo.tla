---------------------------- MODULE BoundedFifo ----------------------------
(***************************************************************************)
(* What a Liva channel promises, without its ring buffer, its mutex and    *)
(* its condition variables: a first-in first-out queue of at most Capacity *)
(* values that can be closed once and for all.  A value put before the     *)
(* close is still taken after it; a reader is told "end of stream" only    *)
(* when the queue is closed and empty.                                     *)
(***************************************************************************)
EXTENDS Naturals, Sequences

CONSTANTS Value, Reader, Capacity

VARIABLES
  queue,      \* the values put and not yet taken, oldest first
  open,       \* FALSE from the close on
  taken,      \* every value taken so far, in the order of the takes
  ended       \* the readers that were told "end of stream"

vars == <<queue, open, taken, ended>>

Init ==
  /\ queue = <<>>
  /\ open = TRUE
  /\ taken = <<>>
  /\ ended = {}

Put(v) ==
  /\ open
  /\ Len(queue) < Capacity
  /\ queue' = Append(queue, v)
  /\ UNCHANGED <<open, taken, ended>>

Take ==
  /\ queue # <<>>
  /\ queue' = Tail(queue)
  /\ taken' = Append(taken, Head(queue))
  /\ UNCHANGED <<open, ended>>

Close ==
  /\ open' = FALSE
  /\ UNCHANGED <<queue, taken, ended>>

EndOfStream(r) ==
  /\ ~open
  /\ queue = <<>>
  /\ ended' = ended \cup {r}
  /\ UNCHANGED <<queue, open, taken>>

Next ==
  \/ \E v \in Value : Put(v)
  \/ Take
  \/ Close
  \/ \E r \in Reader : EndOfStream(r)

Spec == Init /\ [][Next]_vars
=============================================================================
