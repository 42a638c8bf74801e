--------------------------- MODULE RequestServer ---------------------------
(***************************************************************************)
(* What a tool server promises its client: every request that was asked is  *)
(* answered once, in the order asked, until the server stops.                *)
(***************************************************************************)
EXTENDS Sequences

CONSTANTS Ids, NoId

VARIABLES waiting,   \* the ids of the requests not answered yet, oldest first
          replied,   \* the id of the last answer
          stopped

rsvars == <<waiting, replied, stopped>>

RInit == waiting = <<>> /\ replied = NoId /\ stopped = FALSE

RAsk(id) ==
  /\ waiting' = Append(waiting, id)
  /\ UNCHANGED <<replied, stopped>>

RReply ==
  /\ ~stopped /\ waiting # <<>>
  /\ replied' = Head(waiting)
  /\ waiting' = Tail(waiting)
  /\ UNCHANGED stopped

RStop == stopped' = TRUE /\ UNCHANGED <<waiting, replied>>

RNext == (\E id \in Ids : RAsk(id)) \/ RReply \/ RStop

RSpec == RInit /\ [][RNext]_rsvars /\ WF_rsvars(RReply)
=============================================================================
