--------------------------- MODULE MessageChannel ---------------------------
(***************************************************************************)
(* What the framing layer promises.  Messages are sent one after the       *)
(* other.  A message that is not disturbed and whose beginning is seen is  *)
(* handed to the receiver exactly once, unchanged, before the next one is  *)
(* sent; and the beginning is certainly seen when nothing was disturbed    *)
(* since the message before it began.  Otherwise the receiver may be given *)
(* anything it accepts.                                                    *)
(***************************************************************************)
EXTENDS Sequences

CONSTANTS Messages, Accepted, NoMessage

VARIABLES
  pending,  \* the message on its way, or NoMessage
  damaged,  \* something was disturbed since the last message began
  seen,     \* the receiver saw that beginning
  out       \* <<m>> after the step that hands over m, <<>> otherwise

cvars == <<pending, damaged, seen, out>>

Outcome == {<<>>} \cup {<<m>> : m \in Accepted}

ChannelInit == pending = NoMessage /\ ~damaged /\ ~seen /\ out = <<>>

Send(m) ==
  /\ pending = NoMessage
  /\ pending' = m
  /\ damaged' = FALSE
  /\ seen' \in BOOLEAN /\ (~damaged => seen')
  /\ out' = <<>>

HandOver ==
  /\ pending # NoMessage /\ seen /\ ~damaged
  /\ out' = <<pending>>
  /\ pending' = NoMessage
  /\ UNCHANGED <<damaged, seen>>

(* Part or all of a message that is not received properly goes by. *)
Pass ==
  /\ pending # NoMessage /\ (damaged \/ ~seen)
  /\ out' \in Outcome
  /\ pending' \in {pending, NoMessage}
  /\ UNCHANGED <<damaged, seen>>

Disturbance ==
  /\ damaged' = TRUE /\ seen' = FALSE
  /\ out' \in Outcome
  /\ \/ pending' \in {pending, NoMessage}
     \/ pending = NoMessage /\ pending' \in Messages

ChannelNext == HandOver \/ Pass \/ Disturbance \/ \E m \in Messages : Send(m)

ChannelSpec == ChannelInit /\ [][ChannelNext]_cvars
=============================================================================
