----------------------------- MODULE FrameLink -----------------------------
(***************************************************************************)
(* One direction of the serial line: frame_message of frame.c turns the    *)
(* bytes of a message into a frame, serial_send_message writes them out,   *)
(* and the parser at the other end takes them in.  Bytes may be lost,      *)
(* inserted or (lost and inserted) changed, and a frame may be cut short   *)
(* by a failing write.  The line has no latency of its own: it keeps the   *)
(* order of the bytes, which is all the parser can observe.                *)
(***************************************************************************)
EXTENDS FrameParser, FiniteSets

CONSTANTS
  Messages,   \* the byte contents that are sent
  NoMessage   \* for the refinement: no message is on its way

(* Every message the driver builds is far below the buffer it is framed    *)
(* into, so frame_message never returns -1 for it.                         *)
Escapes(m) == {i \in 1 .. Len(m) : m[i] \in Marker}

ASSUME MessagesFit ==
  /\ Messages \subseteq WellFormed
  /\ \A m \in Messages : Len(m) + Cardinality(Escapes(m)) + 2 <= FrameMax
ASSUME NoMessageFresh == NoMessage \notin Messages

VARIABLES
  txBusy,   \* a frame is being written
  txMsg,    \* the message in it
  txPos,    \* frame_message's i, from 1: the next byte of the message
  txEsc,    \* the escape of that byte has been written
  intact,   \* history: since the last START written, all and only the bytes
            \* of the frame have reached the parser
  aligned,  \* history: the parser could recognise that START
  heard     \* history: messages handed over during the frame, while intact

txvars == <<txBusy, txMsg, txPos, txEsc>>
lvars  == <<pvars, txvars, intact, aligned, heard>>

(* The event loop starts after koruza_init has set the handlers. *)
LinkInit ==
  /\ handler = TRUE /\ pstate = "WAIT_START" /\ buf = <<>> /\ cap = Chunk
  /\ out = <<>> /\ discarded = FALSE
  /\ txBusy = FALSE /\ txMsg = <<>> /\ txPos = 1 /\ txEsc = FALSE
  /\ intact = TRUE /\ aligned = FALSE /\ heard = <<>>

-----------------------------------------------------------------------------
(* The steps of frame_message, each writing the byte b. *)
TxStart(m, b) ==
  /\ ~txBusy
  /\ b = START
  /\ txBusy' = TRUE /\ txMsg' = m /\ txPos' = 1 /\ txEsc' = FALSE

TxEscape(b) ==
  /\ txBusy /\ txPos <= Len(txMsg) /\ ~txEsc
  /\ txMsg[txPos] \in Marker
  /\ b = ESC
  /\ txEsc' = TRUE
  /\ UNCHANGED <<txBusy, txMsg, txPos>>

(* Faulty variant: a marker may be written without its escape. *)
TxContentUnescaped(b) ==
  /\ txBusy /\ txPos <= Len(txMsg)
  /\ b = txMsg[txPos]
  /\ txPos' = txPos + 1 /\ txEsc' = FALSE
  /\ UNCHANGED <<txBusy, txMsg>>

TxContent(b) ==
  /\ txBusy /\ txPos <= Len(txMsg)
  /\ txEsc \/ txMsg[txPos] \notin Marker
  /\ b = txMsg[txPos]
  /\ txPos' = txPos + 1 /\ txEsc' = FALSE
  /\ UNCHANGED <<txBusy, txMsg>>

TxEnd(b) ==
  /\ txBusy /\ txPos > Len(txMsg)
  /\ b = END
  /\ txBusy' = FALSE
  /\ UNCHANGED <<txMsg, txPos, txEsc>>

TxBody(b) == TxEscape(b) \/ TxContent(b) \/ TxEnd(b)

-----------------------------------------------------------------------------
(* A START reaches the parser; in an escape state the parser would take it *)
(* for content.                                                            *)
StartArrives(m, b) ==
  /\ TxStart(m, b)
  /\ PushByte(b)
  /\ intact' = TRUE
  /\ aligned' = (pstate \in {"WAIT_START", "IN_FRAME"})
  /\ heard' = <<>>

BodyArrives(b) ==
  /\ TxBody(b)
  /\ PushByte(b)
  /\ heard' = IF intact THEN heard \o out' ELSE <<>>
  /\ UNCHANGED <<intact, aligned>>

(* A written byte does not reach the other end. *)
Disturb == intact' = FALSE /\ aligned' = FALSE /\ heard' = <<>>

ByteLost(b) ==
  /\ TxBody(b) \/ \E m \in Messages : TxStart(m, b)
  /\ out' = <<>>
  /\ UNCHANGED <<handler, pstate, buf, cap, discarded>>
  /\ Disturb

(* A byte reaches the parser that was not written. *)
Noise(b) ==
  /\ PushByte(b)
  /\ UNCHANGED txvars
  /\ Disturb

(* write() fails in serial_send_message: the rest of the frame is dropped. *)
WriteFails ==
  /\ txBusy
  /\ txBusy' = FALSE
  /\ out' = <<>>
  /\ UNCHANGED <<txMsg, txPos, txEsc, handler, pstate, buf, cap, discarded>>
  /\ Disturb

LinkNext ==
  \/ \E b \in Byte : BodyArrives(b) \/ \E m \in Messages : StartArrives(m, b)
  \/ WriteFails
  \/ \E b \in Byte : ByteLost(b) \/ Noise(b)

LinkSpec == LinkInit /\ [][LinkNext]_lvars

-----------------------------------------------------------------------------
LinkTypeOK ==
  /\ ParserTypeOK
  /\ txBusy \in BOOLEAN
  /\ txMsg \in Messages \cup {<<>>}
  /\ txPos \in 1 .. Len(txMsg) + 1
  /\ txEsc \in BOOLEAN
  /\ intact \in BOOLEAN
  /\ aligned \in BOOLEAN
  /\ heard \in Seq(WellFormed)

(* One intact frame resynchronises the parser, whatever came before it: it *)
(* is left waiting for a START with nothing buffered.  frame.c resets the  *)
(* parser nowhere else, not even when serial_reinit_device reopens the     *)
(* device in the middle of a frame.                                        *)
IntactResyncs ==
  ~txBusy /\ intact => pstate = "WAIT_START" /\ buf = <<>>

(* Round trip: an intact frame is handed over exactly once and unchanged   *)
(* unless the noise before it ended in an unpaired escape.  With           *)
(* IntactResyncs, every intact frame after an intact frame is handed over. *)
AlignedDelivered ==
  ~txBusy /\ intact /\ aligned => heard = <<txMsg>>

(* Framing over this line implements the abstract channel: what is handed  *)
(* over while nothing is disturbed are the messages sent, each once and in *)
(* order, and after any disturbance one whole frame is enough to get back  *)
(* to that.                                                                *)
Channel == INSTANCE MessageChannel
             WITH Accepted <- WellFormed, damaged <- ~intact, seen <- aligned,
                  pending <- IF txBusy THEN txMsg ELSE NoMessage

ImplementsChannel == Channel!ChannelSpec
=============================================================================
