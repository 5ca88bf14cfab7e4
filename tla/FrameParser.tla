---------------------------- MODULE FrameParser ----------------------------
(***************************************************************************)
(* The receiving half of the serial framing layer: parser_t of frame.h and *)
(* frame_parser_push_byte of frame.c, fed one byte at a time by            *)
(* frame_parser_push_buffer.  A frame is START content END; inside it ESC  *)
(* makes the next byte content.  What message_parse makes of the content   *)
(* is abstracted to the set WellFormed of contents it accepts.             *)
(***************************************************************************)
EXTENDS Naturals, Sequences

CONSTANTS
  START, END, ESC,   \* FRAME_MARKER_START, FRAME_MARKER_END, FRAME_MARKER_ESCAPE
  Data,              \* the other byte values
  WellFormed,        \* the contents for which message_parse returns MESSAGE_SUCCESS
  FrameMax,          \* FRAME_MAX_LENGTH
  Chunk              \* the step in which the buffer is grown (1024)

Marker == {START, END, ESC}
Byte   == Data \cup Marker

ASSUME MarkersDistinct ==
  START # END /\ START # ESC /\ END # ESC /\ Data \cap Marker = {}
ASSUME SizesPositive == FrameMax \in Nat /\ Chunk \in Nat \ {0}
ASSUME ContentsAreBytes == WellFormed \subseteq Seq(Byte)

VARIABLES
  handler,    \* parser->handler # NULL
  pstate,     \* parser->state
  buf,        \* the first parser->length bytes of parser->buffer
  cap,        \* parser->buffer_size
  out,        \* the message handed to the handler by the last step, <<>> if none
  discarded   \* history: an oversized frame was dropped and no START seen since

pvars == <<handler, pstate, buf, cap, out, discarded>>

PState == {"WAIT_START", "WAIT_START_ESCAPE", "IN_FRAME", "AFTER_ESCAPE"}

ParserInit ==
  /\ handler = FALSE
  /\ pstate = "WAIT_START"
  /\ buf = <<>>
  /\ cap = Chunk
  /\ out = <<>>
  /\ discarded = FALSE

(* serial_set_message_handler, called once by koruza_init for each device. *)
SetMessageHandler ==
  /\ ~handler
  /\ handler' = TRUE
  /\ out' = <<>>
  /\ UNCHANGED <<pstate, buf, cap, discarded>>

-----------------------------------------------------------------------------
(* frame_parser_add_to_frame: drop everything when too much is buffered,   *)
(* otherwise grow the buffer when it is full and store the byte.  The drop *)
(* sets the state to WAIT_START, which the caller may overwrite.           *)
Overflow == Len(buf) > FrameMax

(* Faulty variant: the buffer never grows. *)
AddToFrameNoGrowth(b) ==
  /\ buf' = IF Overflow THEN <<>> ELSE Append(buf, b)
  /\ cap' = cap
  /\ discarded' = (discarded \/ Overflow)

AddToFrame(b) ==
  /\ buf' = IF Overflow THEN <<>> ELSE Append(buf, b)
  /\ cap' = IF ~Overflow /\ Len(buf) = cap THEN cap + Chunk ELSE cap
  /\ discarded' = (discarded \/ Overflow)

WaitStart(b) ==
  /\ pstate = "WAIT_START"
  /\ pstate' = CASE b = ESC   -> "WAIT_START_ESCAPE"
                 [] b = START -> "IN_FRAME"
                 [] OTHER     -> "WAIT_START"
  /\ discarded' = (discarded /\ b # START)
  /\ out' = <<>>
  /\ UNCHANGED <<buf, cap>>

WaitStartEscape(b) ==
  /\ pstate = "WAIT_START_ESCAPE"
  /\ pstate' = "WAIT_START"
  /\ out' = <<>>
  /\ UNCHANGED <<buf, cap, discarded>>

(* SERIAL_STATE_IN_FRAME, by the byte received *)
FrameEscape(b) ==
  /\ b = ESC
  /\ pstate' = "AFTER_ESCAPE"
  /\ out' = <<>>
  /\ UNCHANGED <<buf, cap, discarded>>

(* Faulty variant: a START inside a frame does not drop the old bytes. *)
FrameRestartKeeps(b) ==
  /\ b = START
  /\ discarded' = FALSE
  /\ out' = <<>>
  /\ UNCHANGED <<pstate, buf, cap>>

FrameRestart(b) ==
  /\ b = START
  /\ buf' = <<>>
  /\ discarded' = FALSE
  /\ out' = <<>>
  /\ UNCHANGED <<pstate, cap>>

(* Faulty variants: the result of message_parse is not looked at; the      *)
(* length is not reset.                                                    *)
FrameEndUnparsed(b) ==
  /\ b = END
  /\ out' = IF handler THEN <<buf>> ELSE <<>>
  /\ buf' = <<>>
  /\ pstate' = "WAIT_START"
  /\ UNCHANGED <<cap, discarded>>

FrameEndKeeps(b) ==
  /\ b = END
  /\ out' = IF handler /\ buf \in WellFormed THEN <<buf>> ELSE <<>>
  /\ pstate' = "WAIT_START"
  /\ UNCHANGED <<buf, cap, discarded>>

FrameEnd(b) ==
  /\ b = END
  /\ out' = IF handler /\ buf \in WellFormed THEN <<buf>> ELSE <<>>
  /\ buf' = <<>>
  /\ pstate' = "WAIT_START"
  /\ UNCHANGED <<cap, discarded>>

FrameContent(b) ==
  /\ b \notin Marker
  /\ AddToFrame(b)
  /\ pstate' = IF Overflow THEN "WAIT_START" ELSE "IN_FRAME"
  /\ out' = <<>>

InFrame(b) ==
  /\ pstate = "IN_FRAME"
  /\ FrameEscape(b) \/ FrameRestart(b) \/ FrameEnd(b) \/ FrameContent(b)

(* Faulty variant: the escaped byte is not stored. *)
AfterEscapeDrops(b) ==
  /\ pstate = "AFTER_ESCAPE"
  /\ pstate' = "IN_FRAME"
  /\ out' = <<>>
  /\ UNCHANGED <<buf, cap, discarded>>

(* The state set by frame_parser_add_to_frame is overwritten here. *)
AfterEscape(b) ==
  /\ pstate = "AFTER_ESCAPE"
  /\ AddToFrame(b)
  /\ pstate' = "IN_FRAME"
  /\ out' = <<>>

(* frame_parser_push_byte *)
PushByte(b) ==
  /\ WaitStart(b) \/ WaitStartEscape(b) \/ InFrame(b) \/ AfterEscape(b)
  /\ UNCHANGED handler

ParserNext == SetMessageHandler \/ \E b \in Byte : PushByte(b)

ParserSpec == ParserInit /\ [][ParserNext]_pvars

-----------------------------------------------------------------------------
(* The types of the parser's variables. *)
ParserTypeOK ==
  /\ handler \in BOOLEAN
  /\ pstate \in PState
  /\ buf \in Seq(Byte)
  /\ cap \in Nat
  /\ out \in {<<>>} \cup {<<m>> : m \in WellFormed}
  /\ discarded \in BOOLEAN

(* The write parser->buffer[parser->length] of frame_parser_add_to_frame   *)
(* always falls inside the allocation, and the allocation itself stays     *)
(* within one growth step of the frame limit whatever bytes arrive.        *)
BufferSafe ==
  /\ Len(buf) <= cap
  /\ Len(buf) <= FrameMax + 1
  /\ cap <= FrameMax + Chunk

(* A parser that waits for a START holds no bytes, so the next frame is    *)
(* collected from an empty buffer although START does not clear it.        *)
WaitingIsEmpty ==
  pstate \in {"WAIT_START", "WAIT_START_ESCAPE"} => buf = <<>>

(* frame.c:55 "If there is already too many bytes in the buffer, discard   *)
(* them and resync": what follows a discarded frame is not handed over as  *)
(* a message until a START marker has been seen.                           *)
ResyncAfterDiscard == [][discarded => out' = <<>>]_pvars
=============================================================================
