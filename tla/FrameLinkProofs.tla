-------------------------- MODULE FrameLinkProofs --------------------------
(* Proofs about FrameParser for every alphabet, accepted set, limit and    *)
(* growth step; then about FrameLink: the round trip through frame_message *)
(* and the parser, for every alphabet, every set of messages that fit the  *)
(* frame and every interleaving of noise, loss and failing writes.         *)
EXTENDS FrameLink, FiniteSetTheorems, TLAPS

(* The parser by itself *)

(* One byte leaves the parser's variables in their types.                  *)
LEMMA PushByteType ==
  ASSUME ParserTypeOK, NEW b \in Byte, PushByte(b)
  PROVE  ParserTypeOK'
<1> USE SizesPositive DEF ParserTypeOK, PState
<1>1. CASE WaitStart(b)
  BY <1>1 DEF WaitStart, PushByte
<1>2. CASE WaitStartEscape(b)
  BY <1>2 DEF WaitStartEscape, PushByte
<1>3. AddToFrame(b) => /\ buf' \in Seq(Byte)
                       /\ cap' \in Nat
                       /\ discarded' \in BOOLEAN
  BY DEF AddToFrame, Overflow
<1>4. CASE InFrame(b)
  <2>1. CASE FrameEscape(b)
    BY <2>1, <1>4 DEF FrameEscape, InFrame, PushByte
  <2>2. CASE FrameRestart(b)
    <3>1. buf' \in Seq(Byte)
      BY <2>2 DEF FrameRestart
    <3> QED BY <2>2, <1>4, <3>1 DEF FrameRestart, InFrame, PushByte
  <2>3. CASE FrameEnd(b)
    BY <2>3, <1>4 DEF FrameEnd, InFrame, PushByte
  <2>4. CASE FrameContent(b)
    BY <2>4, <1>3, <1>4 DEF FrameContent, InFrame, PushByte
  <2> QED BY <1>4, <2>1, <2>2, <2>3, <2>4 DEF InFrame
<1>5. CASE AfterEscape(b)
  BY <1>5, <1>3 DEF AfterEscape, PushByte
<1> QED BY <1>1, <1>2, <1>4, <1>5 DEF PushByte

(* The inductive invariant: the bounds of BufferSafe together with the     *)
(* fact that a waiting parser is empty.                                    *)
ParserInv == ParserTypeOK /\ BufferSafe /\ WaitingIsEmpty

(* One byte preserves the bounds: the only growing step stores a byte when *)
(* length <= FrameMax, and has grown the buffer first when it was full.    *)
LEMMA PushByteSafe ==
  ASSUME ParserInv, NEW b \in Byte, PushByte(b)
  PROVE  ParserInv'
<1> USE SizesPositive DEF ParserInv, BufferSafe, WaitingIsEmpty, ParserTypeOK
<1>0. ParserTypeOK'
  BY PushByteType
<1>1. CASE WaitStart(b)
  BY <1>0, <1>1 DEF WaitStart
<1>2. CASE WaitStartEscape(b)
  BY <1>0, <1>2 DEF WaitStartEscape
<1>3. ASSUME AddToFrame(b) PROVE BufferSafe' /\ (Overflow => buf' = <<>>)
  <2>1. CASE Overflow
    BY <1>3, <2>1 DEF AddToFrame, Overflow
  <2>2. CASE ~Overflow
    <3>1. buf' = Append(buf, b) /\ Len(buf') = Len(buf) + 1
      BY <1>3, <2>2 DEF AddToFrame
    <3>2. Len(buf) <= FrameMax /\ Len(buf) \in Nat
      BY <2>2 DEF Overflow
    <3>3. cap' = IF Len(buf) = cap THEN cap + Chunk ELSE cap
      BY <1>3, <2>2 DEF AddToFrame
    <3> QED BY <3>1, <3>2, <3>3, <2>2
  <2> QED BY <2>1, <2>2
<1>4. CASE InFrame(b)
  <2>1. CASE FrameEscape(b)
    BY <1>0, <2>1, <1>4 DEF FrameEscape, InFrame
  <2>2. CASE FrameRestart(b)
    BY <1>0, <2>2, <1>4 DEF FrameRestart, InFrame
  <2>3. CASE FrameEnd(b)
    BY <1>0, <2>3, <1>4 DEF FrameEnd, InFrame
  <2>4. CASE FrameContent(b)
    BY <1>0, <2>4, <1>3, <1>4 DEF FrameContent, InFrame
  <2> QED BY <1>4, <2>1, <2>2, <2>3, <2>4 DEF InFrame
<1>5. CASE AfterEscape(b)
  BY <1>0, <1>3, <1>5 DEF AfterEscape
<1> QED BY <1>1, <1>2, <1>4, <1>5 DEF PushByte

LEMMA ParserInitInv == ParserInit => ParserInv
<1> SUFFICES ASSUME ParserInit PROVE ParserInv
  OBVIOUS
<1>1. buf \in Seq(Byte) /\ Len(buf) = 0
  BY DEF ParserInit
<1>2. ParserTypeOK
  BY <1>1, SizesPositive DEF ParserInit, ParserTypeOK, PState
<1>3. BufferSafe /\ WaitingIsEmpty
  BY <1>1, SizesPositive DEF ParserInit, BufferSafe, WaitingIsEmpty
<1> QED BY <1>2, <1>3 DEF ParserInv

LEMMA ParserNextInv == ParserInv /\ [ParserNext]_pvars => ParserInv'
<1> SUFFICES ASSUME ParserInv, [ParserNext]_pvars PROVE ParserInv'
  OBVIOUS
<1>1. CASE SetMessageHandler
  BY <1>1 DEF SetMessageHandler, ParserInv, ParserTypeOK, BufferSafe, WaitingIsEmpty
<1>2. CASE \E b \in Byte : PushByte(b)
  BY <1>2, PushByteSafe
<1>3. CASE UNCHANGED pvars
  BY <1>3 DEF pvars, ParserInv, ParserTypeOK, BufferSafe, WaitingIsEmpty
<1> QED BY <1>1, <1>2, <1>3 DEF ParserNext

(* The parser's variables keep their types, whatever bytes arrive.         *)
THEOREM ParserTypeCorrect == ParserSpec => []ParserTypeOK
<1>1. ParserInv => ParserTypeOK
  BY DEF ParserInv
<1> QED BY ParserInitInv, ParserNextInv, <1>1, PTL DEF ParserSpec

(* No byte stream makes frame_parser_add_to_frame write outside the        *)
(* buffer or grow it beyond one step above the frame limit.                *)
THEOREM ParserBufferSafe == ParserSpec => []BufferSafe
<1>1. ParserInv => BufferSafe
  BY DEF ParserInv
<1> QED BY ParserInitInv, ParserNextInv, <1>1, PTL DEF ParserSpec

(* A frame is always collected from an empty buffer.                       *)
THEOREM ParserWaitsEmpty == ParserSpec => []WaitingIsEmpty
<1>1. ParserInv => WaitingIsEmpty
  BY DEF ParserInv
<1> QED BY ParserInitInv, ParserNextInv, <1>1, PTL DEF ParserSpec

-----------------------------------------------------------------------------
(* The link *)

(* The sender has escaped the byte it is about to write only if that byte  *)
(* is a marker of the message.                                             *)
TxInv ==
  /\ txBusy => txMsg \in Messages
  /\ txBusy /\ txEsc => txPos <= Len(txMsg) /\ txMsg[txPos] \in Marker

(* While a frame arrives intact the parser is in step with the sender's    *)
(* escapes, inside the frame or (if it missed the START) outside it.       *)
InStep ==
  txBusy /\ intact =>
    pstate \in IF txEsc THEN {"AFTER_ESCAPE", "WAIT_START_ESCAPE"}
                        ELSE {"IN_FRAME", "WAIT_START"}

(* If it saw the START, it holds exactly the bytes sent so far.            *)
Collecting ==
  txBusy /\ intact /\ aligned =>
    /\ pstate = IF txEsc THEN "AFTER_ESCAPE" ELSE "IN_FRAME"
    /\ buf = SubSeq(txMsg, 1, txPos - 1)
    /\ heard = <<>>
    /\ out = <<>>

LinkInv ==
  /\ LinkTypeOK /\ WaitingIsEmpty /\ handler
  /\ TxInv /\ InStep /\ Collecting
  /\ IntactResyncs /\ AlignedDelivered

-----------------------------------------------------------------------------
(* A message is shorter than the limit at which the parser discards.       *)
LEMMA MessagesShort == \A m \in Messages : m \in Seq(Byte) /\ Len(m) + 2 <= FrameMax
<1> TAKE m \in Messages
<1>1. m \in Seq(Byte)
  BY MessagesFit, ContentsAreBytes
<1>2. IsFiniteSet(1 .. Len(m))
  BY <1>1, FS_Interval
<1>3. Cardinality(Escapes(m)) \in Nat
  BY <1>2, FS_Subset, FS_CardinalityType DEF Escapes
<1> QED BY <1>1, <1>3, MessagesFit, SizesPositive

(* Storing the next byte extends the prefix of the message.                *)
LEMMA PrefixAppend ==
  ASSUME NEW S, NEW m \in Seq(S), NEW i \in 1 .. Len(m)
  PROVE  Append(SubSeq(m, 1, i - 1), m[i]) = SubSeq(m, 1, i)
OBVIOUS

LEMMA PrefixLen ==
  ASSUME NEW S, NEW m \in Seq(S), NEW i \in 1 .. Len(m) + 1
  PROVE  Len(SubSeq(m, 1, i - 1)) = i - 1
OBVIOUS

LEMMA PrefixWhole ==
  ASSUME NEW S, NEW m \in Seq(S)
  PROVE  SubSeq(m, 1, Len(m)) = m
OBVIOUS

-----------------------------------------------------------------------------
LEMMA LinkInitInv == LinkInit => LinkInv
<1> SUFFICES ASSUME LinkInit PROVE LinkInv
  OBVIOUS
<1> USE DEF LinkInit
<1>1. buf \in Seq(Byte) /\ heard \in Seq(WellFormed)
  OBVIOUS
<1>2. txMsg = <<>> /\ Len(txMsg) = 0 /\ txPos \in 1 .. Len(txMsg) + 1
  OBVIOUS
<1>3. LinkTypeOK
  BY <1>1, <1>2, SizesPositive DEF LinkTypeOK, ParserTypeOK, PState
<1> QED BY <1>3 DEF LinkInv, WaitingIsEmpty, TxInv, InStep, Collecting,
                    IntactResyncs, AlignedDelivered

(* Whatever byte arrives, the parser keeps its types, stays empty while it *)
(* waits and keeps its handler.                                            *)
LEMMA ArrivalKeeps ==
  ASSUME LinkInv, NEW b \in Byte, PushByte(b)
  PROVE  ParserTypeOK' /\ WaitingIsEmpty' /\ handler'
<1> USE DEF LinkInv, LinkTypeOK
<1>1. ParserTypeOK'
  BY PushByteType
<1>2. handler'
  BY DEF PushByte
<1>3. WaitingIsEmpty'
  BY DEF PushByte, WaitingIsEmpty, WaitStart, WaitStartEscape, InFrame,
         FrameEscape, FrameRestart, FrameEnd, FrameContent, AfterEscape, AddToFrame
<1> QED BY <1>1, <1>2, <1>3

(* The sender's part of the type invariant.                                *)
TxTypeOK ==
  /\ txBusy \in BOOLEAN
  /\ txMsg \in Messages \cup {<<>>}
  /\ txPos \in 1 .. Len(txMsg) + 1
  /\ txEsc \in BOOLEAN

LEMMA TxStartKeeps ==
  ASSUME NEW m \in Messages, NEW b, TxStart(m, b)
  PROVE  TxTypeOK' /\ TxInv'
<1>1. Len(m) \in Nat
  BY MessagesShort
<1>2. txMsg' = m /\ txPos' = 1 /\ txBusy' = TRUE /\ txEsc' = FALSE
  BY DEF TxStart
<1>3. txPos' \in 1 .. Len(txMsg') + 1
  BY <1>1, <1>2
<1> QED BY <1>2, <1>3 DEF TxTypeOK, TxInv

LEMMA TxBodyKeeps ==
  ASSUME TxTypeOK, TxInv, NEW b \in Byte, TxBody(b)
  PROVE  TxTypeOK' /\ TxInv'
<1> USE DEF TxTypeOK, TxInv
<1>1. txMsg \in Messages /\ Len(txMsg) \in Nat
  BY MessagesShort DEF TxBody, TxEscape, TxContent, TxEnd
<1>2. txMsg' = txMsg
  BY DEF TxBody, TxEscape, TxContent, TxEnd
<1>3. txPos' \in 1 .. Len(txMsg) + 1
  BY <1>1 DEF TxBody, TxEscape, TxContent, TxEnd
<1>4. txBusy' /\ txEsc' => txPos' <= Len(txMsg) /\ txMsg[txPos'] \in Marker
  BY <1>1 DEF TxBody, TxEscape, TxContent, TxEnd
<1>5. txBusy' \in BOOLEAN /\ txEsc' \in BOOLEAN
  BY DEF TxBody, TxEscape, TxContent, TxEnd
<1> QED BY <1>1, <1>2, <1>3, <1>4, <1>5

-----------------------------------------------------------------------------
(* The parts of LinkInv that do not speak about the sender's progress.     *)
LEMMA DisturbedKeeps ==
  ASSUME Disturb
  PROVE  /\ InStep' /\ Collecting' /\ IntactResyncs' /\ AlignedDelivered'
         /\ intact' \in BOOLEAN /\ aligned' \in BOOLEAN /\ heard' \in Seq(WellFormed)
<1>1. heard' \in Seq(WellFormed)
  BY DEF Disturb
<1> QED BY <1>1 DEF Disturb, InStep, Collecting, IntactResyncs, AlignedDelivered

(* A START brings the parser in step, and to an empty buffer inside the    *)
(* frame if it was recognised.                                             *)
LEMMA StartKeeps ==
  ASSUME LinkInv, NEW m \in Messages, NEW b \in Byte, StartArrives(m, b)
  PROVE  LinkInv'
<1> USE DEF LinkInv
<1>1. ParserTypeOK' /\ WaitingIsEmpty' /\ handler'
  BY ArrivalKeeps DEF StartArrives
<1>2. TxTypeOK' /\ TxInv'
  BY TxStartKeeps DEF StartArrives
<1>3. /\ b = START /\ txBusy' /\ ~txEsc' /\ txPos' = 1 /\ txMsg' = m
      /\ intact' /\ heard' = <<>> /\ aligned' = (pstate \in {"WAIT_START", "IN_FRAME"})
  BY DEF StartArrives, TxStart
<1>4. START # END /\ START # ESC /\ START \in Marker
  BY MarkersDistinct DEF Marker
<1>5. /\ pstate' \in {"IN_FRAME", "WAIT_START"}
      /\ pstate \in {"WAIT_START", "IN_FRAME"} =>
           pstate' = "IN_FRAME" /\ buf' = <<>> /\ out' = <<>>
  <2>1. PushByte(b)
    BY DEF StartArrives
  <2>2. pstate = "WAIT_START" => buf = <<>>
    BY DEF WaitingIsEmpty
  <2> QED BY <1>3, <1>4, <2>1, <2>2 DEF PushByte, WaitStart, WaitStartEscape, InFrame,
        FrameEscape, FrameRestart, FrameEnd, FrameContent, AfterEscape
<1>6. InStep'
  BY <1>3, <1>5 DEF InStep
<1>7. SubSeq(m, 1, 1 - 1) = <<>>
  BY MessagesShort
<1>8. Collecting'
  BY <1>3, <1>5, <1>7 DEF Collecting
<1>9. heard' \in Seq(WellFormed)
  BY <1>3
<1>10. LinkTypeOK'
  BY <1>1, <1>2, <1>3, <1>9 DEF LinkTypeOK, TxTypeOK
<1> QED BY <1>1, <1>2, <1>3, <1>6, <1>8, <1>10 DEF IntactResyncs, AlignedDelivered

(* An escape takes the parser to its escape state; nothing is stored.      *)
LEMMA EscapeKeeps ==
  ASSUME LinkInv, NEW b \in Byte, PushByte(b), TxEscape(b), intact
  PROVE  /\ pstate' \in {"AFTER_ESCAPE", "WAIT_START_ESCAPE"}
         /\ aligned => pstate' = "AFTER_ESCAPE"
         /\ buf' = buf /\ out' = <<>>
<1> USE DEF LinkInv
<1>1. txBusy /\ ~txEsc /\ b = ESC /\ b # START /\ b # END
  BY MarkersDistinct DEF TxEscape
<1>2. pstate \in {"IN_FRAME", "WAIT_START"} /\ (aligned => pstate = "IN_FRAME")
  BY <1>1 DEF InStep, Collecting
<1>3. b \in Marker
  BY <1>1 DEF Marker
<1> QED BY <1>1, <1>2, <1>3 DEF PushByte, WaitStart, WaitStartEscape, InFrame,
        FrameEscape, FrameRestart, FrameEnd, FrameContent, AfterEscape

(* A content byte, escaped exactly when it is a marker, ends the escape    *)
(* and is stored by a parser that saw the START.                           *)
LEMMA ContentKeeps ==
  ASSUME LinkInv, NEW b \in Byte, PushByte(b), TxContent(b), intact
  PROVE  /\ pstate' \in {"IN_FRAME", "WAIT_START"} /\ out' = <<>>
         /\ aligned => pstate' = "IN_FRAME" /\ buf' = SubSeq(txMsg, 1, txPos)
<1> USE DEF LinkInv
<1>1. txBusy /\ txPos <= Len(txMsg) /\ b = txMsg[txPos] /\ (txEsc \/ b \notin Marker)
  BY DEF TxContent
<1>2. START \in Marker /\ END \in Marker /\ ESC \in Marker
  BY DEF Marker
<1>3. txEsc => pstate \in {"AFTER_ESCAPE", "WAIT_START_ESCAPE"}
  BY <1>1 DEF InStep
<1>4. ~txEsc => b \notin Marker /\ pstate \in {"IN_FRAME", "WAIT_START"}
  BY <1>1 DEF InStep
<1>5. pstate' \in {"IN_FRAME", "WAIT_START"} /\ out' = <<>>
  BY <1>2, <1>3, <1>4 DEF PushByte, WaitStart, WaitStartEscape, InFrame,
        FrameEscape, FrameRestart, FrameEnd, FrameContent, AfterEscape
<1>6. ASSUME aligned PROVE pstate' = "IN_FRAME" /\ buf' = SubSeq(txMsg, 1, txPos)
  <2>1. /\ pstate = IF txEsc THEN "AFTER_ESCAPE" ELSE "IN_FRAME"
        /\ buf = SubSeq(txMsg, 1, txPos - 1)
    BY <1>1, <1>6 DEF Collecting
  <2>2. txMsg \in Seq(Byte) /\ Len(txMsg) + 2 <= FrameMax /\ txPos \in 1 .. Len(txMsg)
    BY <1>1, MessagesShort DEF TxInv, LinkTypeOK
  <2>3. Len(buf) = txPos - 1
    BY <2>1, <2>2, PrefixLen
  <2>4. ~Overflow
    BY <2>2, <2>3, SizesPositive DEF Overflow
  <2>5. AddToFrame(b) => buf' = SubSeq(txMsg, 1, txPos)
    BY <1>1, <2>1, <2>2, <2>4, PrefixAppend DEF AddToFrame
  <2>6. CASE txEsc
    BY <2>1, <2>5, <2>6 DEF PushByte, WaitStart, WaitStartEscape, InFrame, AfterEscape
  <2>7. CASE ~txEsc
    BY <1>2, <1>4, <2>1, <2>4, <2>5, <2>7 DEF PushByte, WaitStart, WaitStartEscape,
       InFrame, FrameEscape, FrameRestart, FrameEnd, FrameContent, AfterEscape
  <2> QED BY <2>6, <2>7
<1> QED BY <1>5, <1>6

(* The END leaves the parser waiting and empty, and hands the whole        *)
(* message over if the parser saw the START.                               *)
LEMMA EndKeeps ==
  ASSUME LinkInv, NEW b \in Byte, PushByte(b), TxEnd(b), intact
  PROVE  /\ pstate' = "WAIT_START" /\ buf' = <<>>
         /\ aligned => out' = <<txMsg>>
<1> USE DEF LinkInv
<1>1. txBusy /\ txPos > Len(txMsg) /\ b = END /\ b # START /\ b # ESC /\ b \in Marker
  BY MarkersDistinct DEF TxEnd, Marker
<1>2. txMsg \in Messages /\ txMsg \in Seq(Byte) /\ Len(txMsg) \in Nat
  BY <1>1, MessagesShort DEF TxInv
<1>3. ~txEsc /\ txPos = Len(txMsg) + 1
  BY <1>1, <1>2 DEF TxInv, LinkTypeOK
<1>4. pstate \in {"IN_FRAME", "WAIT_START"}
  BY <1>1, <1>3 DEF InStep
<1>5. pstate' = "WAIT_START" /\ buf' = <<>>
  BY <1>1, <1>4 DEF WaitingIsEmpty, PushByte, WaitStart, WaitStartEscape, InFrame,
        FrameEscape, FrameRestart, FrameEnd, FrameContent, AfterEscape
<1>6. ASSUME aligned PROVE out' = <<txMsg>>
  <2>1. pstate = "IN_FRAME" /\ buf = SubSeq(txMsg, 1, txPos - 1)
    BY <1>1, <1>3, <1>6 DEF Collecting
  <2>2. buf = SubSeq(txMsg, 1, Len(txMsg))
    BY <1>2, <1>3, <2>1
  <2>3. buf = txMsg
    BY <1>2, <2>2, PrefixWhole
  <2>4. buf \in WellFormed
    BY <1>2, <2>3, MessagesFit
  <2> QED BY <1>1, <2>1, <2>3, <2>4 DEF PushByte, WaitStart, WaitStartEscape, InFrame,
        FrameEscape, FrameRestart, FrameEnd, FrameContent, AfterEscape
<1> QED BY <1>5, <1>6

LEMMA BodyKeeps ==
  ASSUME LinkInv, NEW b \in Byte, BodyArrives(b)
  PROVE  LinkInv'
<1> USE DEF LinkInv
<1>1. ParserTypeOK' /\ WaitingIsEmpty' /\ handler'
  BY ArrivalKeeps DEF BodyArrives
<1>2. TxTypeOK' /\ TxInv'
  BY TxBodyKeeps DEF BodyArrives, LinkTypeOK, TxTypeOK
<1>3. /\ PushByte(b) /\ TxBody(b) /\ txBusy /\ txMsg' = txMsg
      /\ intact' = intact /\ aligned' = aligned
      /\ heard' = IF intact THEN heard \o out' ELSE <<>>
  BY DEF BodyArrives, TxBody, TxEscape, TxContent, TxEnd
<1>4. heard' \in Seq(WellFormed)
  <2>1. out' \in {<<>>} \cup {<<m>> : m \in WellFormed}
    BY <1>1 DEF ParserTypeOK
  <2>2. out' \in Seq(WellFormed)
    <3>1. CASE out' = <<>>
      BY <3>1
    <3>2. ASSUME NEW m \in WellFormed, out' = <<m>> PROVE out' \in Seq(WellFormed)
      BY <3>2
    <3> QED BY <2>1, <3>1, <3>2
  <2> QED BY <1>3, <2>2 DEF LinkTypeOK
<1>5. LinkTypeOK'
  BY <1>1, <1>2, <1>3, <1>4 DEF LinkTypeOK, TxTypeOK
<1>6. CASE ~intact
  BY <1>1, <1>2, <1>3, <1>5, <1>6 DEF InStep, Collecting, IntactResyncs, AlignedDelivered,
     LinkTypeOK
<1>7. CASE intact
  <2>1. CASE TxEscape(b)
    <3>1. txBusy' /\ txEsc' /\ txPos' = txPos
      BY <2>1 DEF TxEscape
    <3>2. /\ pstate' \in {"AFTER_ESCAPE", "WAIT_START_ESCAPE"}
          /\ aligned => pstate' = "AFTER_ESCAPE"
          /\ buf' = buf /\ out' = <<>>
      BY <1>3, <1>7, <2>1, EscapeKeeps
    <3>3. aligned => heard' = <<>>
      BY <1>3, <1>7, <3>2 DEF Collecting
    <3>4. InStep' /\ Collecting'
      BY <1>3, <3>1, <3>2, <3>3, <1>7 DEF InStep, Collecting
    <3> QED BY <1>1, <1>2, <1>5, <3>1, <3>4 DEF IntactResyncs, AlignedDelivered
  <2>2. CASE TxContent(b)
    <3>1. txBusy' /\ ~txEsc' /\ txPos' = txPos + 1 /\ txPos \in Nat
      BY <2>2 DEF TxContent, LinkTypeOK
    <3>2. /\ pstate' \in {"IN_FRAME", "WAIT_START"} /\ out' = <<>>
          /\ aligned => pstate' = "IN_FRAME" /\ buf' = SubSeq(txMsg, 1, txPos)
      BY <1>3, <1>7, <2>2, ContentKeeps
    <3>3. aligned => heard' = <<>>
      BY <1>3, <1>7, <3>2 DEF Collecting
    <3>4. txPos' - 1 = txPos
      BY <3>1
    <3>5. InStep' /\ Collecting'
      BY <1>3, <3>1, <3>2, <3>3, <3>4, <1>7 DEF InStep, Collecting
    <3> QED BY <1>1, <1>2, <1>5, <3>1, <3>5 DEF IntactResyncs, AlignedDelivered
  <2>3. CASE TxEnd(b)
    <3>1. ~txBusy'
      BY <2>3 DEF TxEnd
    <3>2. /\ pstate' = "WAIT_START" /\ buf' = <<>>
          /\ aligned => out' = <<txMsg>>
      BY <1>3, <1>7, <2>3, EndKeeps
    <3>3. ASSUME aligned PROVE heard' = <<txMsg>>
      <4>1. heard = <<>> /\ out' = <<txMsg>>
        BY <1>3, <1>7, <3>2, <3>3 DEF Collecting
      <4> QED BY <1>3, <1>7, <4>1
    <3> QED BY <1>1, <1>2, <1>3, <1>5, <3>1, <3>2, <3>3 DEF InStep, Collecting,
            IntactResyncs, AlignedDelivered
  <2> QED BY <1>3, <2>1, <2>2, <2>3 DEF TxBody
<1> QED BY <1>6, <1>7

LEMMA DisturbanceKeeps ==
  ASSUME LinkInv, WriteFails \/ \E b \in Byte : ByteLost(b) \/ Noise(b)
  PROVE  LinkInv'
<1> USE DEF LinkInv
<1>1. Disturb
  BY DEF WriteFails, ByteLost, Noise
<1>2. /\ InStep' /\ Collecting' /\ IntactResyncs' /\ AlignedDelivered'
      /\ intact' \in BOOLEAN /\ aligned' \in BOOLEAN /\ heard' \in Seq(WellFormed)
  BY <1>1, DisturbedKeeps
<1>3. CASE WriteFails
  <2>1. ParserTypeOK' /\ WaitingIsEmpty' /\ handler'
    BY <1>3 DEF WriteFails, LinkTypeOK, ParserTypeOK, WaitingIsEmpty
  <2>2. TxTypeOK' /\ TxInv'
    BY <1>3 DEF WriteFails, LinkTypeOK, TxTypeOK, TxInv
  <2> QED BY <1>2, <2>1, <2>2 DEF LinkTypeOK, TxTypeOK
<1>4. ASSUME NEW b \in Byte, ByteLost(b) PROVE LinkInv'
  <2>1. ParserTypeOK' /\ WaitingIsEmpty' /\ handler'
    BY <1>4 DEF ByteLost, LinkTypeOK, ParserTypeOK, WaitingIsEmpty
  <2>2. TxTypeOK' /\ TxInv'
    BY <1>4, TxBodyKeeps, TxStartKeeps DEF ByteLost, LinkTypeOK, TxTypeOK
  <2> QED BY <1>2, <2>1, <2>2 DEF LinkTypeOK, TxTypeOK
<1>5. ASSUME NEW b \in Byte, Noise(b) PROVE LinkInv'
  <2>1. ParserTypeOK' /\ WaitingIsEmpty' /\ handler'
    BY <1>5, ArrivalKeeps DEF Noise
  <2>2. TxTypeOK' /\ TxInv'
    BY <1>5 DEF Noise, txvars, LinkTypeOK, TxTypeOK, TxInv
  <2> QED BY <1>2, <2>1, <2>2 DEF LinkTypeOK, TxTypeOK
<1> QED BY <1>3, <1>4, <1>5

LEMMA LinkNextInv == LinkInv /\ [LinkNext]_lvars => LinkInv'
<1> SUFFICES ASSUME LinkInv, [LinkNext]_lvars PROVE LinkInv'
  OBVIOUS
<1>1. CASE \E b \in Byte : BodyArrives(b) \/ \E m \in Messages : StartArrives(m, b)
  BY <1>1, StartKeeps, BodyKeeps
<1>2. CASE WriteFails \/ \E b \in Byte : ByteLost(b) \/ Noise(b)
  BY <1>2, DisturbanceKeeps
<1>3. CASE UNCHANGED lvars
  BY <1>3 DEF lvars, pvars, txvars, LinkInv, LinkTypeOK, ParserTypeOK, WaitingIsEmpty,
     TxInv, InStep, Collecting, IntactResyncs, AlignedDelivered
<1> QED BY <1>1, <1>2, <1>3 DEF LinkNext

LEMMA LinkInvariant == LinkSpec => []LinkInv
BY LinkInitInv, LinkNextInv, PTL DEF LinkSpec

-----------------------------------------------------------------------------
(* The variables of the link keep their types.                             *)
THEOREM LinkTypeCorrect == LinkSpec => []LinkTypeOK
<1>1. LinkInv => LinkTypeOK
  BY DEF LinkInv
<1> QED BY LinkInvariant, <1>1, PTL

(* One intact frame resynchronises the parser, whatever came before.       *)
THEOREM LinkResyncs == LinkSpec => []IntactResyncs
<1>1. LinkInv => IntactResyncs
  BY DEF LinkInv
<1> QED BY LinkInvariant, <1>1, PTL

(* An intact frame whose START was recognised is handed over exactly once, *)
(* unchanged.                                                              *)
THEOREM LinkDelivers == LinkSpec => []AlignedDelivered
<1>1. LinkInv => AlignedDelivered
  BY DEF LinkInv
<1> QED BY LinkInvariant, <1>1, PTL

(* Every step of the link gives the parser a byte or leaves it alone.      *)
LEMMA LinkNextParser == ParserInv /\ LinkInv' /\ [LinkNext]_lvars => ParserInv'
<1> SUFFICES ASSUME ParserInv, LinkInv', [LinkNext]_lvars PROVE ParserInv'
  OBVIOUS
<1>1. ASSUME NEW b \in Byte, PushByte(b) PROVE ParserInv'
  BY <1>1, PushByteSafe
<1>2. ParserTypeOK'
  BY DEF LinkInv, LinkTypeOK
<1>3. ASSUME UNCHANGED <<pstate, buf, cap>> PROVE ParserInv'
  BY <1>2, <1>3 DEF ParserInv, BufferSafe, WaitingIsEmpty
<1>4. \/ \E b \in Byte : PushByte(b)
      \/ UNCHANGED <<pstate, buf, cap>>
  BY DEF LinkNext, StartArrives, BodyArrives, WriteFails, ByteLost, Noise, lvars, pvars
<1> QED BY <1>1, <1>3, <1>4

(* The parser of a link writes inside its buffer and waits with an empty   *)
(* one.                                                                    *)
THEOREM LinkBufferSafe == LinkSpec => [](BufferSafe /\ WaitingIsEmpty)
<1>1. LinkInit => ParserInv
  BY LinkInitInv, SizesPositive DEF LinkInit, LinkInv, LinkTypeOK, ParserInv, BufferSafe
<1>2. ParserInv => BufferSafe /\ WaitingIsEmpty
  BY DEF ParserInv
<1> QED BY LinkInvariant, LinkNextParser, <1>1, <1>2, PTL DEF LinkSpec

-----------------------------------------------------------------------------
(* Every outcome of the parser is an outcome of the channel.               *)
LEMMA OutcomeNext == LinkInv' => out' \in Channel!Outcome
BY DEF LinkInv, LinkTypeOK, ParserTypeOK, Channel!Outcome

(* What the sender does to the message on its way.                         *)
LEMMA PendingBody ==
  ASSUME NEW b, TxBody(b)
  PROVE  txBusy /\ txMsg' = txMsg
BY DEF TxBody, TxEscape, TxContent, TxEnd

LEMMA StartIsSend ==
  ASSUME LinkInv, NEW b \in Byte, NEW m \in Messages, StartArrives(m, b)
  PROVE  Channel!Send(m)
<1>1. ~txBusy /\ txBusy' /\ txMsg' = m /\ b = START /\ intact'
  BY DEF StartArrives, TxStart
<1>2. START # END /\ START # ESC /\ START \in Marker
  BY MarkersDistinct DEF Marker
<1>3. out' = <<>>
  BY <1>1, <1>2 DEF StartArrives, PushByte, WaitStart, WaitStartEscape, InFrame,
     FrameEscape, FrameRestart, FrameEnd, FrameContent, AfterEscape
<1>4. aligned' \in BOOLEAN
  BY DEF StartArrives
<1>5. intact => aligned'
  BY <1>1 DEF LinkInv, IntactResyncs, StartArrives
<1> QED BY <1>1, <1>3, <1>4, <1>5 DEF Channel!Send

(* A byte of a frame that is intact and was recognised is a step inside    *)
(* the message or, if it is the END, its hand-over.                        *)
LEMMA BodyIsHandOver ==
  ASSUME LinkInv, NEW b \in Byte, BodyArrives(b), intact, aligned
  PROVE  Channel!HandOver \/ UNCHANGED Channel!cvars
<1> USE DEF LinkInv
<1>1. /\ PushByte(b) /\ TxBody(b) /\ txBusy /\ out = <<>>
      /\ txMsg \in Messages /\ txMsg' = txMsg
      /\ intact' = intact /\ aligned' = aligned
  BY PendingBody DEF BodyArrives, Collecting, TxInv
<1>2. CASE TxEscape(b)
  <2>1. out' = <<>> /\ txBusy'
    BY <1>1, <1>2, EscapeKeeps DEF TxEscape
  <2> QED BY <1>1, <2>1 DEF Channel!cvars
<1>3. CASE TxContent(b)
  <2>1. out' = <<>> /\ txBusy'
    BY <1>1, <1>3, ContentKeeps DEF TxContent
  <2> QED BY <1>1, <2>1 DEF Channel!cvars
<1>4. CASE TxEnd(b)
  <2>1. out' = <<txMsg>> /\ ~txBusy'
    BY <1>1, <1>4, EndKeeps DEF TxEnd
  <2>2. txMsg # NoMessage
    BY <1>1, NoMessageFresh
  <2> QED BY <1>1, <2>1, <2>2 DEF Channel!HandOver
<1> QED BY <1>1, <1>2, <1>3, <1>4 DEF TxBody

LEMMA BodyIsPass ==
  ASSUME LinkInv, LinkInv', NEW b \in Byte, BodyArrives(b), ~intact \/ ~aligned
  PROVE  Channel!Pass
<1>1. txBusy /\ txMsg \in Messages /\ txMsg' = txMsg /\ txBusy' \in BOOLEAN
  BY PendingBody DEF BodyArrives, LinkInv, TxInv, LinkTypeOK
<1>2. txMsg # NoMessage
  BY <1>1, NoMessageFresh
<1>3. intact' = intact /\ aligned' = aligned
  BY DEF BodyArrives
<1>4. out' \in Channel!Outcome
  BY OutcomeNext
<1> QED BY <1>1, <1>2, <1>3, <1>4 DEF Channel!Pass

LEMMA DisturbedIsDisturbance ==
  ASSUME LinkInv, LinkInv', WriteFails \/ \E b \in Byte : ByteLost(b) \/ Noise(b)
  PROVE  Channel!Disturbance
<1>1. ~intact' /\ ~aligned'
  BY DEF WriteFails, ByteLost, Noise, Disturb
<1>2. out' \in Channel!Outcome
  BY OutcomeNext
<1> DEFINE pending == IF txBusy THEN txMsg ELSE NoMessage
           after   == IF txBusy' THEN txMsg' ELSE NoMessage
<1>3. after \in {pending, NoMessage} \/ (pending = NoMessage /\ after \in Messages)
  <2>1. CASE WriteFails
    BY <2>1 DEF WriteFails
  <2>2. ASSUME NEW b \in Byte, TxBody(b) PROVE after \in {pending, NoMessage}
    BY <2>2, PendingBody
  <2>3. ASSUME NEW b \in Byte, NEW m \in Messages, TxStart(m, b)
        PROVE  pending = NoMessage /\ after \in Messages
    BY <2>3 DEF TxStart
  <2>4. ASSUME NEW b \in Byte, Noise(b) PROVE after = pending
    BY <2>4 DEF Noise, txvars
  <2> QED BY <2>1, <2>2, <2>3, <2>4 DEF ByteLost
<1> QED BY <1>1, <1>2, <1>3 DEF Channel!Disturbance

LEMMA LinkStepIsChannelStep ==
  LinkInv /\ LinkInv' /\ [LinkNext]_lvars => [Channel!ChannelNext]_(Channel!cvars)
<1> SUFFICES ASSUME LinkInv, LinkInv', [LinkNext]_lvars
             PROVE  [Channel!ChannelNext]_(Channel!cvars)
  OBVIOUS
<1>1. ASSUME NEW b \in Byte, BodyArrives(b)
      PROVE  Channel!HandOver \/ Channel!Pass \/ UNCHANGED Channel!cvars
  BY <1>1, BodyIsHandOver, BodyIsPass
<1>2. ASSUME NEW b \in Byte, NEW m \in Messages, StartArrives(m, b) PROVE Channel!Send(m)
  BY <1>2, StartIsSend
<1>3. CASE WriteFails \/ \E b \in Byte : ByteLost(b) \/ Noise(b)
  BY <1>3, DisturbedIsDisturbance DEF Channel!ChannelNext
<1>4. CASE UNCHANGED lvars
  BY <1>4 DEF lvars, pvars, txvars, Channel!cvars
<1> QED BY <1>1, <1>2, <1>3, <1>4 DEF LinkNext, Channel!ChannelNext

(* frame_message, the line and the parser together implement the abstract  *)
(* channel, with every loss, insertion and failing write.                  *)
THEOREM LinkImplementsChannel == LinkSpec => ImplementsChannel
<1>1. LinkInit => Channel!ChannelInit
  BY DEF LinkInit, Channel!ChannelInit
<1> QED BY LinkInvariant, LinkStepIsChannelStep, <1>1, PTL
        DEF LinkSpec, ImplementsChannel, Channel!ChannelSpec
=============================================================================
