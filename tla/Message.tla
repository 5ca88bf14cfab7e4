------------------------------ MODULE Message ------------------------------
(***************************************************************************)
(* message.c: a protocol message is a list of at most MaxTlvs TLVs.  The   *)
(* module follows one message that is built with message_tlv_add and       *)
(* message_tlv_add_checksum, or one that arrives as any bytes whatever,    *)
(* through message_parse, one loop iteration per step, with the heap       *)
(* blocks that hold the values counted, and on to the typed getters.       *)
(* Values are the bytes of a structure in network byte order.              *)
(***************************************************************************)
EXTENDS Naturals, Sequences, SequencesExt

CONSTANTS
  Base,          \* the number of byte values (256)
  CHECKSUM,      \* TLV_CHECKSUM
  TlvType,       \* the types message_tlv_add is called with
  Size,          \* sizeof the structure of each of them
  Value,         \* the structures it is called with
  MaxTlvs,       \* MAX_TLV_COUNT
  Crc(_),        \* crc32 of a sequence of bytes, as the bytes of the checksum
  MaxWire        \* bound on the length of an arriving message

Byte == 0 .. Base - 1

ASSUME BaseOK == Base \in Nat \ {0, 1}
ASSUME TypesOK == CHECKSUM \in Byte /\ TlvType \subseteq Byte \ {CHECKSUM}
ASSUME SizesOK == Size \in [TlvType -> Nat]
ASSUME ValuesOK == \A v \in Value : v \in Seq(Byte) /\ Len(v) < Base * Base
ASSUME LimitsOK == MaxTlvs \in Nat /\ MaxWire \in Nat

VARIABLES
  phase,    \* "build", "parse", "done", or "aborted" by an assertion
  msg,      \* the message built, a sequence of TLVs
  wire,     \* its serialization, or what arrived instead
  foreign,  \* history: wire arrived and is not the serialization of msg
  parsed,   \* the TLVs of the message being parsed
  offset,   \* how many bytes of wire are parsed
  heap,     \* history: value blocks of parsed that are allocated
  result,   \* message_result_t of message_parse
  got       \* what the last typed getter returned

vars == <<phase, msg, wire, foreign, parsed, offset, heap, result, got>>

NoGet == [type |-> CHECKSUM, result |-> "NONE", value |-> <<>>]

Tlv(t, v) == [type |-> t, value |-> v]

Init ==
  /\ phase = "build"
  /\ msg = <<>> /\ wire = <<>> /\ foreign = FALSE
  /\ parsed = <<>> /\ offset = 0 /\ heap = 0 /\ result = "NONE"
  /\ got = NoGet

-----------------------------------------------------------------------------
(* message_checksum covers the values, not the types. *)
Checksum(m) == Crc(FlattenSeq([i \in DOMAIN m |-> m[i].value]))

(* Faulty variant: no limit on the number of TLVs. *)
TlvAddUnbounded(t, v) ==
  /\ phase = "build"
  /\ msg' = Append(msg, Tlv(t, v))
  /\ UNCHANGED <<phase, wire, foreign, parsed, offset, heap, result, got>>

(* message_tlv_add, which adds nothing when the message is full or memory  *)
(* runs out; its callers do not look at the result.                        *)
TlvAdd(t, v) ==
  /\ phase = "build"
  /\ msg' = msg \/ (Len(msg) < MaxTlvs /\ msg' = Append(msg, Tlv(t, v)))
  /\ UNCHANGED <<phase, wire, foreign, parsed, offset, heap, result, got>>

AddChecksum == TlvAdd(CHECKSUM, Checksum(msg))

(* Faulty variant: the length is written in host byte order. *)
HeaderHostOrder(tlv) == <<tlv.type, Len(tlv.value) % Base, Len(tlv.value) \div Base>>

(* message_serialize; the length is in network byte order *)
Header(tlv) == <<tlv.type, Len(tlv.value) \div Base, Len(tlv.value) % Base>>
Serialize(m) == FlattenSeq([i \in DOMAIN m |-> Header(m[i]) \o m[i].value])

Send ==
  /\ phase = "build"
  /\ wire' = Serialize(msg)
  /\ phase' = "parse"
  /\ UNCHANGED <<msg, foreign, parsed, offset, heap, result, got>>

(* Any other bytes between START and END of a frame (external) *)
Arrive ==
  /\ phase = "build" /\ msg = <<>>
  /\ \E n \in 0 .. MaxWire : wire' \in [1 .. n -> Byte]
  /\ foreign' = TRUE
  /\ phase' = "parse"
  /\ UNCHANGED <<msg, parsed, offset, heap, result, got>>

-----------------------------------------------------------------------------
(* message_parse *)
HeaderSize == 3
(* Faulty variant: only the low byte of the length is read. *)
ValueLengthLow(o) == wire[o + 3]

ValueLength(o) == wire[o + 2] * Base + wire[o + 3]
ValueAt(o) == SubSeq(wire, o + HeaderSize + 1, o + HeaderSize + ValueLength(o))

Fits(o) ==
  /\ o + HeaderSize <= Len(wire)
  /\ o + HeaderSize + ValueLength(o) <= Len(wire)

(* The comparison of a received checksum v with that of the TLVs before    *)
(* it: the third argument of memcmp is sizeof(uint32_t) != 0.  A byte that *)
(* v does not have may compare either way.                                 *)
Compared == 1
Agrees(v, i) == v[i] = Checksum(parsed)[i]
MayMatch(v)  == \A i \in 1 .. Compared : i \in DOMAIN v => Agrees(v, i)
MayDiffer(v) == \E i \in 1 .. Compared : i \in DOMAIN v => ~Agrees(v, i)

(* Faulty variant: message_init instead of message_free. *)
FailUnfreed(why, stray) ==
  /\ result' = why
  /\ parsed' = <<>>
  /\ heap' = heap + stray
  /\ phase' = "done"
  /\ UNCHANGED <<msg, wire, foreign, offset, got>>

(* message_free, and the value block not yet counted in message->length *)
Fail(why, stray) ==
  /\ result' = why
  /\ parsed' = <<>>
  /\ heap' = (heap + stray) - Len(parsed)
  /\ phase' = "done"
  /\ UNCHANGED <<msg, wire, foreign, offset, got>>

More == phase = "parse" /\ offset < Len(wire)

TooManyTlvs == More /\ Len(parsed) >= MaxTlvs /\ Fail("TOO_MANY_TLVS", 0)

ParseError ==
  /\ More /\ Len(parsed) < MaxTlvs
  /\ ~Fits(offset)
  /\ Fail("PARSE_ERROR", 0)

OneTlv == More /\ Len(parsed) < MaxTlvs /\ Fits(offset)

OutOfMemory == OneTlv /\ Fail("OUT_OF_MEMORY", 0)

IsChecksum == wire[offset + 1] = CHECKSUM

ChecksumMismatch ==
  /\ OneTlv /\ IsChecksum
  /\ MayDiffer(ValueAt(offset))
  /\ Fail("CHECKSUM_MISMATCH", 1)

(* Faulty variant: one byte too many is skipped. *)
ParseTlvSkips ==
  /\ OneTlv
  /\ IsChecksum => MayMatch(ValueAt(offset))
  /\ parsed' = Append(parsed, Tlv(wire[offset + 1], ValueAt(offset)))
  /\ heap' = heap + 1
  /\ offset' = offset + HeaderSize + ValueLength(offset) + 1
  /\ UNCHANGED <<phase, msg, wire, foreign, result, got>>

ParseTlv ==
  /\ OneTlv
  /\ IsChecksum => MayMatch(ValueAt(offset))
  /\ parsed' = Append(parsed, Tlv(wire[offset + 1], ValueAt(offset)))
  /\ heap' = heap + 1
  /\ offset' = offset + HeaderSize + ValueLength(offset)
  /\ UNCHANGED <<phase, msg, wire, foreign, result, got>>

Success ==
  /\ phase = "parse" /\ offset >= Len(wire)
  /\ result' = "SUCCESS"
  /\ phase' = "done"
  /\ UNCHANGED <<msg, wire, foreign, parsed, offset, heap, got>>

-----------------------------------------------------------------------------
(* message_tlv_get, as the typed getters call it: the value of the first   *)
(* TLV of the type is copied over the structure, whose other bytes keep    *)
(* what was in them; a value that is too long fails an assertion.          *)
Gets(t, r, v) == got' = [type |-> t, result |-> r, value |-> v]

NotFound(t) ==
  /\ \A i \in DOMAIN parsed : parsed[i].type # t
  /\ Gets(t, "TLV_NOT_FOUND", <<>>)
  /\ UNCHANGED phase

Copies(t, v) ==
  /\ Len(v) <= Size[t]
  /\ \E rest \in [1 .. Size[t] - Len(v) -> Byte] : Gets(t, "SUCCESS", v \o rest)
  /\ UNCHANGED phase

Aborts(t, v) ==
  /\ Len(v) > Size[t]
  /\ phase' = "aborted"
  /\ UNCHANGED got

Got(t, v) == Copies(t, v) \/ Aborts(t, v)

(* Faulty variant: the last TLV of the type. *)
FoundLast(t) ==
  \E i \in DOMAIN parsed :
    /\ parsed[i].type = t /\ \A j \in i + 1 .. Len(parsed) : parsed[j].type # t
    /\ Got(t, parsed[i].value)

Found(t) ==
  \E i \in DOMAIN parsed :
    /\ parsed[i].type = t /\ \A j \in 1 .. i - 1 : parsed[j].type # t
    /\ Got(t, parsed[i].value)

TlvGet(t) ==
  /\ phase = "done" /\ result = "SUCCESS"
  /\ NotFound(t) \/ Found(t)
  /\ UNCHANGED <<msg, wire, foreign, parsed, offset, heap, result>>

Next ==
  \/ \E t \in TlvType, v \in Value : Len(v) = Size[t] /\ TlvAdd(t, v)
  \/ AddChecksum \/ Send \/ Arrive
  \/ TooManyTlvs \/ ParseError \/ OutOfMemory \/ ChecksumMismatch
  \/ ParseTlv \/ Success
  \/ \E t \in TlvType : TlvGet(t)

Spec == Init /\ [][Next]_vars

-----------------------------------------------------------------------------
Failures == {"TOO_MANY_TLVS", "PARSE_ERROR", "OUT_OF_MEMORY", "CHECKSUM_MISMATCH"}

TypeOK ==
  /\ phase \in {"build", "parse", "done", "aborted"}
  /\ \A m \in {msg, parsed} :
       Len(m) <= MaxTlvs /\ m \in Seq([type : Byte, value : Seq(Byte)])
  /\ wire \in Seq(Byte)
  /\ foreign \in BOOLEAN
  /\ offset \in Nat
  /\ heap \in Nat
  /\ result \in {"NONE", "SUCCESS"} \cup Failures
  /\ got.type \in TlvType \cup {CHECKSUM} /\ got.value \in Seq(Byte)
  /\ got.result \in {"NONE", "SUCCESS", "TLV_NOT_FOUND"}

(* The parser stays inside the bytes it was given, whatever they are: what *)
(* it has consumed never exceeds what arrived, so the reads of the next    *)
(* header and value, checked against the length, are inside as well.       *)
StaysInside == offset <= Len(wire)

(* A message that was built and sent unchanged is accepted and read back   *)
(* TLV by TLV, its checksums included, unless memory runs out.             *)
RoundTrip ==
  phase \in {"done", "aborted"} /\ ~foreign =>
    \/ result = "SUCCESS" /\ parsed = msg
    \/ result = "OUT_OF_MEMORY"

(* What the typed getters return at the receiver of a sent message are the *)
(* structures that were added: of several of one type the first, nothing   *)
(* for a type that was not added, no byte that was not sent, no abort.     *)
GetsWhatWasAdded ==
  ~foreign =>
    /\ phase # "aborted"
    /\ got # NoGet =>
         LET added == {i \in DOMAIN msg : msg[i].type = got.type} IN
           IF added = {} THEN got.result = "TLV_NOT_FOUND"
           ELSE /\ got.result = "SUCCESS"
                /\ \E i \in added : (\A j \in added : i <= j) /\ got.value = msg[i].value

(* Nothing is invented or dropped: a message accepted from any bytes       *)
(* serializes to exactly those bytes.                                      *)
Faithful == result = "SUCCESS" => Serialize(parsed) = wire

(* Every allocated value belongs to a TLV that message_free will find,     *)
(* except after a checksum mismatch, which leaves one block behind.        *)
HeapAccounted ==
  heap = Len(parsed) + (IF result = "CHECKSUM_MISMATCH" THEN 1 ELSE 0)

(* message.c:88 "If this is a checksum TLV, do checksum verification       *)
(* immediately": in an accepted message every checksum TLV of full size    *)
(* holds the checksum of the TLVs before it.                               *)
ChecksumsVerified ==
  result = "SUCCESS" =>
    \A i \in DOMAIN parsed :
      LET sum == Checksum(SubSeq(parsed, 1, i - 1)) IN
        parsed[i].type = CHECKSUM /\ Len(parsed[i].value) = Len(sum)
          => parsed[i].value = sum
=============================================================================
