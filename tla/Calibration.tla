---------------------------- MODULE Calibration ----------------------------
(***************************************************************************)
(* The webcam calibration of koruza.c: an offset in the zoomed picture,    *)
(* which is what uBus and the SFP module give and get_status shows, and    *)
(* the global offset it is saved as.  Configurations of older versions     *)
(* have the zoomed offset and are converted when the driver starts.        *)
(* x and y go the same way and are one value; the global offset in memory  *)
(* is only ever copied to the configuration and is no variable.            *)
(***************************************************************************)
EXTENDS Integers

CONSTANTS
  Num, Den,      \* zoom_w = zoom_h = Num / Den
  Origin,        \* zoom_x * width, in units of 1 / Den
  Modulus,       \* 2^32
  Offset,        \* offsets that are set, by uBus, the SFP module or an old configuration
  CommitFails    \* a commit of the package may fail

ASSUME ZoomOK == Num \in Nat \ {0} /\ Den \in Nat \ {0} /\ Origin \in Nat
ASSUME ModulusOK == Modulus \in Nat \ {0}
ASSUME CommitFailsOK == CommitFails \in BOOLEAN
VARIABLES
  section,   \* the configuration has a webcam section
  conf,      \* the options in memory: the old offset and the global one, Unset if there is none
  disk,      \* ... in the file,
  delta,     \* ... and in the file with the changes uci has noted beside it in RAM
  offset,    \* camera_calibration.offset_x, offset_y
  wanted,    \* history: the offsets the driver may be showing 
  durable,   \* history: the offsets a restart may come back with
  bySfp      \* history: the SFP module was the last to set the offset

calVars == <<section, conf, disk, delta, offset, wanted, durable, bySfp>>

Word == 0..(Modulus - 1)
Unset == 0   \* no option; of the history: any offset
Options == [old : Word, global : Word]

(* Faulty variant: the conversion of a negative number keeps its sign. *)
ToWordSigned(n) == {n}

(* float to uint32_t.  Out of range it is undefined: ARM saturates, others *)
(* wrap.                                                                   *)
ToWord(n) ==
  IF n \in Word THEN {n} ELSE {IF n < 0 THEN 0 ELSE Modulus - 1, n % Modulus}

(* C truncates towards zero. *)
Quotient(a, b) == IF a >= 0 THEN a \div b ELSE -((-a) \div b)

(* koruza_calibration_inverse_transform, koruza_calibration_forward_transform *)
ToGlobal(o) == Quotient(o * Num + Origin, Den)
ToZoomed(g) == Quotient(g * Den - Origin, Num)

(* What an offset may lose on its way to the file and back: both ways      *)
(* truncate.                                                               *)
Slack == (Den \div Num) + 1

(* Offsets that are set lie inside a picture: their global offsets are far *)
(* from 2^32, and not so near the edge that rounding takes them below zero *)
(* (zoom_x * width need not be a whole number), which is undefined.        *)
ASSUME OffsetOK ==
  /\ Offset \subseteq 1..(Modulus - 1)
  /\ \A v \in Offset : ToGlobal(v) < Modulus /\ ToZoomed(ToGlobal(v)) >= 0

-----------------------------------------------------------------------------
(* A configuration of an older version, one of this version, or a fresh one. *)
CalibrationStart ==
  /\ section \in BOOLEAN
  /\ \E v \in Offset :
       \/ disk = [old |-> v, global |-> Unset] /\ wanted = {v}
       \/ disk = [old |-> Unset, global |-> ToGlobal(v)] /\ wanted = {v}
       \/ disk = [old |-> Unset, global |-> Unset] /\ wanted = {Unset}
  /\ ~section => disk = [old |-> Unset, global |-> Unset]
  /\ conf = disk /\ delta = disk
  /\ offset = 0
  /\ durable = wanted
  /\ bySfp = FALSE

(* uci_set_int drops the value when the section is missing. *)
Set(option, n) == IF section THEN [conf EXCEPT ![option] = n] ELSE conf

(* koruza_uci_commit.  uci notes the changes first, then rewrites the      *)
(* file; either may fail.                                                  *)
Commit(options, values) ==
  \/ disk' = options /\ delta' = options /\ durable' = values
  \/ /\ CommitFails
     /\ delta' \in {delta, options}
     /\ durable' = durable \cup values
     /\ UNCHANGED disk

(* koruza_set_webcam_calibration; values are the offsets wanted then. *)
SetWebcamCalibration(v, values) ==
  /\ offset' = v
  /\ \E g \in ToWord(ToGlobal(v)) : conf' = Set("global", g)
  /\ wanted' = values
  /\ Commit(conf', values)
  /\ bySfp' = FALSE
  /\ UNCHANGED section

(* koruza_set_distance, koruza_set_leds, a position to save: other options *)
(* of the package are set and it is committed.                             *)
OtherCommit ==
  /\ Commit(conf, wanted)
  /\ UNCHANGED <<section, conf, offset, wanted, bySfp>>

(* koruza_sfp_get_calibration_data: the global offset stays. *)
SfpCalibration(v) ==
  /\ offset' = v
  /\ bySfp' = TRUE
  /\ UNCHANGED <<section, conf, disk, delta, wanted, durable>>

-----------------------------------------------------------------------------
(* koruza_init reads the file: an old offset is to be converted, *)
HasOld == conf.old # Unset

(* otherwise the global one is made a zoomed one. *)
LoadGlobal ==
  /\ ~HasOld
  /\ offset' \in ToWord(ToZoomed(conf.global))
  /\ UNCHANGED <<section, conf, disk, delta, wanted, durable, bySfp>>

(* The conversion: the old offset is set as if over uBus, and committed, *)
ConvertOld == HasOld /\ SetWebcamCalibration(conf.old, wanted)

(* Faulty variant: the old offset stays in the configuration. *)
DeleteOldForgotten == OtherCommit

(* then removed, and that is committed. *)
DeleteOld ==
  /\ conf' = [conf EXCEPT !.old = Unset]
  /\ Commit(conf', wanted)
  /\ UNCHANGED <<section, offset, wanted, bySfp>>

(* The process ends: the next one reads the file, with the changes noted   *)
(* beside it unless the board has lost its memory too.                     *)
CalibrationForgets(file) ==
  /\ conf' = file /\ delta' = file
  /\ offset' = 0
  /\ wanted' = durable
  /\ bySfp' = FALSE
  /\ UNCHANGED <<section, disk, durable>>

-----------------------------------------------------------------------------
Close(a, b) == a - b \in -Slack..Slack

(* The offset the driver shows is one it should. *)
ShowsWanted == bySfp \/ ~section \/ Unset \in wanted \/ \E v \in wanted : Close(offset, v)

CalibrationTypeOK ==
  /\ {section, bySfp} \subseteq BOOLEAN
  /\ {conf, disk, delta} \subseteq Options
  /\ offset \in Word
  /\ wanted \cup durable \subseteq Offset \cup {Unset}
=============================================================================
