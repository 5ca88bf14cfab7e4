---------------------------- MODULE DriverProofs ----------------------------
(***************************************************************************)
(* Proofs about Driver for any addresses, zoom and offsets and whatever    *)
(* fails: its types, the reset of the MCU, what becomes of the calibration *)
(* and when get_status ends the driver.                                    *)
(***************************************************************************)
EXTENDS Driver, TLAPS

-----------------------------------------------------------------------------
(* Conversions *)

LEMMA QuotientBounds ==
  ASSUME NEW a \in Nat, NEW d \in Nat \ {0}
  PROVE  /\ a \div d \in Nat
         /\ d * (a \div d) <= a
         /\ a < d * (a \div d) + d
OBVIOUS

LEMMA QuotientType ==
  ASSUME NEW a \in Int, NEW d \in Nat \ {0}
  PROVE  Quotient(a, d) \in Int
<1>1. CASE a >= 0
  BY <1>1, QuotientBounds DEF Quotient
<1>2. CASE a < 0
  <2>1. -a \in Nat
    BY <1>2
  <2>2. (-a) \div d \in Nat
    BY <2>1, QuotientBounds
  <2>3. QED
    BY <1>2, <2>2 DEF Quotient
<1>3. QED
  BY <1>1, <1>2

LEMMA ToWordType ==
  ASSUME NEW n \in Int
  PROVE  ToWord(n) \subseteq Word
<1>1. n % Modulus \in Word
  BY ModulusOK DEF Word
<1>2. 0 \in Word /\ Modulus - 1 \in Word
  BY ModulusOK DEF Word
<1>3. QED
  BY <1>1, <1>2 DEF ToWord

LEMMA OffsetWord == Offset \subseteq Word /\ Unset \in Word /\ Unset \notin Offset
BY ModulusOK, OffsetOK DEF Word, Unset

(* A set offset has one global offset, which the file can hold. *)
LEMMA GlobalOfOffset ==
  ASSUME NEW v \in Offset
  PROVE  ToGlobal(v) \in Word /\ ToWord(ToGlobal(v)) = {ToGlobal(v)}
<1>1. v \in Nat
  BY ModulusOK, OffsetOK
<1>2. v * Num + Origin \in Nat
  BY <1>1, ZoomOK
<1>3. ToGlobal(v) \in Nat
  BY <1>2, ZoomOK, QuotientBounds DEF ToGlobal, Quotient
<1>4. ToGlobal(v) < Modulus
  BY OffsetOK
<1>5. QED
  BY <1>3, <1>4, ModulusOK DEF Word, ToWord

(* What comes back of a saved offset is no more than Slack below it. *)
LEMMA RoundTrip ==
  ASSUME NEW v \in Offset, NEW o \in ToWord(ToZoomed(ToGlobal(v)))
  PROVE  Close(o, v)
<1> DEFINE a == v * Num + Origin
           g == a \div Den
           m == g * Den - Origin
           q == Quotient(m, Num)
           s == Den \div Num
<1>1. /\ v \in Nat /\ v < Modulus /\ Modulus \in Nat
      /\ Num \in Nat \ {0} /\ Den \in Nat \ {0} /\ Origin \in Nat
  BY ModulusOK, OffsetOK, ZoomOK
<1>2. v * Num \in Nat /\ a \in Nat
  BY <1>1
<1>3. g \in Nat /\ Den * g <= a /\ a < Den * g + Den
  BY <1>1, <1>2, QuotientBounds
<1>4. ToGlobal(v) = g
  BY <1>2 DEF ToGlobal, Quotient
<1>5. ToZoomed(ToGlobal(v)) = q
  BY <1>4 DEF ToZoomed
<1>6. q >= 0
  BY <1>5, OffsetOK
<1>7. s \in Nat /\ Den < Num * s + Num
  BY <1>1, QuotientBounds
<1>8. g * Den = Den * g /\ g * Den \in Nat
  BY <1>1, <1>3
<1>9. m \in Int /\ m <= v * Num /\ m > v * Num - Den
  BY <1>1, <1>2, <1>3, <1>8
<1>10. q \in Int
  BY <1>1, <1>9, QuotientType
<1>11. q <= v /\ v - q <= s + 1
  <2> HIDE DEF a, g, m, s
  <2>1. CASE m >= 0
    <3>1. q = m \div Num
      BY <2>1 DEF Quotient
    <3>2. Num * q <= m /\ m < Num * q + Num
      BY <1>1, <1>9, <2>1, <3>1, QuotientBounds
    <3> HIDE DEF q
    <3>3. Num * (q - v) <= 0
      BY <1>1, <1>2, <1>9, <1>10, <3>2
    <3>4. q <= v
      BY <1>1, <1>10, <3>3
    <3>5. Num * (v - q - s - 2) < 0
      <4>1. Num * (v - q - s - 2) = v * Num - Num * q - Num * s - Num - Num
        BY <1>1, <1>7, <1>10
      <4>2. Num * q \in Int /\ Num * s \in Int
        BY <1>1, <1>7, <1>10
      <4>3. QED
        BY <1>1, <1>2, <1>7, <1>9, <3>2, <4>1, <4>2
    <3>6. v - q - s - 2 < 0
      BY <1>1, <1>7, <1>10, <3>5
    <3>7. QED
      BY <1>1, <1>7, <1>10, <3>4, <3>6
  <2>2. CASE m < 0
    <3>1. q = -((-m) \div Num)
      BY <1>9, <2>2 DEF Quotient
    <3>2. -m \in Nat
      BY <1>9, <2>2
    <3>3. (-m) \div Num \in Nat
      BY <1>1, <3>2, QuotientBounds
    <3>4. q = 0
      BY <1>6, <3>1, <3>3
    <3>5. Num * (v - s - 1) < 0
      <4>1. Num * (v - s - 1) = v * Num - Num * s - Num
        BY <1>1, <1>7
      <4>2. Num * s \in Int
        BY <1>1, <1>7
      <4>3. QED
        BY <1>1, <1>2, <1>7, <1>9, <2>2, <4>1, <4>2
    <3>6. v - s - 1 < 0
      BY <1>1, <1>7, <3>5
    <3>7. QED
      BY <1>1, <1>7, <3>4, <3>6
  <2>3. QED
    BY <1>9, <2>1, <2>2
<1>12. ToWord(q) = {q}
  BY <1>1, <1>6, <1>10, <1>11 DEF ToWord, Word
<1>13. o = q
  BY <1>5, <1>12
<1>14. Slack = s + 1
  BY DEF Slack
<1> HIDE DEF q, s
<1>15. QED
  BY <1>1, <1>7, <1>10, <1>11, <1>13, <1>14 DEF Close

-----------------------------------------------------------------------------
(* Types, part by part *)

LEMMA ResetTypeStep ==
  ASSUME ResetTypeOK, HardResetStep \/ ResetForgets \/ UNCHANGED resetVars
  PROVE  ResetTypeOK'
<1>1. CASE Export
  BY <1>1 DEF Export, Fails, ResetTypeOK, Steps
<1>2. CASE SetDirection
  BY <1>2 DEF SetDirection, GiveUp, Fails, ResetTypeOK, Steps
<1>3. CASE RaiseLine
  BY <1>3 DEF RaiseLine, GiveUp, Fails, ResetTypeOK, Steps
<1>4. CASE LowerLine
  BY <1>4 DEF LowerLine, GiveUp, Fails, ResetTypeOK, Steps
<1>5. CASE Unexport
  BY <1>5 DEF Unexport, SysfsUnexport, ResetTypeOK, Steps
<1>6. CASE ResetForgets
  BY <1>6 DEF ResetForgets, ResetTypeOK, Steps
<1>7. CASE UNCHANGED resetVars
  BY <1>7 DEF resetVars, ResetTypeOK
<1>8. QED
  BY <1>1, <1>2, <1>3, <1>4, <1>5, <1>6, <1>7 DEF HardResetStep

NetworkStep ==
  \/ NetworkForgets \/ AddressChanges \/ Announce \/ CopyFails
  \/ \E f \in {FoundNow, FoundNothing} : NetworkInit(f) \/ RefreshAddress(f)
  \/ UNCHANGED netVars

LEMMA NetworkTypeStep ==
  ASSUME NetworkTypeOK, NetworkStep
  PROVE  NetworkTypeOK'
<1> USE DEF NetworkTypeOK
<1>1. FoundNow \in Address \cup {NoAddress} /\ FoundNothing \in Address \cup {NoAddress}
  BY DEF FoundNow, FoundNothing
<1>2. CASE NetworkForgets
  BY <1>2 DEF NetworkForgets
<1>3. CASE AddressChanges
  BY <1>3 DEF AddressChanges, netStatus, netTimers
<1>4. CASE Announce \/ CopyFails
  BY <1>4 DEF Announce, CopyFails, netStatus, netTimers
<1>5. ASSUME NEW f \in {FoundNow, FoundNothing}, NetworkInit(f)
      PROVE  NetworkTypeOK'
  <2>1. (f # NoAddress) \in BOOLEAN /\ AddDevice \in BOOLEAN
    BY DEF AddDevice
  <2>2. QED
    BY <1>1, <1>5, <2>1 DEF NetworkInit
<1>6. ASSUME NEW f \in {FoundNow, FoundNothing}, RefreshAddress(f)
      PROVE  NetworkTypeOK'
  BY <1>1, <1>6 DEF RefreshAddress
<1>7. CASE UNCHANGED netVars
  BY <1>7 DEF netVars, netStatus, netTimers
<1>8. QED
  BY <1>2, <1>3, <1>4, <1>5, <1>6, <1>7 DEF NetworkStep

CalibrationStep ==
  \/ LoadGlobal \/ ConvertOld \/ DeleteOld \/ OtherCommit
  \/ \E v \in Offset : SetWebcamCalibration(v, {v}) \/ SfpCalibration(v)
  \/ CalibrationForgets(delta) \/ CalibrationForgets(disk)
  \/ UNCHANGED calVars

Wants == SUBSET (Offset \cup {Unset})

LEMMA CommitType ==
  ASSUME CalibrationTypeOK, NEW options \in Options, NEW values \in Wants, Commit(options, values)
  PROVE  disk' \in Options /\ delta' \in Options /\ durable' \in Wants
BY DEF CalibrationTypeOK, Commit, Wants

LEMMA SetType ==
  ASSUME CalibrationTypeOK, NEW v \in Word, NEW values \in Wants, SetWebcamCalibration(v, values)
  PROVE  CalibrationTypeOK'
<1>1. PICK g \in ToWord(ToGlobal(v)) : conf' = Set("global", g)
  BY DEF SetWebcamCalibration
<1>2. g \in Word
  <2>1. v * Num + Origin \in Int
    BY ZoomOK, ModulusOK DEF Word
  <2>2. ToGlobal(v) \in Int
    BY <2>1, ZoomOK, QuotientType DEF ToGlobal
  <2>3. QED
    BY <2>2, ToWordType
<1>3. conf' \in Options
  BY <1>1, <1>2 DEF Set, CalibrationTypeOK, Options
<1>4. disk' \in Options /\ delta' \in Options /\ durable' \in Wants
  BY <1>3, CommitType DEF SetWebcamCalibration
<1>5. QED
  BY <1>3, <1>4 DEF SetWebcamCalibration, CalibrationTypeOK, Wants

LEMMA CalibrationTypeStep ==
  ASSUME CalibrationTypeOK, CalibrationStep
  PROVE  CalibrationTypeOK'
<1>1. CASE LoadGlobal
  <2>1. conf.global * Den - Origin \in Int
    BY ZoomOK, ModulusOK DEF CalibrationTypeOK, Options, Word
  <2>2. ToZoomed(conf.global) \in Int
    BY <2>1, ZoomOK, QuotientType DEF ToZoomed
  <2>3. offset' \in Word
    BY <1>1, <2>2, ToWordType DEF LoadGlobal
  <2>4. QED
    BY <1>1, <2>3 DEF LoadGlobal, CalibrationTypeOK
<1>2. CASE ConvertOld
  <2>1. conf.old \in Word /\ wanted \in Wants
    BY DEF CalibrationTypeOK, Options, Wants
  <2>2. QED
    BY <1>2, <2>1, SetType DEF ConvertOld
<1>3. CASE DeleteOld
  <2>1. conf' \in Options /\ wanted \in Wants
    BY <1>3, OffsetWord DEF DeleteOld, CalibrationTypeOK, Options, Wants
  <2>2. disk' \in Options /\ delta' \in Options /\ durable' \in Wants
    BY <1>3, <2>1, CommitType DEF DeleteOld
  <2>3. QED
    BY <1>3, <2>1, <2>2 DEF DeleteOld, CalibrationTypeOK, Wants
<1>4. CASE OtherCommit
  <2>1. conf \in Options /\ wanted \in Wants
    BY DEF CalibrationTypeOK, Wants
  <2>2. disk' \in Options /\ delta' \in Options /\ durable' \in Wants
    BY <1>4, <2>1, CommitType DEF OtherCommit
  <2>3. QED
    BY <1>4, <2>2 DEF OtherCommit, CalibrationTypeOK, Wants
<1>5. ASSUME NEW v \in Offset, SetWebcamCalibration(v, {v})
      PROVE  CalibrationTypeOK'
  BY <1>5, SetType, OffsetWord DEF Wants
<1>6. ASSUME NEW v \in Offset, SfpCalibration(v)
      PROVE  CalibrationTypeOK'
  BY <1>6, OffsetWord DEF SfpCalibration, CalibrationTypeOK
<1>7. CASE CalibrationForgets(delta) \/ CalibrationForgets(disk)
  <2>1. 0 \in Word
    BY ModulusOK DEF Word
  <2>2. conf' \in Options /\ delta' \in Options
    BY <1>7 DEF CalibrationForgets, CalibrationTypeOK
  <2>3. QED
    BY <1>7, <2>1, <2>2 DEF CalibrationForgets, CalibrationTypeOK
<1>8. CASE UNCHANGED calVars
  BY <1>8 DEF calVars, CalibrationTypeOK
<1>9. QED
  BY <1>1, <1>2, <1>3, <1>4, <1>5, <1>6, <1>7, <1>8 DEF CalibrationStep

-----------------------------------------------------------------------------
(* What a step of the driver is to its parts *)

ResetStarts ==
  /\ step' = "export"
  /\ UNCHANGED <<exported, driven, high, pulsed, failed, leftover>>

PinForgotten ==
  /\ step' = "idle" /\ exported' = FALSE /\ driven' = FALSE /\ high' = FALSE
  /\ pulsed' = FALSE /\ failed' = FALSE /\ leftover' = FALSE

ResetStep ==
  \/ HardResetStep \/ ResetForgets \/ UNCHANGED resetVars
  \/ ResetStarts \/ PinForgotten

Ending == Exits \/ PowerLoss \/ DiesIn("koruza_update_sfp_leds") \/ DiesIn("ubus_get_status")

LEMMA EndingParts ==
  ASSUME Ending
  PROVE  /\ ResetForgets \/ PinForgotten
         /\ NetworkForgets
         /\ CalibrationForgets(delta) \/ CalibrationForgets(disk)
         /\ stage' = "down" /\ ledsReady' = FALSE /\ UNCHANGED <<path, calm>>
         /\ died' \in {"nobody", "koruza_update_sfp_leds", "ubus_get_status"}
<1>1. CASE PowerLoss
  BY <1>1 DEF PowerLoss, PinForgotten
<1>2. CASE Exits \/ DiesIn("koruza_update_sfp_leds") \/ DiesIn("ubus_get_status")
  BY <1>2 DEF Exits, DiesIn, Ends
<1>3. QED
  BY <1>1, <1>2 DEF Ending

(* What the steps do that do not end the process *)
LEMMA BootParts ==
  ASSUME Boot
  PROVE  \/ Ending
         \/ /\ ResetStep /\ NetworkStep /\ CalibrationStep
            /\ stage' \in Stages /\ ledsReady' \in {ledsReady, TRUE, FALSE}
            /\ died' \in {died, "nobody"} /\ UNCHANGED <<path, calm>>
<1> USE DEF Goes, Stages
<1>1. CASE Respawn
  BY <1>1 DEF Respawn, ResetStep, NetworkStep, CalibrationStep
<1>2. CASE UbusConnect
  BY <1>2 DEF UbusConnect, ResetStep, NetworkStep, CalibrationStep
<1>3. CASE SerialInit
  BY <1>3 DEF SerialInit, ResetStep, NetworkStep, CalibrationStep, Ending
<1>4. CASE LoadConfig
  BY <1>4 DEF LoadConfig, ResetStep, NetworkStep, CalibrationStep
<1>5. CASE EndConversion
  BY <1>5 DEF EndConversion, ResetStep, NetworkStep, CalibrationStep
<1>6. CASE LedsInit
  BY <1>6 DEF LedsInit, Ws2811Init, ResetStep, ResetStarts, NetworkStep, CalibrationStep
<1>7. CASE Reset
  <2>1. stage' \in Stages
    BY <1>7 DEF Reset
  <2>2. QED
    BY <1>7, <2>1 DEF Reset, ResetStep, NetworkStep, CalibrationStep
<1>8. CASE ResetDone
  BY <1>8 DEF ResetDone, ResetStep, NetworkStep, CalibrationStep
<1>9. CASE UpdateStatus
  <2>1. CASE stage = "status" /\ ~ledsReady /\ DiesIn("koruza_update_sfp_leds")
    BY <2>1 DEF Ending
  <2>2. CASE /\ ledsReady /\ Goes("status", "object")
             /\ UNCHANGED calVars \/ (\E v \in Offset : SfpCalibration(v))
             /\ UNCHANGED <<resetVars, netVars, ledsReady>>
    BY <2>2 DEF ResetStep, NetworkStep, CalibrationStep
  <2>3. QED
    BY <1>9, <2>1, <2>2 DEF UpdateStatus
<1>10. CASE UbusInit
  BY <1>10 DEF UbusInit, ResetStep, NetworkStep, CalibrationStep, Ending
<1>11. CASE InitNetwork
  <2>1. CASE stage = "network" /\ netConf.interface /\ Exits
    BY <2>1 DEF Ending
  <2>2. CASE /\ Goes("network", "run")
             /\ NetworkSkipped \/ (\E f \in Finds : NetworkInit(f))
             /\ UNCHANGED <<resetVars, calVars, ledsReady>>
    <3>1. NetworkStep
      BY <2>2 DEF NetworkSkipped, Finds, NetworkStep
    <3>2. QED
      BY <2>2, <3>1 DEF ResetStep, CalibrationStep
  <2>3. QED
    BY <1>11, <2>1, <2>2 DEF InitNetwork
<1>12. QED
  BY <1>1, <1>2, <1>3, <1>4, <1>5, <1>6, <1>7, <1>8, <1>9, <1>10, <1>11 DEF Boot

Loop == \/ AnnounceTimer \/ AddressTimer \/ UbusSetCalibration \/ UbusOtherCommit \/ SfpTimer
        \/ UbusGetStatus \/ Kill \/ PowerLoss \/ Lease \/ Calms

LEMMA LoopParts ==
  ASSUME Loop
  PROVE  \/ Ending
         \/ /\ UNCHANGED resetVars /\ NetworkStep /\ CalibrationStep
            /\ UNCHANGED <<stage, ledsReady, died, path>> /\ calm' \in {calm, TRUE}
<1> USE DEF Serving
<1>1. CASE AnnounceTimer
  BY <1>1 DEF AnnounceTimer, NetworkStep, CalibrationStep
<1>2. CASE AddressTimer
  <2>1. CASE Serving /\ (\E f \in Finds : RefreshAddress(f)) /\ UNCHANGED calVars
    BY <2>1 DEF Finds, NetworkStep, CalibrationStep
  <2>2. CASE Serving /\ ~calm /\ CopyFails /\ UNCHANGED calVars
    BY <2>2 DEF NetworkStep, CalibrationStep
  <2>3. QED
    BY <1>2, <2>1, <2>2 DEF AddressTimer, Ending
<1>3. CASE UbusSetCalibration
  BY <1>3 DEF UbusSetCalibration, NetworkStep, CalibrationStep
<1>4. CASE UbusOtherCommit
  BY <1>4 DEF UbusOtherCommit, NetworkStep, CalibrationStep
<1>5. CASE SfpTimer
  BY <1>5 DEF SfpTimer, NetworkStep, CalibrationStep
<1>6. CASE UbusGetStatus
  BY <1>6 DEF UbusGetStatus, Ending
<1>7. CASE Kill \/ PowerLoss
  BY <1>7 DEF Kill, Ending
<1>8. CASE Lease
  BY <1>8 DEF Lease, NetworkStep, CalibrationStep
<1>9. CASE Calms
  BY <1>9 DEF Calms, NetworkStep, CalibrationStep
<1>10. QED
  BY <1>1, <1>2, <1>3, <1>4, <1>5, <1>6, <1>7, <1>8, <1>9 DEF Loop

LEMMA ResetTypeAll ==
  ASSUME ResetTypeOK, ResetStep
  PROVE  ResetTypeOK'
<1>1. CASE ResetStarts
  BY <1>1 DEF ResetStarts, ResetTypeOK, Steps
<1>2. CASE PinForgotten
  BY <1>2 DEF PinForgotten, ResetTypeOK, Steps
<1>3. QED
  BY <1>1, <1>2, ResetTypeStep DEF ResetStep

LEMMA TypeInit == Init => TypeOK
<1> SUFFICES ASSUME Init PROVE TypeOK
  OBVIOUS
<1>1. ResetTypeOK
  BY DEF Init, ResetInit, ResetTypeOK, Steps
<1>2. NetworkTypeOK
  BY DEF Init, NetworkStart, NetworkZero, NetworkTypeOK
<1>3. CalibrationTypeOK
  <2>1. 0 \in Word
    BY ModulusOK DEF Word
  <2>2. disk \in Options /\ wanted \subseteq Offset \cup {Unset}
    <3>1. PICK v \in Offset :
            \/ disk = [old |-> v, global |-> Unset] /\ wanted = {v}
            \/ disk = [old |-> Unset, global |-> ToGlobal(v)] /\ wanted = {v}
            \/ disk = [old |-> Unset, global |-> Unset] /\ wanted = {Unset}
      BY DEF Init, CalibrationStart
    <3>2. v \in Word /\ Unset \in Word /\ ToGlobal(v) \in Word
      BY OffsetWord, GlobalOfOffset
    <3>3. QED
      BY <3>1, <3>2 DEF Options
  <2>3. QED
    BY <2>1, <2>2 DEF Init, CalibrationStart, CalibrationTypeOK
<1>4. QED
  BY <1>1, <1>2, <1>3 DEF Init, TypeOK, Stages

LEMMA TypeStep ==
  ASSUME TypeOK, [Next]_vars
  PROVE  TypeOK'
<1> USE DEF TypeOK
<1>1. CASE Ending
  <2>1. ResetTypeOK'
    BY <1>1, EndingParts, ResetTypeAll DEF ResetStep
  <2>2. NetworkTypeOK'
    BY <1>1, EndingParts, NetworkTypeStep DEF NetworkStep
  <2>3. CalibrationTypeOK'
    BY <1>1, EndingParts, CalibrationTypeStep DEF CalibrationStep
  <2>4. QED
    BY <1>1, <2>1, <2>2, <2>3, EndingParts DEF Stages
<1>2. CASE Boot /\ ~Ending
  BY <1>2, BootParts, ResetTypeAll, NetworkTypeStep, CalibrationTypeStep
<1>3. CASE Loop /\ ~Ending
  <2>1. ResetTypeOK'
    BY <1>3, LoopParts, ResetTypeAll DEF ResetStep
  <2>2. QED
    BY <1>3, <2>1, LoopParts, NetworkTypeStep, CalibrationTypeStep
<1>4. CASE UNCHANGED vars
  <2>1. ResetTypeOK' /\ NetworkTypeOK' /\ CalibrationTypeOK'
    BY <1>4, ResetTypeAll, NetworkTypeStep, CalibrationTypeStep
    DEF vars, ResetStep, NetworkStep, CalibrationStep
  <2>2. QED
    BY <1>4, <2>1 DEF vars
<1>5. QED
  BY <1>1, <1>2, <1>3, <1>4 DEF Next, Loop

(* Every value has its type, whatever fails or dies: what the driver       *)
(* stores in its configuration and in sysfs too.                           *)
THEOREM TypeCorrect == Spec => []TypeOK
<1>1. Init => TypeOK
  BY TypeInit
<1>2. TypeOK /\ [Next]_vars => TypeOK'
  BY TypeStep
<1>3. QED
  BY <1>1, <1>2, PTL DEF Spec

-----------------------------------------------------------------------------
(* The reset of the MCU *)

(* What each point of koruza_hard_reset knows of the pin: without a        *)
(* failure a pulse has been given when it is unexported, and a pin that is *)
(* found exported was left so by an earlier process.                       *)
PinInv ==
  /\ step \in {"idle", "export"} => ~failed /\ (exported => leftover)
  /\ step \in {"direction", "raise", "lower"} => ~failed
  /\ step = "unexport" => failed \/ (pulsed /\ ~high)
  /\ step = "done" => failed \/ leftover \/ (pulsed /\ ~high /\ ~exported)

Early == {"down", "connect", "serial", "config", "delete", "leds"}

ResetInv == PinInv /\ (stage \in Early => step = "idle")

LEMMA PinStep ==
  ASSUME TypeOK, PinInv, HardResetStep
  PROVE  PinInv'
<1> USE DEF PinInv, TypeOK, ResetTypeOK, Steps
<1>1. CASE Export
  BY <1>1 DEF Export, Fails
<1>2. CASE SetDirection
  BY <1>2 DEF SetDirection, GiveUp, Fails
<1>3. CASE RaiseLine
  BY <1>3 DEF RaiseLine, GiveUp, Fails
<1>4. CASE LowerLine
  BY <1>4 DEF LowerLine, GiveUp, Fails
<1>5. CASE Unexport
  BY <1>5 DEF Unexport, SysfsUnexport
<1>6. QED
  BY <1>1, <1>2, <1>3, <1>4, <1>5 DEF HardResetStep

(* Only LedsInit and Reset touch the pin while the driver lives. *)
LEMMA PinUntouched ==
  ASSUME [Next]_vars, ~Ending, ~LedsInit, ~Reset
  PROVE  UNCHANGED resetVars /\ (stage' \in Early => stage \in Early)
<1> USE DEF Early
<1>1. CASE Respawn \/ UbusConnect \/ SerialInit \/ LoadConfig \/ EndConversion
  BY <1>1 DEF Respawn, UbusConnect, SerialInit, LoadConfig, EndConversion, Goes, Ending
<1>2. CASE ResetDone \/ UpdateStatus \/ UbusInit \/ InitNetwork
  BY <1>2 DEF ResetDone, UpdateStatus, UbusInit, InitNetwork, Goes, Ending
<1>3. CASE Loop
  BY <1>3, LoopParts
<1>4. CASE UNCHANGED vars
  BY <1>4 DEF vars
<1>5. QED
  BY <1>1, <1>2, <1>3, <1>4 DEF Next, Boot, Loop

LEMMA ResetInvStep ==
  ASSUME TypeOK, ResetInv, [Next]_vars
  PROVE  ResetInv'
<1>1. CASE Ending
  <2>1. CASE ResetForgets
    BY <1>1, <2>1, EndingParts DEF ResetForgets, ResetInv, PinInv, TypeOK, ResetTypeOK, Steps
  <2>2. CASE PinForgotten
    BY <1>1, <2>2, EndingParts DEF PinForgotten, ResetInv, PinInv
  <2>3. QED
    BY <1>1, <2>1, <2>2, EndingParts
<1>2. CASE LedsInit
  BY <1>2 DEF LedsInit, Goes, ResetInv, PinInv, Early
<1>3. CASE Reset
  BY <1>3, PinStep DEF Reset, ResetInv, Early
<1>4. CASE ~Ending /\ ~LedsInit /\ ~Reset
  BY <1>4, PinUntouched DEF ResetInv, PinInv, resetVars
<1>5. QED
  BY <1>1, <1>2, <1>3, <1>4

(* koruza.c:220 "Perform a hard MCU reset": it has worked, and the MCU is  *)
(* let go, unless an operation failed or the pin was left exported.        *)
THEOREM ResetCorrect == Spec => []ResetsMcu
<1>1. Init => TypeOK /\ ResetInv
  BY TypeInit DEF Init, ResetInit, ResetInv, PinInv, Early
<1>2. (TypeOK /\ ResetInv) /\ [Next]_vars => (TypeOK /\ ResetInv)'
  BY TypeStep, ResetInvStep
<1>3. TypeOK /\ ResetInv => ResetsMcu
  BY DEF ResetInv, PinInv, ResetsMcu, Held
<1>4. QED
  BY <1>1, <1>2, <1>3, PTL DEF Spec

-----------------------------------------------------------------------------
(* get_status *)

(* An address found at the start is only replaced, unless a copy fails. *)
NetInv == foundAtStart => interface /\ ip # NoAddress

LEMMA NetInvStep ==
  ASSUME NetInv, NetworkStep
  PROVE  NetInv'
<1> USE DEF NetInv
<1>1. CASE NetworkForgets \/ CopyFails
  BY <1>1 DEF NetworkForgets, CopyFails
<1>2. CASE AddressChanges \/ Announce \/ UNCHANGED netVars
  BY <1>2 DEF AddressChanges, Announce, netVars, netStatus, netTimers
<1>3. ASSUME NEW f \in {FoundNow, FoundNothing}, NetworkInit(f)
      PROVE  NetInv'
  BY <1>3 DEF NetworkInit
<1>4. ASSUME NEW f \in {FoundNow, FoundNothing}, RefreshAddress(f)
      PROVE  NetInv'
  BY <1>4 DEF RefreshAddress, FoundNow, FoundNothing
<1>5. QED
  BY <1>1, <1>2, <1>3, <1>4 DEF NetworkStep

LEMMA NetInvNext ==
  ASSUME NetInv, [Next]_vars
  PROVE  NetInv'
<1>1. NetworkStep
  <2>1. CASE Ending
    BY <2>1, EndingParts DEF NetworkStep
  <2>2. CASE UNCHANGED vars
    BY <2>2 DEF vars, NetworkStep
  <2>3. CASE (Boot \/ Loop) /\ ~Ending
    BY <2>3, BootParts, LoopParts
  <2>4. QED
    BY <2>1, <2>2, <2>3 DEF Next, Loop
<1>2. QED
  BY <1>1, NetInvStep

(* The step that ends a running driver, if get_status takes it, found an   *)
(* option or the address missing.                                          *)
LEMMA StatusStep ==
  ASSUME NetInv, [Next]_vars, stage = "run", path, foundAtStart, stage' = "down"
  PROVE  died' # "ubus_get_status"
<1>1. NetworkPrintable
  BY DEF NetInv, NetworkPrintable
<1>2. ~UNCHANGED vars
  BY DEF vars
<1>3. ~Boot
  BY DEF Boot, Respawn, UbusConnect, SerialInit, LoadConfig, EndConversion, LedsInit, Reset,
         ResetDone, UpdateStatus, UbusInit, InitNetwork, Goes
<1>4. CASE AddressTimer
  BY <1>4 DEF AddressTimer, Serving, Exits
<1>5. CASE Kill \/ PowerLoss
  BY <1>5 DEF Kill, PowerLoss, Exits
<1>6. CASE UbusGetStatus
  BY <1>1, <1>6 DEF UbusGetStatus
<1>7. CASE AnnounceTimer \/ UbusSetCalibration \/ UbusOtherCommit \/ SfpTimer \/ Lease \/ Calms
  BY <1>7 DEF AnnounceTimer, UbusSetCalibration, UbusOtherCommit, SfpTimer, Lease, Calms, Serving
<1>8. QED
  BY <1>2, <1>3, <1>4, <1>5, <1>6, <1>7 DEF Next

(* ubus_get_status: no loss of the address ends a driver that had one when *)
(* it started, unless the copy of a new one fails.                         *)
THEOREM StatusSafe == Spec => StatusAnswers
<1>1. Init => NetInv
  BY DEF Init, NetworkStart, NetworkZero, NetInv
<1>2. NetInv /\ [Next]_vars => NetInv'
  BY NetInvNext
<1>3. NetInv /\ [Next]_vars =>
        [stage = "run" /\ path /\ foundAtStart /\ stage' = "down" => died' # "ubus_get_status"]_vars
  BY StatusStep
<1>4. QED
  BY <1>1, <1>2, <1>3, PTL DEF Spec, StatusAnswers

-----------------------------------------------------------------------------
(* The calibration *)

(* The options lead back to one of the offsets W: through the old offset   *)
(* if it is still there.                                                   *)
Holds(options, W) ==
  \/ Unset \in W
  \/ options.old # Unset /\ options.old \in W
  \/ options.old = Unset /\ (\E v \in W : options.global = ToGlobal(v))

(* What is in memory leads to an offset wanted now, what a restart would   *)
(* read to one it may come back with.                                      *)
SavedInv ==
  section => Holds(conf, wanted) /\ Holds(delta, durable) /\ Holds(disk, durable)

(* An old offset that is about to be removed has its global offset. *)
Converted == Unset \in wanted \/ (conf.old \in wanted /\ conf.global = ToGlobal(conf.old))

Loaded == {"delete", "leds", "reset", "status", "object", "network", "run"}

CalInv ==
  /\ SavedInv
  /\ stage = "delete" /\ section => Converted
  /\ stage \in Loaded => ShowsWanted
  /\ stage \in Loaded \ {"delete"} => conf.old = Unset

LEMMA CommitHolds ==
  ASSUME TypeOK, SavedInv, section, NEW options, NEW values, Holds(options, values), Commit(options, values)
  PROVE  Holds(delta', durable') /\ Holds(disk', durable')
<1>1. CASE disk' = options /\ delta' = options /\ durable' = values
  BY <1>1
<1>2. CASE /\ delta' \in {delta, options}
           /\ durable' = durable \cup values
           /\ UNCHANGED disk
  BY <1>2 DEF SavedInv, Holds
<1>3. QED
  BY <1>1, <1>2 DEF Commit

LEMMA CloseItself == ASSUME NEW v \in Offset PROVE Close(v, v)
<1>1. Den \div Num \in Nat
  BY ZoomOK, QuotientBounds
<1>2. v \in Int
  BY ModulusOK, OffsetOK
<1>3. QED
  BY <1>1, <1>2 DEF Close, Slack

LEMMA LoadShows ==
  ASSUME TypeOK, SavedInv, LoadGlobal
  PROVE  SavedInv' /\ ShowsWanted' /\ conf'.old = Unset
<1>1. SavedInv' /\ conf'.old = Unset
  BY DEF LoadGlobal, HasOld, SavedInv, Holds
<1>2. CASE ~section \/ Unset \in wanted
  BY <1>1, <1>2 DEF LoadGlobal, ShowsWanted
<1>3. CASE section /\ Unset \notin wanted
  <2>1. PICK v \in wanted : conf.global = ToGlobal(v)
    BY <1>3 DEF SavedInv, Holds, LoadGlobal, HasOld
  <2>2. v \in Offset
    BY <1>3, <2>1 DEF TypeOK, CalibrationTypeOK
  <2>3. Close(offset', v)
    BY <2>1, <2>2, RoundTrip DEF LoadGlobal
  <2>4. wanted' = wanted /\ v \in wanted'
    BY <2>1 DEF LoadGlobal
  <2>5. ShowsWanted'
    BY <2>3, <2>4 DEF ShowsWanted, Close, Slack
  <2>6. QED
    BY <1>1, <2>5
<1>4. QED
  BY <1>1, <1>2, <1>3

(* An offset v that is set, with the old one removed or v itself *)
LEMMA SetShows ==
  ASSUME TypeOK, SavedInv, NEW v \in Offset, NEW values, v \in values,
         conf.old \in {Unset, v}, SetWebcamCalibration(v, values)
  PROVE  /\ SavedInv' /\ ShowsWanted' /\ conf'.old = conf.old
         /\ section => conf'.global = ToGlobal(v)
<1>1. conf \in [old : Word, global : Word]
  BY DEF TypeOK, CalibrationTypeOK, Options
<1>2. conf' = Set("global", ToGlobal(v))
  BY GlobalOfOffset DEF SetWebcamCalibration
<1>3. conf'.old = conf.old /\ (section => conf'.global = ToGlobal(v))
  BY <1>1, <1>2 DEF Set
<1>4. wanted' = values /\ offset' = v /\ section' = section
  BY DEF SetWebcamCalibration
<1>5. ShowsWanted'
  BY <1>4, CloseItself DEF ShowsWanted, Close, Slack
<1>6. SavedInv'
  <2>1. CASE ~section
    BY <1>4, <2>1 DEF SavedInv
  <2>2. CASE section
    <3>1. Holds(conf', values)
      BY <1>3, <2>2, OffsetWord DEF Holds
    <3>2. Commit(conf', values)
      BY DEF SetWebcamCalibration
    <3>3. Holds(delta', durable') /\ Holds(disk', durable')
      BY <2>2, <3>1, <3>2, CommitHolds
    <3>4. QED
      BY <1>4, <3>1, <3>3 DEF SavedInv, Holds
  <2>3. QED
    BY <2>1, <2>2
<1>7. QED
  BY <1>3, <1>5, <1>6

LEMMA ConvertShows ==
  ASSUME TypeOK, SavedInv, ConvertOld
  PROVE  SavedInv' /\ ShowsWanted' /\ (section' => Converted')
<1>1. CASE section /\ Unset \notin wanted
  <2>1. conf.old # Unset /\ SetWebcamCalibration(conf.old, wanted)
    BY DEF ConvertOld, HasOld
  <2>2. conf.old \in wanted /\ conf.old \in Offset
    BY <1>1, <2>1 DEF SavedInv, Holds, TypeOK, CalibrationTypeOK
  <2>3. /\ SavedInv' /\ ShowsWanted' /\ conf'.old = conf.old
        /\ conf'.global = ToGlobal(conf.old)
    BY <1>1, <2>1, <2>2, SetShows
  <2>4. wanted' = wanted
    BY <2>1 DEF SetWebcamCalibration
  <2>5. QED
    BY <2>2, <2>3, <2>4 DEF Converted
<1>2. CASE ~section
  BY <1>2 DEF ConvertOld, SetWebcamCalibration, SavedInv, ShowsWanted
<1>3. CASE section /\ Unset \in wanted
  <2>1. wanted' = wanted /\ Commit(conf', wanted)
    BY DEF ConvertOld, SetWebcamCalibration
  <2>2. Holds(conf', wanted)
    BY <1>3 DEF Holds
  <2>3. Holds(delta', durable') /\ Holds(disk', durable')
    BY <1>3, <2>1, <2>2, CommitHolds
  <2>4. QED
    BY <1>3, <2>1, <2>2, <2>3 DEF SavedInv, Holds, ShowsWanted, Converted
<1>4. QED
  BY <1>1, <1>2, <1>3

(* A commit of the options in memory as they are *)
LEMMA OtherHolds ==
  ASSUME TypeOK, SavedInv, OtherCommit
  PROVE  SavedInv'
<1>1. CASE section
  BY <1>1, CommitHolds DEF OtherCommit, SavedInv, Holds
<1>2. CASE ~section
  BY <1>2 DEF OtherCommit, SavedInv
<1>3. QED
  BY <1>1, <1>2

LEMMA DeleteHolds ==
  ASSUME TypeOK, SavedInv, section => Converted, DeleteOld
  PROVE  SavedInv' /\ conf'.old = Unset
<1>1. conf \in [old : Word, global : Word]
  BY DEF TypeOK, CalibrationTypeOK, Options
<1>2. conf'.old = Unset /\ conf'.global = conf.global
  BY <1>1 DEF DeleteOld
<1>3. CASE section
  <2>1. Holds(conf', wanted)
    BY <1>2, <1>3 DEF Converted, Holds
  <2>2. Commit(conf', wanted) /\ wanted' = wanted /\ section' = section
    BY DEF DeleteOld
  <2>3. Holds(delta', durable') /\ Holds(disk', durable')
    BY <1>3, <2>1, <2>2, CommitHolds
  <2>4. QED
    BY <1>2, <2>1, <2>2, <2>3 DEF SavedInv
<1>4. CASE ~section
  BY <1>2, <1>4 DEF DeleteOld, SavedInv
<1>5. QED
  BY <1>3, <1>4

(* The steps that leave the calibration alone also leave what CalInv says  *)
(* of a stage, unless they enter another one.                              *)
LEMMA CalibrationUntouched ==
  ASSUME TypeOK, CalInv, UNCHANGED calVars,
         stage' = "delete" => stage = "delete",
         stage' \in Loaded => stage \in Loaded,
         stage' \in Loaded \ {"delete"} => stage \in Loaded \ {"delete"}
  PROVE  CalInv'
BY DEF calVars, CalInv, SavedInv, Holds, Converted, ShowsWanted

LEMMA CalibrationLost ==
  ASSUME TypeOK, CalInv, Ending
  PROVE  CalInv'
<1>1. CASE CalibrationForgets(delta)
  BY <1>1, EndingParts DEF CalibrationForgets, CalInv, SavedInv, Holds, Loaded
<1>2. CASE CalibrationForgets(disk)
  BY <1>2, EndingParts DEF CalibrationForgets, CalInv, SavedInv, Holds, Loaded
<1>3. QED
  BY <1>1, <1>2, EndingParts

LEMMA BootKeeps ==
  ASSUME TypeOK, CalInv, Boot, ~Ending
  PROVE  CalInv'
<1> USE DEF Goes, Loaded
<1>1. CASE Respawn \/ UbusConnect \/ SerialInit \/ Reset \/ ResetDone \/ UbusInit
  <2>1. UNCHANGED calVars
    BY <1>1 DEF Respawn, UbusConnect, SerialInit, Reset, ResetDone, UbusInit, Ending
  <2>2. /\ stage' = "delete" => stage = "delete"
        /\ stage' \in Loaded => stage \in Loaded
        /\ stage' \in Loaded \ {"delete"} => stage \in Loaded \ {"delete"}
    BY <1>1 DEF Respawn, UbusConnect, SerialInit, Reset, ResetDone, UbusInit, Ending
  <2>3. QED
    BY <2>1, <2>2, CalibrationUntouched
<1>2. CASE LedsInit
  BY <1>2, CalibrationUntouched DEF LedsInit
<1>3. CASE InitNetwork
  BY <1>3, CalibrationUntouched DEF InitNetwork, Ending
<1>4. CASE LoadConfig
  <2>1. CASE Goes("config", "leds") /\ LoadGlobal
    BY <2>1, LoadShows DEF CalInv
  <2>2. CASE Goes("config", "delete") /\ ConvertOld
    BY <2>2, ConvertShows DEF CalInv
  <2>3. QED
    BY <1>4, <2>1, <2>2 DEF LoadConfig
<1>5. CASE EndConversion
  <2>1. SavedInv' /\ conf'.old = Unset
    BY <1>5, DeleteHolds DEF EndConversion, CalInv
  <2>2. ShowsWanted'
    BY <1>5 DEF EndConversion, DeleteOld, CalInv, ShowsWanted
  <2>3. QED
    BY <1>5, <2>1, <2>2 DEF EndConversion, CalInv
<1>6. CASE UpdateStatus
  <2>1. CASE Goes("status", "object") /\ UNCHANGED calVars
    BY <2>1, CalibrationUntouched
  <2>2. ASSUME Goes("status", "object"), NEW v \in Offset, SfpCalibration(v)
        PROVE  CalInv'
    BY <2>2 DEF SfpCalibration, CalInv, SavedInv, Holds, ShowsWanted
  <2>3. QED
    BY <1>6, <2>1, <2>2 DEF UpdateStatus, Ending
<1>7. QED
  BY <1>1, <1>2, <1>3, <1>4, <1>5, <1>6 DEF Boot

LEMMA LoopKeeps ==
  ASSUME TypeOK, CalInv, Loop, ~Ending
  PROVE  CalInv'
<1> USE DEF Loaded
<1>1. stage' = stage
  BY LoopParts
<1>2. CASE AnnounceTimer \/ Lease \/ Calms
  BY <1>1, <1>2, CalibrationUntouched DEF AnnounceTimer, Lease, Calms
<1>3. CASE AddressTimer
  BY <1>1, <1>3, CalibrationUntouched DEF AddressTimer, Ending
<1>4. CASE UbusGetStatus \/ Kill \/ PowerLoss
  BY <1>4 DEF UbusGetStatus, Kill, Ending
<1>5. CASE UbusSetCalibration
  <2>1. PICK v \in Offset : SetWebcamCalibration(v, {v})
    BY <1>5 DEF UbusSetCalibration
  <2>2. conf.old = Unset /\ stage = "run"
    BY <1>5 DEF UbusSetCalibration, Serving, CalInv
  <2>3. SavedInv' /\ ShowsWanted' /\ conf'.old = conf.old
    BY <2>1, <2>2, SetShows DEF CalInv
  <2>4. QED
    BY <1>1, <2>2, <2>3 DEF CalInv
<1>6. CASE UbusOtherCommit
  <2>1. OtherCommit /\ stage = "run"
    BY <1>6 DEF UbusOtherCommit, Serving
  <2>2. SavedInv'
    BY <2>1, OtherHolds DEF CalInv
  <2>3. QED
    BY <1>1, <2>1, <2>2 DEF OtherCommit, CalInv, ShowsWanted
<1>7. CASE SfpTimer
  <2>1. PICK v \in Offset : SfpCalibration(v)
    BY <1>7 DEF SfpTimer
  <2>2. stage = "run"
    BY <1>7 DEF SfpTimer, Serving
  <2>3. QED
    BY <1>1, <2>1, <2>2 DEF SfpCalibration, CalInv, SavedInv, Holds, ShowsWanted
<1>8. QED
  BY <1>2, <1>3, <1>4, <1>5, <1>6, <1>7 DEF Loop, Ending

LEMMA CalInvInit == Init => CalInv
<1> SUFFICES ASSUME Init PROVE CalInv
  OBVIOUS
<1>1. conf = disk /\ delta = disk /\ durable = wanted /\ stage \notin Loaded
  BY DEF Init, CalibrationStart, Loaded
<1>2. Holds(disk, wanted)
  BY OffsetWord DEF Init, CalibrationStart, Holds
<1>3. QED
  BY <1>1, <1>2 DEF CalInv, SavedInv, Loaded

LEMMA CalInvStep ==
  ASSUME TypeOK, CalInv, [Next]_vars
  PROVE  CalInv'
<1>1. CASE UNCHANGED vars
  BY <1>1, CalibrationUntouched DEF vars
<1>2. QED
  BY <1>1, CalibrationLost, BootKeeps, LoopKeeps DEF Next, Loop

(* camera_calibration.offset_x: for every zoom and offset, and whatever    *)
(* commit fails or process dies, also between the two commits of the       *)
(* conversion, the driver shows the offset that was set, up to Slack.      *)
THEOREM CalibrationSafe == Spec => []CalibrationKept
<1>1. Init => TypeOK /\ CalInv
  BY TypeInit, CalInvInit
<1>2. (TypeOK /\ CalInv) /\ [Next]_vars => (TypeOK /\ CalInv)'
  BY TypeStep, CalInvStep
<1>3. TypeOK /\ CalInv => CalibrationKept
  BY DEF CalInv, Loaded, CalibrationKept
<1>4. QED
  BY <1>1, <1>2, <1>3, PTL DEF Spec
=============================================================================
