-------------------------- MODULE MotorLinkProofs --------------------------
(* Proofs about MotorLink for every set of positions and ranges, every     *)
(* kind of MCU and every combination of faults.                            *)
EXTENDS MotorLink, TLAPS

(* While saves work the file, and what uci noted beside it, is what is in  *)
(* memory ...                                                              *)
StoreInv == up /\ failed = {} => disk = conf /\ delta = conf

(* ... what is not written yet is in range ...                             *)
PendingInRange == (conf # disk => conf \in InRange) /\ (delta # disk => delta \in InRange)

(* ... and an in-range position in use is the one that would be loaded.    *)
KnownInv == up /\ "set" \notin failed /\ pos \in InRange => Loaded(conf) = pos

KeepInv == StoreInv /\ PendingInRange /\ KnownInv

Inv == TypeOK /\ KeepInv

-----------------------------------------------------------------------------
LEMMA LoadedInRange == \A d \in Position : Loaded(d) \in InRange /\ Loaded(d) \in Position
BY PositionsOK DEF Loaded

(* What is put on the line has the type of the line.                       *)
LEMMA SentType ==
  ASSUME TypeOK, NEW m \in Commands, NEW rest \in Seq(Answers),
         Sent(m, rest) \/ NotSent(rest)
  PROVE  toMcu' \in Seq(Commands) /\ toDrv' \in Seq(Answers)
<1>1. Append(toMcu, m) \in Seq(Commands) /\ <<>> \in Seq(Answers)
  BY DEF TypeOK
<1>2. toMcu' \in {toMcu, Append(toMcu, m)} /\ toDrv' \in {rest, <<>>}
  BY DEF Sent, NotSent
<1> QED BY <1>1, <1>2 DEF TypeOK

LEMMA CommandTypes ==
  /\ Get \in Commands /\ Reboot \in Commands
  /\ \A p \in Position : Move(p) \in Commands /\ Restore(p) \in Commands
  /\ Request \in Answers
  /\ \A p \in Position \cup {NoPosition} : Report(p) \in Answers
BY DEF Commands, Answers

(* The message at the head of the line, by its type.                       *)
LEMMA HeadAnswer ==
  ASSUME TypeOK, toDrv # <<>>, Head(toDrv).type = "STATUS_REPORT"
  PROVE  Head(toDrv).pos \in Position \cup {NoPosition}
<1>1. Head(toDrv) \in Answers
  BY DEF TypeOK
<1> QED BY <1>1 DEF Answers, Request, Report

LEMMA HeadCommand ==
  ASSUME TypeOK, toMcu # <<>>, Head(toMcu).type \in {"MOVE_MOTOR", "RESTORE_MOTOR"}
  PROVE  Head(toMcu).pos \in Position
<1>1. Head(toMcu) \in Commands
  BY DEF TypeOK
<1> QED BY <1>1 DEF Commands, Get, Reboot, Move, Restore

LEMMA TailTypes ==
  ASSUME TypeOK
  PROVE  /\ toDrv # <<>> => Tail(toDrv) \in Seq(Answers)
         /\ toMcu # <<>> => Tail(toMcu) \in Seq(Commands)
BY DEF TypeOK

LEMMA InitInv == Init => Inv
<1> SUFFICES ASSUME Init PROVE Inv
  OBVIOUS
<1> USE PositionsOK DEF Init
<1>1. toMcu \in Seq(Commands) /\ toDrv \in Seq(Answers)
  OBVIOUS
<1>3. /\ pos \in Position /\ disk \in Position /\ conf \in Position /\ delta \in Position
      /\ reg \in Position /\ phys \in Position
  BY LoadedInRange
<1>4. TypeOK
  BY <1>1, <1>3 DEF TypeOK
<1> QED BY <1>4 DEF Inv, KeepInv, StoreInv, PendingInRange, KnownInv

-----------------------------------------------------------------------------
(* The history told is a truth value whatever it is computed from.         *)
LEMMA ToldTypes ==
  ASSUME TypeOK
  PROVE  /\ ToldAfterReset \in BOOLEAN /\ ToldAfterLoss \in BOOLEAN
         /\ \A d : ToldAfter(d) \in BOOLEAN
BY DEF TypeOK, ToldAfterReset, ToldAfterLoss, ToldAfter

(* One lemma per group of actions.                                         *)
LEMMA KoruzaInitKeeps == ASSUME Inv, KoruzaInit PROVE Inv'
<1> USE DEF Inv
<1>1. toMcu' \in Seq(Commands) /\ toDrv' \in Seq(Answers)
  <2>1. CASE toMcu' = <<>> /\ toDrv' = <<>>
    BY <2>1
  <2>2. CASE Sent(Get, <<>>) \/ NotSent(<<>>)
    <3>1. <<>> \in Seq(Answers)
      OBVIOUS
    <3> QED BY <2>2, <3>1, SentType, CommandTypes
  <2> QED BY <2>1, <2>2 DEF KoruzaInit
<1>2. /\ mcuUp' \in BOOLEAN /\ reg' \in Position /\ restored' \in BOOLEAN
      /\ phys' \in Position /\ eager' \in BOOLEAN
  BY PositionsOK DEF KoruzaInit, McuDown, mcu, TypeOK
<1>3. /\ up' = TRUE /\ connected' = FALSE /\ waiting' = FALSE
      /\ pos' = Loaded(delta) /\ conf' = delta /\ delta' = delta /\ told' = told
      /\ disk' \in {disk, delta} /\ failed' = IF disk' = delta THEN {} ELSE {"commit"}
  BY DEF KoruzaInit
<1>4. TypeOK'
  BY <1>1, <1>2, <1>3, LoadedInRange DEF TypeOK
<1>5. KeepInv'
  BY <1>3, LoadedInRange DEF TypeOK, KeepInv, StoreInv, PendingInRange, KnownInv
<1> QED BY <1>4, <1>5

LEMMA StopsKeep == ASSUME Inv, Crash \/ PowerLoss PROVE Inv'
<1> USE DEF Inv
<1>1. CASE Crash
  BY <1>1, ToldTypes DEF Crash, store, mcu, line, TypeOK, KeepInv, StoreInv, PendingInRange,
     KnownInv
<1>2. CASE PowerLoss
  <2>1. /\ up' = FALSE /\ connected' = FALSE /\ waiting' = FALSE
        /\ mcuUp' = FALSE /\ restored' = FALSE /\ reg' = Home
        /\ toMcu' = <<>> /\ toDrv' = <<>> /\ delta' = disk /\ told' = ToldAfter(disk)
        /\ UNCHANGED <<eager, phys, pos, conf, disk, failed>>
    BY <1>2 DEF PowerLoss, McuDown
  <2>2. <<>> \in Seq(Commands) /\ <<>> \in Seq(Answers) /\ Home \in Position
    BY PositionsOK
  <2> QED BY <2>1, <2>2, ToldTypes DEF TypeOK, KeepInv, StoreInv, PendingInRange, KnownInv
<1> QED BY <1>1, <1>2

LEMMA TimersKeep == ASSUME Inv, StatusTimer \/ WaitReplyTimer PROVE Inv'
<1> USE DEF Inv
<1>1. CASE StatusTimer
  <2>1. toMcu' \in Seq(Commands) /\ toDrv' \in Seq(Answers)
    BY <1>1, SentType, CommandTypes DEF StatusTimer, TypeOK
  <2>2. told' \in BOOLEAN /\ connected' \in BOOLEAN
    BY <1>1, ToldTypes DEF StatusTimer, TypeOK
  <2> QED BY <1>1, <2>1, <2>2 DEF StatusTimer, store, mcu, TypeOK, KeepInv, StoreInv,
             PendingInRange, KnownInv
<1>2. CASE WaitReplyTimer
  BY <1>2 DEF WaitReplyTimer, store, mcu, line, TypeOK, KeepInv, StoreInv,
     PendingInRange, KnownInv
<1> QED BY <1>1, <1>2

(* What a save leaves behind.                                              *)
LEMMA SaveKeeps ==
  ASSUME Inv, NEW p \in InRange, Save(p), pos' = p, up, up'
  PROVE  KeepInv' /\ conf' \in Position /\ disk' \in Position /\ delta' \in Position
         /\ failed' \in SUBSET {"set", "commit"}
<1> USE DEF Inv
<1>1. p \in Position /\ Loaded(p) = p
  BY PositionsOK DEF Loaded
<1>2. \/ conf' = p
      \/ conf' = conf /\ conf # p
  BY DEF Save
<1>3. \/ /\ disk' = conf' /\ delta' = conf'
         /\ failed' = IF conf' = p THEN {} ELSE {"set"}
      \/ /\ disk' = disk /\ delta' \in {delta, conf'}
         /\ failed' = (IF conf' = p THEN {} ELSE {"set"}) \cup {"commit"}
  BY DEF Save, Commit
<1>4. conf' \in Position /\ disk' \in Position /\ delta' \in Position
      /\ failed' \in SUBSET {"set", "commit"}
  BY <1>1, <1>2, <1>3 DEF TypeOK
<1>5. StoreInv'
  BY <1>3 DEF StoreInv
<1>6. PendingInRange'
  BY <1>1, <1>2, <1>3 DEF KeepInv, PendingInRange
<1>7. KnownInv'
  <2> SUFFICES ASSUME "set" \notin failed' PROVE Loaded(conf') = p
    BY DEF KnownInv, Loaded
  <2>1. conf' = p
    BY <1>3
  <2> QED BY <1>1, <2>1
<1> QED BY <1>4, <1>5, <1>6, <1>7 DEF KeepInv

(* A report changes the position in use and the stored one together, or    *)
(* takes an out-of-range position into use and leaves the store alone.     *)
LEMMA StatusReportForms ==
  ASSUME TypeOK, StatusReport
  PROVE  /\ up /\ up' = up /\ toDrv # <<>> /\ Head(toDrv).pos \in Position \cup {NoPosition}
         /\ Head(toDrv).type = "STATUS_REPORT"
         /\ connected' = TRUE /\ waiting' = FALSE /\ UNCHANGED mcu
         /\ \/ connected /\ toDrv' = Tail(toDrv) /\ toMcu' = toMcu
               /\ HandlePosition(Head(toDrv).pos, told)
            \/ ~connected /\ Sent(Restore(pos), Tail(toDrv))
               /\ HandlePosition(Head(toDrv).pos, told)
            \/ ~connected /\ NotSent(Tail(toDrv))
               /\ HandlePosition(Head(toDrv).pos, ToldAfterLoss)
BY HeadAnswer DEF StatusReport

LEMMA StatusReportKeeps == ASSUME Inv, StatusReport PROVE Inv'
<1> USE DEF Inv
<1>1. PICK p \in Position \cup {NoPosition}, told0 \in BOOLEAN : HandlePosition(p, told0)
  BY StatusReportForms, ToldTypes DEF TypeOK
<1>2. toMcu' \in Seq(Commands) /\ toDrv' \in Seq(Answers)
  <2>1. CASE toDrv' = Tail(toDrv) /\ toMcu' = toMcu
    BY <2>1, StatusReportForms, TailTypes DEF TypeOK
  <2>2. CASE Sent(Restore(pos), Tail(toDrv)) \/ NotSent(Tail(toDrv))
    BY <2>2, StatusReportForms, TailTypes, SentType, CommandTypes DEF TypeOK
  <2> QED BY <2>1, <2>2, StatusReportForms
<1>3. told' \in BOOLEAN
  <2>1. Tells(p) \in BOOLEAN
    BY DEF Tells
  <2> QED BY <1>1, <2>1 DEF HandlePosition
<1>4. up /\ up' = up /\ connected' = TRUE /\ waiting' = FALSE /\ UNCHANGED mcu
  BY StatusReportForms
<1>5. CASE p = NoPosition
  <2>1. UNCHANGED <<pos, store>>
    BY <1>1, <1>5, PositionsOK DEF HandlePosition
  <2> QED BY <1>2, <1>3, <1>4, <2>1 DEF store, mcu, TypeOK, KeepInv, StoreInv, PendingInRange,
             KnownInv
<1>6. CASE p \in InRange
  <2>1. pos' = p /\ Save(p) /\ p \in Position
    BY <1>1, <1>6, PositionsOK DEF HandlePosition
  <2>2. /\ KeepInv' /\ conf' \in Position /\ disk' \in Position /\ delta' \in Position
        /\ failed' \in SUBSET {"set", "commit"}
    BY <1>4, <1>6, <2>1, SaveKeeps
  <2>3. TypeOK'
    BY <1>2, <1>3, <1>4, <2>1, <2>2 DEF mcu, TypeOK
  <2> QED BY <2>2, <2>3
<1>7. CASE p \in Position \ InRange
  <2>1. pos' = p /\ UNCHANGED store
    BY <1>1, <1>7, PositionsOK DEF HandlePosition
  <2> QED BY <1>2, <1>3, <1>4, <1>7, <2>1 DEF store, mcu, TypeOK, KeepInv, StoreInv,
             PendingInRange, KnownInv
<1> QED BY <1>1, <1>5, <1>6, <1>7

LEMMA SendersKeep ==
  ASSUME Inv, RestoreRequest \/ MoveMotor \/ Homing \/ RebootMcu PROVE Inv'
<1> USE DEF Inv
<1>1. ASSUME NEW m \in Commands, NEW rest \in Seq(Answers), Transmit(m, rest)
      PROVE  toMcu' \in Seq(Commands) /\ toDrv' \in Seq(Answers) /\ told' \in BOOLEAN
  <2>1. Sent(m, rest) \/ NotSent(rest)
    BY <1>1 DEF Transmit
  <2>2. told' \in BOOLEAN
    BY <1>1, ToldTypes DEF Transmit, TypeOK
  <2> QED BY <2>1, <2>2, SentType
<1>2. toMcu' \in Seq(Commands) /\ toDrv' \in Seq(Answers) /\ told' \in BOOLEAN
  <2>1. CASE RestoreRequest
    <3>1. Transmit(Restore(pos), Tail(toDrv)) /\ toDrv # <<>>
      BY <2>1 DEF RestoreRequest
    <3>2. Restore(pos) \in Commands /\ Tail(toDrv) \in Seq(Answers)
      BY <3>1, TailTypes, CommandTypes DEF TypeOK
    <3> QED BY <1>1, <3>1, <3>2
  <2>2. ASSUME NEW m \in Commands, Command(m)
        PROVE  toMcu' \in Seq(Commands) /\ toDrv' \in Seq(Answers) /\ told' \in BOOLEAN
    BY <1>1, <2>2 DEF Command, TypeOK
  <2>3. CASE MoveMotor \/ Homing
    <3>1. PICK p \in Position : Command(Move(p))
      BY <2>3, PositionsOK DEF MoveMotor, Homing
    <3>2. Move(p) \in Commands
      BY CommandTypes
    <3> QED BY <2>2, <3>1, <3>2
  <2>4. CASE RebootMcu
    <3>1. Reboot \in Commands /\ Command(Reboot)
      BY <2>4, CommandTypes DEF RebootMcu
    <3> QED BY <2>2, <3>1
  <2> QED BY <2>1, <2>3, <2>4
<1>3. UNCHANGED <<drv, store, mcu>>
  BY DEF RestoreRequest, MoveMotor, Homing, RebootMcu, Command
<1> QED BY <1>2, <1>3 DEF drv, store, mcu, TypeOK, KeepInv, StoreInv, PendingInRange, KnownInv

(* Another commit writes what the last save left in memory.                *)
LEMMA OtherCommitKeeps == ASSUME Inv, OtherCommit PROVE Inv'
<1> USE DEF Inv
<1>1. up /\ UNCHANGED <<drv, conf, mcu, line, told>>
  BY DEF OtherCommit
<1>2. \/ disk' = conf /\ delta' = conf /\ failed' = failed \cap {"set"}
      \/ disk' = disk /\ delta' \in {delta, conf} /\ failed' = (failed \cap {"set"}) \cup {"commit"}
  BY DEF OtherCommit, Commit
<1>3. TypeOK'
  BY <1>1, <1>2 DEF drv, mcu, line, TypeOK
<1>4. StoreInv' /\ PendingInRange'
  BY <1>1, <1>2 DEF KeepInv, StoreInv, PendingInRange
<1>5. KnownInv'
  BY <1>1, <1>2 DEF drv, KeepInv, KnownInv, Loaded
<1> QED BY <1>3, <1>4, <1>5 DEF KeepInv

(* The MCU and the line touch neither the driver nor its store.            *)
LEMMA McuKeeps ==
  ASSUME Inv, McuHandle \/ McuFails \/ McuBoot \/ LineLoses PROVE Inv'
<1> USE DEF Inv
<1>1. UNCHANGED <<drv, store>>
  BY DEF McuHandle, McuReport, McuMove, McuRestore, McuReset, McuFails, McuBoot, LineLoses
<1>2. KeepInv'
  BY <1>1 DEF drv, store, KeepInv, StoreInv, PendingInRange, KnownInv
<1>3. /\ toMcu' \in Seq(Commands) /\ toDrv' \in Seq(Answers)
      /\ mcuUp' \in BOOLEAN /\ reg' \in Position /\ restored' \in BOOLEAN /\ eager' \in BOOLEAN
      /\ phys' \in Position /\ told' \in BOOLEAN
  <2> USE PositionsOK, TailTypes DEF TypeOK
  <2>1. CASE McuReset
    <3>1. <<>> \in Seq(Commands) /\ Home \in Position
      OBVIOUS
    <3>2. /\ toMcu' = <<>> /\ toDrv' = toDrv /\ told' = ToldAfterReset /\ phys' = phys
          /\ eager' = eager
      BY <2>1 DEF McuReset, McuDown
    <3> QED BY <2>1, <3>1, <3>2, ToldTypes DEF McuReset, McuDown
  <2>2. CASE McuHandle /\ McuReport
    <3>1. Report(IF restored \/ eager THEN reg ELSE NoPosition) \in Answers
      BY CommandTypes
    <3> QED BY <2>2, <3>1 DEF McuHandle, McuReport, Handled, mcu
  <2>3. CASE McuHandle /\ ~McuReport /\ ~McuReset
    <3>1. PICK m : m = Head(toMcu)
      OBVIOUS
    <3>2. \/ m.type = "MOVE_MOTOR" /\ McuMove(m.pos)
          \/ m.type = "RESTORE_MOTOR" /\ McuRestore(m.pos)
      BY <2>3, <3>1 DEF McuHandle
    <3>3. m.pos \in Position /\ toMcu # <<>>
      BY <2>3, <3>1, <3>2, HeadCommand DEF McuHandle
    <3>4. CASE McuMove(m.pos)
      <4>1. /\ reg' \in Position /\ phys' \in Position /\ told' \in BOOLEAN
            /\ toMcu' = Tail(toMcu)
        BY <3>3, <3>4 DEF McuMove, Handled
      <4> QED BY <3>3, <3>4, <4>1 DEF McuMove
    <3>5. CASE McuRestore(m.pos)
      BY <3>3, <3>5 DEF McuRestore, Handled
    <3> QED BY <3>2, <3>4, <3>5
  <2>4. CASE McuBoot
    BY <2>4, CommandTypes DEF McuBoot
  <2>5. CASE LineLoses
    BY <2>5, ToldTypes DEF LineLoses, mcu
  <2> QED BY <2>1, <2>2, <2>3, <2>4, <2>5 DEF McuFails
<1>4. TypeOK'
  BY <1>1, <1>3 DEF drv, store, TypeOK
<1> QED BY <1>2, <1>4

LEMMA NextInv == Inv /\ [Next]_vars => Inv'
<1> SUFFICES ASSUME Inv, [Next]_vars PROVE Inv'
  OBVIOUS
<1>1. CASE UNCHANGED vars
  BY <1>1 DEF vars, drv, store, mcu, line, Inv, TypeOK, KeepInv, StoreInv,
     PendingInRange, KnownInv
<1> QED BY <1>1, KoruzaInitKeeps, StopsKeep, TimersKeep, StatusReportKeeps, SendersKeep,
           OtherCommitKeeps, McuKeeps DEF Next

LEMMA Invariant == Spec => []Inv
BY InitInv, NextInv, PTL DEF Spec

-----------------------------------------------------------------------------
(* The variables of the motor link keep their types.                       *)
THEOREM TypeCorrect == Spec => []TypeOK
<1>1. Inv => TypeOK
  BY DEF Inv
<1> QED BY Invariant, <1>1, PTL

(* Neither a crash nor a power loss forgets an in-range position, unless   *)
(* the save of that position failed.                                       *)
THEOREM CrashSafe == Spec => []CrashKeepsPosition
<1>1. Inv => CrashKeepsPosition
  BY DEF Inv, KeepInv, StoreInv, KnownInv, CrashKeepsPosition
<1> QED BY Invariant, <1>1, PTL

(* Nothing out of range ever reaches the stored configuration.             *)
THEOREM StoresInRange == Spec => SavesInRange
<1>1. Inv /\ [Next]_vars => [disk' # disk => disk' \in InRange]_vars
  <2> SUFFICES ASSUME Inv, Next PROVE disk' # disk => disk' \in InRange
    OBVIOUS
  <2> USE DEF Inv, KeepInv, PendingInRange
  <2>1. CASE StatusReport
    <3>1. PICK p, told0 : HandlePosition(p, told0)
      BY <2>1 DEF StatusReport
    <3>2. UNCHANGED store \/ (p \in InRange /\ Save(p))
      BY <3>1 DEF HandlePosition, store
    <3> QED BY <3>2 DEF Save, Commit, store
  <2>2. CASE OtherCommit
    BY <2>2 DEF OtherCommit, Commit
  <2>3. CASE KoruzaInit
    BY <2>3 DEF KoruzaInit
  <2>4. CASE ~StatusReport /\ ~OtherCommit /\ ~KoruzaInit
    BY <2>4 DEF Next, Crash, PowerLoss, StatusTimer, WaitReplyTimer, RestoreRequest,
       MoveMotor, Homing, RebootMcu, Command, McuHandle, McuReport, McuMove, McuRestore,
       McuReset, McuFails, McuBoot, LineLoses, store
  <2> QED BY <2>1, <2>2, <2>3, <2>4
<1> QED BY Invariant, <1>1, PTL DEF Spec, SavesInRange
-----------------------------------------------------------------------------
(* The place the motors stand at                                           *)

IsRestore(m) == m.type = "RESTORE_MOTOR"
HasRestore(msgs) == \E i \in 1 .. Len(msgs) : IsRestore(msgs[i])

(* The RESTORE that counts, or any of them when the MCU may lose one       *)
(* without harm, gives the place.                                          *)
Rightful(msgs) ==
  \A i \in 1 .. Len(msgs) :
    IsRestore(msgs[i]) /\ (eager => \A j \in 1 .. i - 1 : ~IsRestore(msgs[j]))
      => msgs[i].pos = phys

(* A request to restore is on the line before any wrong report.            *)
Harmless(m) == m.type = "STATUS_REPORT" => m.pos \in {phys, NoPosition}
Asked(msgs) ==
  \E i \in 1 .. Len(msgs) : msgs[i] = Request /\ \A j \in 1 .. i - 1 : Harmless(msgs[j])

(* A dead MCU has received nothing ...                                     *)
DownInv == ~mcuUp => toMcu = <<>> /\ ~restored

(* ... a stopped driver is going to load the place ...                     *)
KeptInv == ~up => Loaded(delta) = phys

(* ... a waiting MCU is going to be given it ...                           *)
GivenInv == Waits => Rightful(toMcu)

(* ... the driver holds on to it while the MCU is down or says nothing ... *)
HeldInv == up /\ (~mcuUp \/ (Waits /\ ~eager)) => pos = phys /\ Agreed(toDrv)

(* ... and sends it before it believes an eager one.                       *)
SentInv ==
  up /\ Waits /\ eager =>
    HasRestore(toMcu) \/ (pos = phys /\ (~connected \/ Asked(toDrv)))

PlaceInv == DownInv /\ (told => KeptInv /\ GivenInv /\ HeldInv /\ SentInv)

(* Sequences: what holds of all members holds of the tail and of an        *)
(* extension by another such member.                                       *)
LEMMA TailMembers ==
  ASSUME NEW S, NEW s \in Seq(S), s # <<>>
  PROVE  /\ Tail(s) \in Seq(S) /\ Len(Tail(s)) = Len(s) - 1 /\ s[1] = Head(s)
         /\ \A i \in 1 .. Len(Tail(s)) : i + 1 \in 1 .. Len(s) /\ Tail(s)[i] = s[i + 1]
OBVIOUS

LEMMA AppendMembers ==
  ASSUME NEW S, NEW s \in Seq(S), NEW m \in S
  PROVE  /\ Append(s, m) \in Seq(S) /\ Len(Append(s, m)) = Len(s) + 1
         /\ Append(s, m)[Len(s) + 1] = m
         /\ \A i \in 1 .. Len(s) : Append(s, m)[i] = s[i]
OBVIOUS

LEMMA AgreedTail ==
  ASSUME NEW s \in Seq(Answers), s # <<>>, Agreed(s)
  PROVE  Agreed(Tail(s)) /\ Harmless(Head(s))
BY TailMembers DEF Agreed, Harmless

LEMMA AgreedAppend ==
  ASSUME NEW s \in Seq(Answers), Agreed(s), NEW m \in Answers, Harmless(m)
  PROVE  Agreed(Append(s, m))
BY AppendMembers DEF Agreed, Harmless

LEMMA RightfulTail ==
  ASSUME NEW s \in Seq(Commands), s # <<>>, Rightful(s), eager => ~IsRestore(Head(s))
  PROVE  Rightful(Tail(s))
<1> SUFFICES ASSUME NEW i \in 1 .. Len(Tail(s)), IsRestore(Tail(s)[i]),
                    eager => \A j \in 1 .. i - 1 : ~IsRestore(Tail(s)[j])
             PROVE  Tail(s)[i].pos = phys
  BY DEF Rightful
<1>1. i + 1 \in 1 .. Len(s) /\ Tail(s)[i] = s[i + 1]
  BY TailMembers
<1>2. ASSUME eager, NEW j \in 1 .. i PROVE ~IsRestore(s[j])
  <2>1. CASE j = 1
    BY <1>2, <2>1, TailMembers
  <2>2. CASE j # 1
    <3>1. j - 1 \in 1 .. i - 1 /\ j - 1 \in 1 .. Len(Tail(s))
      BY <2>2
    <3>2. Tail(s)[j - 1] = s[(j - 1) + 1] /\ (j - 1) + 1 = j
      BY <3>1, TailMembers
    <3> QED BY <1>2, <3>1, <3>2
  <2> QED BY <2>1, <2>2
<1> QED BY <1>1, <1>2 DEF Rightful

LEMMA RightfulAppend ==
  ASSUME NEW s \in Seq(Commands), Rightful(s), NEW m \in Commands,
         IsRestore(m) => m.pos = phys \/ (eager /\ HasRestore(s))
  PROVE  Rightful(Append(s, m))
<1> SUFFICES ASSUME NEW i \in 1 .. Len(Append(s, m)), IsRestore(Append(s, m)[i]),
                    eager => \A j \in 1 .. i - 1 : ~IsRestore(Append(s, m)[j])
             PROVE  Append(s, m)[i].pos = phys
  BY DEF Rightful
<1>1. CASE i \in 1 .. Len(s)
  <2>1. Append(s, m)[i] = s[i] /\ \A j \in 1 .. i - 1 : Append(s, m)[j] = s[j]
    BY <1>1, AppendMembers
  <2> QED BY <1>1, <2>1 DEF Rightful
<1>2. CASE i = Len(s) + 1
  <2>1. Append(s, m)[i] = m
    BY <1>2, AppendMembers
  <2>2. CASE eager /\ HasRestore(s)
    <3>1. PICK j \in 1 .. Len(s) : IsRestore(s[j])
      BY <2>2 DEF HasRestore
    <3>2. Append(s, m)[j] = s[j] /\ j \in 1 .. i - 1
      BY <1>2, AppendMembers
    <3> QED BY <2>2, <3>1, <3>2
  <2> QED BY <2>1, <2>2
<1> QED BY <1>1, <1>2, AppendMembers

LEMMA HasRestoreTail ==
  ASSUME NEW s \in Seq(Commands), HasRestore(s), ~IsRestore(Head(s))
  PROVE  HasRestore(Tail(s))
<1>1. PICK i \in 1 .. Len(s) : IsRestore(s[i])
  BY DEF HasRestore
<1>2. s # <<>> /\ i # 1 /\ i - 1 \in 1 .. Len(Tail(s))
  BY <1>1, TailMembers
<1>3. Tail(s)[i - 1] = s[i]
  BY <1>2
<1> QED BY <1>1, <1>2, <1>3 DEF HasRestore

LEMMA HasRestoreAppend ==
  ASSUME NEW s \in Seq(Commands), NEW m \in Commands, HasRestore(s) \/ IsRestore(m)
  PROVE  HasRestore(Append(s, m))
BY AppendMembers DEF HasRestore

LEMMA AskedTail ==
  ASSUME NEW s \in Seq(Answers), Asked(s), Head(s) # Request
  PROVE  Asked(Tail(s)) /\ Harmless(Head(s))
<1>1. PICK i \in 1 .. Len(s) : s[i] = Request /\ \A j \in 1 .. i - 1 : Harmless(s[j])
  BY DEF Asked
<1>2. s # <<>> /\ i # 1 /\ i - 1 \in 1 .. Len(Tail(s)) /\ s[1] = Head(s) /\ 1 \in 1 .. i - 1
  BY <1>1, TailMembers
<1>3. Tail(s)[i - 1] = s[i]
  BY <1>2
<1>4. ASSUME NEW j \in 1 .. (i - 1) - 1 PROVE Harmless(Tail(s)[j])
  <2>1. j \in 1 .. Len(Tail(s)) /\ j + 1 \in 1 .. i - 1
    BY <1>2
  <2>2. Tail(s)[j] = s[j + 1]
    BY <1>2, <2>1, TailMembers
  <2> QED BY <1>1, <2>1, <2>2
<1> QED BY <1>1, <1>2, <1>3, <1>4 DEF Asked

LEMMA AskedAppend ==
  ASSUME NEW s \in Seq(Answers), NEW m \in Answers, Asked(s) \/ (Agreed(s) /\ m = Request)
  PROVE  Asked(Append(s, m))
<1>1. CASE Asked(s)
  <2>1. PICK i \in 1 .. Len(s) : s[i] = Request /\ \A j \in 1 .. i - 1 : Harmless(s[j])
    BY <1>1 DEF Asked
  <2>2. i \in 1 .. Len(Append(s, m)) /\ Append(s, m)[i] = s[i]
        /\ \A j \in 1 .. i - 1 : Append(s, m)[j] = s[j]
    BY AppendMembers
  <2> QED BY <2>1, <2>2 DEF Asked
<1>2. CASE Agreed(s) /\ m = Request
  <2> DEFINE n == Len(s) + 1
  <2>1. n \in 1 .. Len(Append(s, m)) /\ Append(s, m)[n] = Request
    BY <1>2, AppendMembers
  <2>2. \A j \in 1 .. n - 1 : Append(s, m)[j] = s[j] /\ Harmless(s[j])
    BY <1>2, AppendMembers DEF Agreed, Harmless
  <2>3. \A j \in 1 .. n - 1 : Harmless(Append(s, m)[j])
    BY <2>2
  <2> HIDE DEF n
  <2> QED BY <2>1, <2>3 DEF Asked
<1> QED BY <1>1, <1>2

(* These speak of the place and the kind of firmware only.                 *)
LEMMA SamePlace ==
  ASSUME phys' = phys, eager' = eager
  PROVE  /\ Agreed(toDrv)' <=> Agreed(toDrv')
         /\ Asked(toDrv)' <=> Asked(toDrv')
         /\ Rightful(toMcu)' <=> Rightful(toMcu')
         /\ HasRestore(toMcu)' <=> HasRestore(toMcu')
BY DEF Agreed, Asked, Harmless, Rightful, HasRestore, IsRestore

LEMMA Empty ==
  Agreed(<<>>) /\ Rightful(<<>>)
BY DEF Agreed, Rightful
(* The driver starts again, with the place it kept, or stops.              *)
LEMMA StartPlaces == ASSUME Inv, PlaceInv, KoruzaInit PROVE PlaceInv'
<1> USE DEF Inv
<1>1. /\ up' = TRUE /\ connected' = FALSE /\ pos' = Loaded(delta) /\ told' = told
      /\ toDrv' = <<>> /\ ~up /\ phys' = phys /\ eager' = eager
  BY DEF KoruzaInit, McuDown, mcu, Sent, NotSent
<1>2. CASE McuDown /\ toMcu' = <<>>
  <2>1. DownInv' /\ KeptInv' /\ GivenInv' /\ SentInv'
    BY <1>1, <1>2 DEF McuDown, DownInv, KeptInv, GivenInv, SentInv, Waits
  <2>2. told => HeldInv'
    BY <1>1, SamePlace, Empty DEF PlaceInv, KeptInv, HeldInv
  <2> QED BY <1>1, <2>1, <2>2 DEF PlaceInv
<1>3. CASE UNCHANGED mcu /\ (Sent(Get, <<>>) \/ NotSent(<<>>))
  <2>1. toMcu' = toMcu \/ (mcuUp /\ toMcu' = Append(toMcu, Get))
    BY <1>3 DEF Sent, NotSent
  <2>2. DownInv' /\ KeptInv'
    BY <1>1, <1>3, <2>1 DEF PlaceInv, DownInv, KeptInv, mcu
  <2>3. told /\ Waits => Rightful(toMcu')
    <3>1. Get \in Commands /\ ~IsRestore(Get) /\ toMcu \in Seq(Commands)
      BY CommandTypes DEF IsRestore, Get, TypeOK
    <3> QED BY <2>1, <3>1, RightfulAppend DEF PlaceInv, GivenInv
  <2>4. told => GivenInv' /\ HeldInv' /\ SentInv'
    BY <1>1, <1>3, <2>3, SamePlace, Empty DEF PlaceInv, KeptInv, GivenInv, HeldInv, SentInv,
       Waits, mcu
  <2> QED BY <1>1, <2>2, <2>4 DEF PlaceInv
<1> QED BY <1>2, <1>3 DEF KoruzaInit

LEMMA StopPlaces == ASSUME Inv, PlaceInv, Crash \/ PowerLoss PROVE PlaceInv'
<1>1. CASE Crash
  <2>1. /\ up' = FALSE /\ told' = ToldAfter(delta) /\ UNCHANGED <<store, mcu, line>>
    BY <1>1 DEF Crash
  <2>2. DownInv' /\ (told' => told /\ KeptInv')
    BY <2>1 DEF PlaceInv, DownInv, KeptInv, ToldAfter, store, mcu, line, Loaded
  <2>3. told => GivenInv' /\ HeldInv' /\ SentInv'
    BY <2>1, SamePlace DEF PlaceInv, GivenInv, HeldInv, SentInv, Waits, mcu, line
  <2> QED BY <2>2, <2>3 DEF PlaceInv
<1>2. CASE PowerLoss
  BY <1>2 DEF PowerLoss, McuDown, ToldAfter, Loaded, PlaceInv, DownInv, KeptInv, GivenInv,
     HeldInv, SentInv, Waits
<1> QED BY <1>1, <1>2

(* A message sent by a driver that keeps its position: a RESTORE, or       *)
(* another one that leaves unread what was.                                *)
LEMMA SendPlaces ==
  ASSUME Inv, PlaceInv, up, UNCHANGED <<up, pos, mcu>>,
         NEW m \in Commands, IsRestore(m) => m.pos = pos,
         NEW rest, rest = toDrv \/ (toDrv # <<>> /\ rest = Tail(toDrv)),
         IsRestore(m) \/ (rest = toDrv /\ (connected' => connected)),
         \/ Sent(m, rest) /\ told' = told
         \/ NotSent(rest) /\ told' = ToldAfterLoss
  PROVE  PlaceInv'
<1> USE DEF Inv
<1>1. toMcu \in Seq(Commands) /\ toDrv \in Seq(Answers)
  BY DEF TypeOK
<1>2. DownInv' /\ KeptInv'
  BY DEF Sent, NotSent, PlaceInv, DownInv, KeptInv, mcu
<1>3. SUFFICES ASSUME told' PROVE GivenInv' /\ HeldInv' /\ SentInv'
  BY <1>2 DEF PlaceInv
<1>4. told /\ GivenInv /\ HeldInv /\ SentInv
  BY <1>3 DEF ToldAfterLoss, PlaceInv
<1>5. \/ toMcu' = toMcu /\ ~mcuUp
      \/ toMcu' = toMcu /\ ~(eager /\ Waits)
      \/ toMcu' = Append(toMcu, m)
  BY <1>3 DEF Sent, NotSent, ToldAfterLoss
<1>6. toDrv' = rest \/ (toDrv' = <<>> /\ ~(eager /\ Waits))
  BY <1>3 DEF Sent, NotSent, ToldAfterLoss
<1>7. phys' = phys /\ eager' = eager /\ (Waits' <=> Waits) /\ (mcuUp' <=> mcuUp)
  BY DEF mcu, Waits
<1>8. GivenInv'
  <2> SUFFICES ASSUME Waits PROVE Rightful(toMcu')
    BY <1>7, SamePlace DEF GivenInv
  <2>1. Rightful(toMcu)
    BY <1>4 DEF GivenInv
  <2>2. IsRestore(m) => m.pos = phys \/ (eager /\ HasRestore(toMcu))
    BY <1>4 DEF HeldInv, SentInv
  <2> QED BY <1>1, <1>5, <2>1, <2>2, RightfulAppend
<1>9. HeldInv'
  <2> SUFFICES ASSUME ~mcuUp \/ (Waits /\ ~eager) PROVE pos = phys /\ Agreed(toDrv')
    BY <1>7, SamePlace DEF HeldInv
  <2>1. pos = phys /\ Agreed(toDrv)
    BY <1>4 DEF HeldInv
  <2> QED BY <1>1, <1>6, <2>1, AgreedTail, Empty
<1>10. SentInv'
  <2> SUFFICES ASSUME Waits, eager
               PROVE  HasRestore(toMcu') \/ (pos = phys /\ (~connected' \/ Asked(toDrv')))
    BY <1>7, SamePlace DEF SentInv
  <2>1. toMcu' = Append(toMcu, m) /\ toDrv' = rest
    BY <1>5, <1>6 DEF Waits
  <2>2. CASE HasRestore(toMcu) \/ IsRestore(m)
    BY <1>1, <2>1, <2>2, HasRestoreAppend
  <2>3. CASE ~HasRestore(toMcu) /\ ~IsRestore(m)
    BY <1>4, <2>1, <2>3 DEF SentInv
  <2> QED BY <2>2, <2>3
<1> QED BY <1>8, <1>9, <1>10

LEMMA NotRestores ==
  ~IsRestore(Get) /\ ~IsRestore(Reboot) /\ \A p \in Position : ~IsRestore(Move(p))
BY DEF IsRestore, Get, Reboot, Move

LEMMA DriverPlaces ==
  ASSUME Inv, PlaceInv,
         StatusTimer \/ WaitReplyTimer \/ RestoreRequest \/ MoveMotor \/ Homing
         \/ RebootMcu \/ OtherCommit
  PROVE  PlaceInv'
<1> USE DEF Inv
<1>1. CASE StatusTimer
  <2>1. /\ up /\ UNCHANGED <<up, pos, mcu>> /\ (connected' => connected)
        /\ \/ Sent(Get, toDrv) /\ told' = told
           \/ NotSent(toDrv) /\ told' = ToldAfterLoss
    BY <1>1 DEF StatusTimer
  <2>2. Get \in Commands /\ ~IsRestore(Get)
    BY CommandTypes, NotRestores
  <2> QED BY <2>1, <2>2, SendPlaces
<1>2. CASE WaitReplyTimer
  <2>1. UNCHANGED <<up, pos, store, mcu, line, told>> /\ connected' = FALSE
    BY <1>2 DEF WaitReplyTimer
  <2> QED BY <2>1, SamePlace DEF store, mcu, line, Waits, Loaded, PlaceInv, DownInv, KeptInv,
             GivenInv, HeldInv, SentInv
<1>3. CASE OtherCommit
  <2>1. UNCHANGED <<up, connected, pos, mcu, line, told>> /\ up
    BY <1>3 DEF OtherCommit, drv
  <2> QED BY <2>1, SamePlace DEF mcu, line, Waits, PlaceInv, DownInv, KeptInv,
             GivenInv, HeldInv, SentInv
<1>4. CASE RestoreRequest
  <2>1. /\ up /\ toDrv # <<>> /\ UNCHANGED <<up, pos, mcu>>
        /\ Transmit(Restore(pos), Tail(toDrv))
    BY <1>4 DEF RestoreRequest, drv
  <2>2. Restore(pos) \in Commands /\ IsRestore(Restore(pos)) /\ Restore(pos).pos = pos
    BY CommandTypes DEF TypeOK, IsRestore, Restore
  <2> QED BY <2>1, <2>2, SendPlaces DEF Transmit
<1>5. ASSUME NEW m \in Commands, ~IsRestore(m), Command(m)
      PROVE  PlaceInv'
  <2>1. up /\ UNCHANGED <<up, pos, mcu, connected>> /\ Transmit(m, toDrv)
    BY <1>5 DEF Command, drv
  <2> QED BY <1>5, <2>1, SendPlaces DEF Transmit
<1>6. CASE MoveMotor \/ Homing
  <2>1. PICK p \in Position : Command(Move(p))
    BY <1>6, PositionsOK DEF MoveMotor, Homing
  <2>2. Move(p) \in Commands /\ ~IsRestore(Move(p))
    BY CommandTypes, NotRestores
  <2> QED BY <1>5, <2>1, <2>2
<1>7. CASE RebootMcu
  <2>1. Reboot \in Commands /\ ~IsRestore(Reboot)
    BY CommandTypes, NotRestores
  <2> QED BY <1>5, <1>7, <2>1 DEF RebootMcu
<1> QED BY <1>1, <1>2, <1>3, <1>4, <1>6, <1>7

(* A report tells the place, or the driver knew it and either believes no  *)
(* other or has a RESTORE on its way.                                      *)
LEMMA ReportPlaces == ASSUME Inv, PlaceInv, StatusReport PROVE PlaceInv'
<1> DEFINE p == Head(toDrv).pos
           rest == Tail(toDrv)
<1> USE DEF Inv
<1>1. toMcu \in Seq(Commands) /\ toDrv \in Seq(Answers) /\ toDrv # <<>>
      /\ up /\ up' = up /\ connected' = TRUE
      /\ p \in Position \cup {NoPosition} /\ Head(toDrv).type = "STATUS_REPORT"
  BY StatusReportForms DEF TypeOK
<1>2. phys' = phys /\ eager' = eager /\ (Waits' <=> Waits) /\ (mcuUp' <=> mcuUp)
      /\ (restored' <=> restored)
  BY StatusReportForms DEF mcu, Waits
<1>3. \/ toMcu' = toMcu
      \/ mcuUp /\ toMcu' = Append(toMcu, Restore(pos))
  BY StatusReportForms DEF Sent, NotSent
<1>4. DownInv' /\ KeptInv'
  BY <1>1, <1>2, <1>3 DEF PlaceInv, DownInv, KeptInv
<1>5. SUFFICES ASSUME told' PROVE GivenInv' /\ HeldInv' /\ SentInv'
  BY <1>4 DEF PlaceInv
<1>6. PICK told0 : /\ HandlePosition(p, told0)
                   /\ \/ connected /\ toDrv' = rest /\ toMcu' = toMcu /\ told0 = told
                      \/ ~connected /\ Sent(Restore(pos), rest) /\ told0 = told
                      \/ ~connected /\ NotSent(rest) /\ told0 = ToldAfterLoss
  BY StatusReportForms
<1>7. toDrv' \in {rest, <<>>}
  BY <1>6 DEF Sent, NotSent
<1>8. (p = NoPosition /\ pos' = pos) \/ (p \in Position /\ pos' = p)
  BY <1>1, <1>6, PositionsOK DEF HandlePosition
<1>9. told0 \/ (Tells(p) /\ p \in Position)
  BY <1>5, <1>6, PositionsOK DEF HandlePosition
<1>10. CASE Tells(p) /\ p \in Position
  <2>1. pos' = phys /\ ~Waits /\ Agreed(toDrv')
    BY <1>8, <1>10, PositionsOK DEF Tells
  <2> QED BY <1>2, <2>1, SamePlace DEF GivenInv, HeldInv, SentInv
<1>11. CASE told0
  <2>1. told /\ GivenInv /\ HeldInv /\ SentInv
    BY <1>6, <1>11 DEF ToldAfterLoss, PlaceInv
  <2>2. eager /\ Waits => \/ connected /\ toDrv' = rest /\ toMcu' = toMcu
                          \/ ~connected /\ toDrv' = rest /\ toMcu' = Append(toMcu, Restore(pos))
    BY <1>6, <1>11 DEF ToldAfterLoss, Sent, Waits
  <2>3. Restore(pos) \in Commands /\ IsRestore(Restore(pos)) /\ Restore(pos).pos = pos
    BY CommandTypes DEF TypeOK, IsRestore, Restore
  <2>4. GivenInv'
    <3> SUFFICES ASSUME Waits PROVE Rightful(toMcu')
      BY <1>2, SamePlace DEF GivenInv
    <3>1. Rightful(toMcu)
      BY <2>1 DEF GivenInv
    <3>2. pos = phys \/ (eager /\ HasRestore(toMcu))
      BY <1>1, <2>1 DEF HeldInv, SentInv
    <3> QED BY <1>1, <1>3, <2>3, <3>1, <3>2, RightfulAppend
  <2>5. HeldInv'
    <3> SUFFICES ASSUME ~mcuUp \/ (Waits /\ ~eager) PROVE pos' = phys /\ Agreed(toDrv')
      BY <1>2, SamePlace DEF HeldInv
    <3>1. pos = phys /\ Agreed(toDrv)
      BY <1>1, <2>1 DEF HeldInv
    <3>2. Agreed(rest) /\ Harmless(Head(toDrv))
      BY <1>1, <3>1, AgreedTail
    <3> QED BY <1>1, <1>7, <1>8, <3>1, <3>2, Empty, PositionsOK DEF Harmless
  <2>6. SentInv'
    <3> SUFFICES ASSUME Waits, eager, ~HasRestore(toMcu')
                 PROVE  pos' = phys /\ Asked(toDrv')
      BY <1>2, SamePlace DEF SentInv
    <3>1. connected /\ toDrv' = rest /\ toMcu' = toMcu
      BY <1>1, <2>2, <2>3, HasRestoreAppend
    <3>2. pos = phys /\ Asked(toDrv)
      BY <1>1, <2>1, <3>1 DEF SentInv
    <3>3. Head(toDrv) # Request
      BY <1>1 DEF Request
    <3>4. Asked(rest) /\ Harmless(Head(toDrv))
      BY <1>1, <3>2, <3>3, AskedTail
    <3> QED BY <1>1, <1>8, <3>1, <3>2, <3>4, PositionsOK DEF Harmless
  <2> QED BY <2>4, <2>5, <2>6
<1> QED BY <1>9, <1>10, <1>11

(* The MCU takes what it is given for its place only once after a reset.   *)
LEMMA ResetPlaces == ASSUME Inv, PlaceInv, McuReset PROVE PlaceInv'
<1>1. /\ mcuUp' = FALSE /\ restored' = FALSE /\ toMcu' = <<>> /\ toDrv' = toDrv
      /\ told' = ToldAfterReset /\ UNCHANGED <<drv, store, eager, phys>>
  BY DEF McuReset, McuDown
<1>2. DownInv' /\ GivenInv' /\ SentInv'
  BY <1>1 DEF DownInv, GivenInv, SentInv, Waits
<1>3. told' => KeptInv' /\ HeldInv'
  BY <1>1, SamePlace DEF ToldAfterReset, PlaceInv, KeptInv, HeldInv, drv, store, Loaded
<1> QED BY <1>2, <1>3 DEF PlaceInv

LEMMA HandlePlaces == ASSUME Inv, PlaceInv, McuHandle PROVE PlaceInv'
<1> USE DEF Inv
<1>1. mcuUp /\ toMcu # <<>> /\ UNCHANGED <<drv, store>>
      /\ toMcu \in Seq(Commands) /\ toDrv \in Seq(Answers)
  BY DEF McuHandle, McuReport, McuMove, McuRestore, McuReset, TypeOK
<1>2. CASE McuReport /\ Head(toMcu).type = "GET_STATUS"
  <2> DEFINE m == Report(IF restored \/ eager THEN reg ELSE NoPosition)
  <2>1. toDrv' = Append(toDrv, m) /\ toMcu' = Tail(toMcu) /\ UNCHANGED <<mcu, told>>
    BY <1>2 DEF McuReport, Handled
  <2>2. m \in Answers
    BY CommandTypes DEF TypeOK
  <2>3. ~IsRestore(Head(toMcu))
    BY <1>2 DEF IsRestore
  <2>4. DownInv' /\ (told => KeptInv')
    BY <1>1, <2>1 DEF PlaceInv, DownInv, KeptInv, drv, store, mcu, Loaded
  <2>5. told => GivenInv'
    BY <1>1, <2>1, <2>3, RightfulTail, SamePlace DEF PlaceInv, GivenInv, Waits, mcu
  <2>6. told => HeldInv'
    <3> SUFFICES ASSUME told, up, Waits, ~eager PROVE pos = phys /\ Agreed(toDrv')
      BY <1>1, <2>1, SamePlace DEF HeldInv, drv, mcu, Waits
    <3>1. pos = phys /\ Agreed(toDrv)
      BY DEF PlaceInv, HeldInv
    <3>2. Harmless(m)
      BY DEF Harmless, Report, Waits
    <3> HIDE DEF m
    <3> QED BY <1>1, <2>1, <2>2, <3>1, <3>2, AgreedAppend
  <2>7. told => SentInv'
    <3> SUFFICES ASSUME told, up, Waits, eager
                 PROVE  HasRestore(toMcu') \/ (pos = phys /\ (~connected \/ Asked(toDrv')))
      BY <1>1, <2>1, SamePlace DEF SentInv, drv, mcu, Waits
    <3>1. HasRestore(toMcu) \/ (pos = phys /\ (~connected \/ Asked(toDrv)))
      BY DEF PlaceInv, SentInv
    <3> HIDE DEF m
    <3> QED BY <1>1, <2>1, <2>2, <2>3, <3>1, HasRestoreTail, AskedAppend
  <2> QED BY <2>1, <2>4, <2>5, <2>6, <2>7 DEF PlaceInv
<1>3. ASSUME NEW p \in Position, McuMove(p), Head(toMcu).type = "MOVE_MOTOR" PROVE PlaceInv'
  <2>1. toMcu' = Tail(toMcu) /\ UNCHANGED <<drv, store, toDrv, mcuUp, restored, eager>>
    BY <1>3 DEF McuMove, Handled
  <2>2. told' => told /\ phys' = phys
    BY <1>3 DEF McuMove
  <2>3. ~IsRestore(Head(toMcu))
    BY <1>3 DEF IsRestore
  <2>4. DownInv'
    BY <1>1, <2>1 DEF DownInv
  <2>5. told' => KeptInv' /\ HeldInv'
    BY <2>1, <2>2, SamePlace DEF PlaceInv, KeptInv, HeldInv, Waits, drv, store, Loaded
  <2>6. told' => GivenInv'
    BY <1>1, <2>1, <2>2, <2>3, RightfulTail, SamePlace DEF PlaceInv, GivenInv, Waits
  <2>7. told' => SentInv'
    BY <1>1, <2>1, <2>2, <2>3, HasRestoreTail, SamePlace DEF PlaceInv, SentInv, Waits, drv
  <2> QED BY <2>4, <2>5, <2>6, <2>7 DEF PlaceInv
<1>4. ASSUME NEW p, McuRestore(p) PROVE PlaceInv'
  <2>1. /\ restored' = TRUE /\ UNCHANGED <<drv, store, toDrv, mcuUp, eager, phys, told>>
    BY <1>4 DEF McuRestore
  <2> QED BY <1>1, <2>1 DEF PlaceInv, DownInv, KeptInv, GivenInv, HeldInv, SentInv, Waits,
             drv, store, Loaded
<1>5. CASE McuReset
  BY <1>5, ResetPlaces
<1> QED
  <2>1. Head(toMcu).type = "MOVE_MOTOR" => Head(toMcu).pos \in Position
    BY <1>1, HeadCommand
  <2> QED BY <1>2, <1>3, <1>4, <1>5, <2>1 DEF McuHandle

LEMMA BootPlaces == ASSUME Inv, PlaceInv, McuBoot PROVE PlaceInv'
<1> USE DEF Inv
<1>1. /\ ~mcuUp /\ mcuUp' = TRUE /\ toDrv' = Append(toDrv, Request)
      /\ UNCHANGED <<drv, store, reg, restored, eager, phys, toMcu, told>>
  BY DEF McuBoot
<1>2. toDrv \in Seq(Answers) /\ Request \in Answers /\ Harmless(Request)
  BY CommandTypes DEF TypeOK, Harmless, Request
<1>3. DownInv' /\ (told => KeptInv')
  BY <1>1 DEF PlaceInv, DownInv, KeptInv, drv, store, Loaded
<1>4. told => GivenInv'
  BY <1>1, SamePlace, Empty DEF PlaceInv, DownInv, GivenInv
<1>5. told => HeldInv' /\ SentInv'
  <2> SUFFICES ASSUME told, up
               PROVE  pos = phys /\ Agreed(toDrv') /\ Asked(toDrv')
    BY <1>1, SamePlace DEF HeldInv, SentInv, drv
  <2>1. pos = phys /\ Agreed(toDrv)
    BY <1>1 DEF PlaceInv, HeldInv
  <2> QED BY <1>1, <1>2, <2>1, AgreedAppend, AskedAppend
<1> QED BY <1>1, <1>3, <1>4, <1>5 DEF PlaceInv

LEMMA LossPlaces == ASSUME Inv, PlaceInv, LineLoses PROVE PlaceInv'
<1> USE DEF Inv
<1>1. /\ UNCHANGED <<drv, store, mcu>> /\ told' = ToldAfterLoss
      /\ \/ toMcu # <<>> /\ toMcu' = Tail(toMcu) /\ UNCHANGED toDrv
         \/ toDrv # <<>> /\ toDrv' = Tail(toDrv) /\ UNCHANGED toMcu
      /\ toMcu \in Seq(Commands) /\ toDrv \in Seq(Answers)
  BY DEF LineLoses, TypeOK
<1>2. DownInv' /\ (told => KeptInv')
  BY <1>1 DEF PlaceInv, DownInv, KeptInv, drv, store, mcu, Loaded
<1>3. SUFFICES ASSUME told' PROVE GivenInv' /\ HeldInv' /\ SentInv'
  BY <1>1, <1>2 DEF PlaceInv, ToldAfterLoss
<1>4. told /\ ~(eager /\ Waits)
  BY <1>1, <1>3 DEF ToldAfterLoss
<1>5. GivenInv'
  BY <1>1, <1>4, RightfulTail, SamePlace DEF PlaceInv, GivenInv, Waits, mcu
<1>6. HeldInv'
  BY <1>1, <1>4, AgreedTail, SamePlace DEF PlaceInv, HeldInv, Waits, drv, mcu
<1>7. SentInv'
  BY <1>1, <1>4 DEF SentInv, Waits, mcu
<1> QED BY <1>5, <1>6, <1>7

LEMMA PlaceInit == Init => PlaceInv
<1> SUFFICES ASSUME Init PROVE PlaceInv
  OBVIOUS
<1>1. toMcu = <<>> /\ Loaded(delta) = phys /\ ~up /\ mcuUp
  BY DEF Init, Loaded
<1> QED BY <1>1, Empty DEF PlaceInv, DownInv, KeptInv, GivenInv, HeldInv, SentInv

LEMMA PlaceStep == Inv /\ PlaceInv /\ [Next]_vars => PlaceInv'
<1> SUFFICES ASSUME Inv, PlaceInv, [Next]_vars PROVE PlaceInv'
  OBVIOUS
<1>1. CASE UNCHANGED vars
  BY <1>1, SamePlace DEF vars, drv, store, mcu, line, Waits, Loaded, PlaceInv, DownInv, KeptInv,
     GivenInv, HeldInv, SentInv
<1>2. CASE Next
  <2>1. CASE McuFails
    BY <2>1, ResetPlaces DEF McuFails
  <2> QED BY <1>2, <2>1, StartPlaces, StopPlaces, DriverPlaces, ReportPlaces, HandlePlaces,
             BootPlaces, LossPlaces DEF Next
<1> QED BY <1>1, <1>2

(* A reset MCU whose place the driver was told is given that place back,   *)
(* for all faults and both kinds of firmware.                              *)
THEOREM PlaceRestored == Spec => RestoresPlace
<1>1. Spec => []PlaceInv
  <2>1. Inv /\ PlaceInv /\ [Next]_vars => PlaceInv'
    BY PlaceStep
  <2> QED BY Invariant, PlaceInit, <2>1, PTL DEF Spec
<1>2. Inv /\ PlaceInv /\ [Next]_vars => [~restored /\ restored' /\ told => reg' = phys]_vars
  <2> SUFFICES ASSUME Inv, PlaceInv, Next, ~restored, restored', told PROVE reg' = phys
    BY DEF Inv
  <2>1. McuHandle
    BY DEF Next, KoruzaInit, Crash, PowerLoss, StatusTimer, WaitReplyTimer, StatusReport,
       RestoreRequest, MoveMotor, Homing, RebootMcu, Command, OtherCommit, McuFails, McuReset,
       McuDown, McuBoot, LineLoses, mcu
  <2>2. /\ Head(toMcu).type = "RESTORE_MOTOR" /\ McuRestore(Head(toMcu).pos) /\ toMcu # <<>>
        /\ mcuUp
    BY <2>1 DEF McuHandle, McuReport, McuMove, McuReset, McuDown, mcu
  <2>3. reg' = Head(toMcu).pos
    BY <2>2 DEF McuRestore
  <2>4. toMcu[1] = Head(toMcu) /\ 1 \in 1 .. Len(toMcu)
    BY <2>2 DEF Inv, TypeOK
  <2>5. Rightful(toMcu)
    BY <2>2 DEF PlaceInv, GivenInv, Waits
  <2>6. toMcu[1].pos = phys
    BY <2>2, <2>4, <2>5 DEF Rightful, IsRestore
  <2> QED BY <2>3, <2>4, <2>6
<1> QED BY Invariant, <1>1, <1>2, PTL DEF Spec, RestoresPlace
=============================================================================
