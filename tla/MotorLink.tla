----------------------------- MODULE MotorLink -----------------------------
(***************************************************************************)
(* The driver's conversation with the motors MCU (koruza.c): polling it,   *)
(* deciding whether it is connected, saving the position it reports in the *)
(* UCI configuration and giving that position back to it after a reset.    *)
(*                                                                         *)
(* x and y always travel together and are one position here; z, encoder    *)
(* values and error codes are left out.  The serial line is a FIFO of      *)
(* whole messages in each direction (module FrameLink shows why).  The MCU *)
(* is not part of the repository: it is modelled as the driver's messages  *)
(* take it to be.                                                          *)
(***************************************************************************)
EXTENDS Naturals, Sequences

CONSTANTS
  Position,      \* pairs <x, y>
  InRange,       \* those within range_x and range_y
  Home,          \* <0, 0>: the default, and the MCU's register after a reset
  NoPosition,    \* a status report without a motor position TLV
  Faults,        \* what may go wrong
  MaxOnLine      \* bound: nobody starts an exchange with this many messages
                 \* on the line (answers are always sent)

ASSUME PositionsOK ==
  InRange \subseteq Position /\ Home \in InRange /\ NoPosition \notin Position
ASSUME FaultsOK ==
  Faults \subseteq {"mcu", "driver", "power", "set", "commit", "gpio", "write", "loss", "spurious"}
ASSUME LineOK == MaxOnLine \in Nat \ {0}

VARIABLES
  up,         \* the driver runs
  connected,  \* status.motors.connected
  waiting,    \* timer_wait_reply.pending
  pos,        \* status.motors.x, y
  conf,       \* koruza.@motors[0].last_x, last_y in the UCI context,
  disk,       \* ... in the file,
  delta,      \* ... and in the file with the changes uci has noted beside it in RAM
  toMcu, toDrv,            \* the serial line
  mcuUp, reg, restored,    \* the MCU: running, its register, whether RESTOREd
  eager,      \* its firmware: it reports the zeroed register before a RESTORE
  phys,       \* where the motors really stand
  failed,     \* history: what of the last save did not work, "set" or "commit"
  told        \* history: the driver has had a report of the motors' place

drv   == <<up, connected, waiting, pos>>
store == <<conf, disk, delta, failed>>
mcu   == <<mcuUp, reg, restored, eager, phys>>
line  == <<toMcu, toDrv>>
vars  == <<drv, store, mcu, line, told>>

Get        == [type |-> "GET_STATUS"]
Move(p)    == [type |-> "MOVE_MOTOR", pos |-> p]
Restore(p) == [type |-> "RESTORE_MOTOR", pos |-> p]
Reboot     == [type |-> "REBOOT"]          \* also FIRMWARE_UPGRADE
Report(p)  == [type |-> "STATUS_REPORT", pos |-> p]
Request    == [type |-> "RESTORE_REQUEST"] \* COMMAND_RESTORE_MOTOR from the MCU

Commands == {Get, Reboot} \cup {Move(p) : p \in Position} \cup {Restore(p) : p \in Position}
Answers  == {Request} \cup {Report(p) : p \in Position \cup {NoPosition}}

(* The position koruza_init takes from the configuration. *)
Loaded(d) == IF d \in InRange THEN d ELSE Home

Init ==
  /\ up = FALSE /\ connected = FALSE /\ waiting = FALSE /\ pos = Home
  /\ disk \in Position /\ conf = disk /\ delta = disk /\ failed = {}
  /\ toMcu = <<>> /\ toDrv = <<>>
  /\ mcuUp = TRUE /\ reg = Home /\ restored = FALSE /\ eager \in BOOLEAN
  /\ phys = Loaded(disk) /\ told = TRUE

-----------------------------------------------------------------------------
(* The history told.  It becomes true with a report of the place the motors *)
(* stand at, false when they move away from it, and false when something   *)
(* fails while the place is in one spot only: a crash before the place is  *)
(* saved, a reset of the MCU while the driver has taken over, or is going  *)
(* to, what a zeroed register said, a message lost while an eager MCU      *)
(* waits for its RESTORE.                                                  *)
Waits == mcuUp /\ ~restored

(* None of these says that the motors stand elsewhere. *)
Agreed(msgs) ==
  \A i \in 1 .. Len(msgs) :
    msgs[i].type = "STATUS_REPORT" => msgs[i].pos \in {phys, NoPosition}

ToldAfterReset == told /\ (up => pos = phys /\ Agreed(toDrv))
ToldAfterLoss  == told /\ ~(eager /\ Waits)
ToldAfter(file) == told /\ Loaded(file) = phys

-----------------------------------------------------------------------------
LineFree == Len(toMcu) + Len(toDrv) < MaxOnLine

(* serial_send_message, seen from its caller; rest is what the driver has  *)
(* not read yet.  Nobody listens while the MCU is down.  A write that      *)
(* fails reopens the device, and tcsetattr(TCSAFLUSH) then drops the       *)
(* unread input.                                                           *)
Sent(m, rest) ==
  /\ toMcu' = IF mcuUp THEN Append(toMcu, m) ELSE toMcu
  /\ toDrv' = rest

NotSent(rest) ==
  /\ "write" \in Faults
  /\ toMcu' = toMcu
  /\ toDrv' \in {rest, <<>>}

Transmit(m, rest) ==
  \/ Sent(m, rest) /\ told' = told
  \/ NotSent(rest) /\ told' = ToldAfterLoss

(* The MCU stops: the register and what it had received are gone. *)
McuDown ==
  /\ mcuUp' = FALSE /\ restored' = FALSE /\ reg' = Home
  /\ UNCHANGED <<eager, phys>>

(* koruza_init: load the configuration, reset the MCU over GPIO and ask    *)
(* for its status.  The package is committed when an old calibration in it *)
(* was converted.  The wait_reply timer is not armed.                      *)
KoruzaInit ==
  /\ ~up
  /\ up' = TRUE /\ connected' = FALSE /\ waiting' = FALSE
  /\ pos' = Loaded(delta) /\ conf' = delta
  /\ disk' \in {disk, delta} /\ failed' = IF disk' = delta THEN {} ELSE {"commit"}
  /\ \/ McuDown /\ toMcu' = <<>> /\ toDrv' = <<>>
     \/ /\ "gpio" \in Faults
        /\ LineFree
        /\ Sent(Get, <<>>) \/ NotSent(<<>>)
        /\ UNCHANGED mcu
  /\ UNCHANGED <<delta, told>>

Crash ==
  /\ "driver" \in Faults
  /\ up
  /\ up' = FALSE /\ connected' = FALSE /\ waiting' = FALSE
  /\ told' = ToldAfter(delta)
  /\ UNCHANGED <<pos, store, mcu, line>>

(* The whole unit loses power, and with it the changes noted in RAM. *)
PowerLoss ==
  /\ "power" \in Faults
  /\ up' = FALSE /\ connected' = FALSE /\ waiting' = FALSE
  /\ McuDown /\ toMcu' = <<>> /\ toDrv' = <<>>
  /\ delta' = disk
  /\ told' = ToldAfter(disk)
  /\ UNCHANGED <<pos, conf, disk, failed>>

(* Faulty variant: nobody arms timer_wait_reply. *)
StatusTimerUnarmed ==
  /\ up /\ LineFree
  /\ \/ Sent(Get, toDrv) /\ UNCHANGED <<connected, told>>
     \/ NotSent(toDrv) /\ connected' = FALSE /\ told' = ToldAfterLoss
  /\ UNCHANGED <<up, waiting, pos, store, mcu>>

(* koruza_timer_status_handler *)
StatusTimer ==
  /\ up /\ LineFree
  /\ \/ Sent(Get, toDrv) /\ UNCHANGED <<connected, told>>
     \/ NotSent(toDrv) /\ connected' = FALSE /\ told' = ToldAfterLoss
  /\ waiting' = TRUE
  /\ UNCHANGED <<up, pos, store, mcu>>

(* koruza_timer_wait_reply_handler.  Unless "spurious" is among the faults *)
(* it fires only when the MCU is silent: module Watchdog has the timing.   *)
WaitReplyTimer ==
  /\ up /\ waiting
  /\ "spurious" \in Faults \/ (~mcuUp /\ toDrv = <<>>)
  /\ waiting' = FALSE
  /\ connected' = FALSE
  /\ UNCHANGED <<up, pos, store, mcu, line, told>>

-----------------------------------------------------------------------------
(* koruza_uci_commit, whose result everybody ignores: what was noted       *)
(* beside the file may be left there when it fails.                        *)
Commit(position, unset) ==
  \/ disk' = position /\ delta' = position /\ failed' = unset
  \/ /\ "commit" \in Faults
     /\ disk' = disk /\ delta' \in {delta, position}
     /\ failed' = unset \cup {"commit"}

(* Faulty variant: the coordinates are set and never committed. *)
SaveUncommitted(p) ==
  /\ conf' = p
  /\ failed' = {}
  /\ UNCHANGED <<disk, delta>>

(* uci_set_int of both coordinates and the commit.  uci_set_string returns *)
(* silently when the lookup fails (as it always does when the package has  *)
(* no motors section) and ignores the result of uci_set; here both         *)
(* coordinates are stored or none.                                         *)
Save(p) ==
  /\ conf' = p \/ ("set" \in Faults /\ conf' = conf)
  /\ Commit(conf', IF conf' = p THEN {} ELSE {"set"})

(* set_webcam_calibration, set_distance and set_leds commit the package    *)
(* the position is in.                                                     *)
OtherCommit ==
  /\ up
  /\ Commit(conf, failed \cap {"set"})
  /\ UNCHANGED <<drv, conf, mcu, line, told>>

-----------------------------------------------------------------------------
(* koruza_serial_motors_message_handler *)

(* The report at hand says where the motors stand, no other one on the     *)
(* line says something else, and no zeroed register is to be expected.     *)
Tells(p) == p = phys /\ ~Waits /\ Agreed(toDrv')

(* Faulty variants: the position is used without asking whether the        *)
(* message had one; it is saved without a check of its range.              *)
HandlePositionAlways(p, told0) == pos' = p /\ told' = told0 /\ UNCHANGED store

HandlePositionUnchecked(p, told0) ==
  \/ p = NoPosition /\ told' = told0 /\ UNCHANGED <<pos, store>>
  \/ p \in Position /\ pos' = p /\ Save(p) /\ told' = (told0 \/ Tells(p))

(* told0 is what told would be without the position. *)
HandlePosition(p, told0) ==
  \/ p = NoPosition /\ told' = told0 /\ UNCHANGED <<pos, store>>
  \/ p \in InRange /\ pos' = p /\ Save(p) /\ told' = (told0 \/ Tells(p))
  \/ p \in Position \ InRange /\ pos' = p /\ told' = (told0 \/ Tells(p)) /\ UNCHANGED store

(* Faulty variant: the position is taken over before the old one is sent. *)
StatusReportLate ==
  /\ up /\ toDrv # <<>> /\ Head(toDrv).type = "STATUS_REPORT"
  /\ waiting' = FALSE /\ connected' = TRUE
  /\ IF connected THEN toDrv' = Tail(toDrv) /\ UNCHANGED toMcu
     ELSE LET p == Head(toDrv).pos
          IN  Sent(Restore(IF p = NoPosition THEN pos ELSE p), Tail(toDrv))
  /\ HandlePosition(Head(toDrv).pos, told)
  /\ UNCHANGED <<up, mcu>>

(* The restore on reconnection still sends the old position. *)
StatusReport ==
  /\ up /\ toDrv # <<>> /\ Head(toDrv).type = "STATUS_REPORT"
  /\ waiting' = FALSE /\ connected' = TRUE
  /\ LET p == Head(toDrv).pos
         rest == Tail(toDrv)
     IN  \/ connected /\ toDrv' = rest /\ UNCHANGED toMcu /\ HandlePosition(p, told)
         \/ ~connected /\ Sent(Restore(pos), rest) /\ HandlePosition(p, told)
         \/ ~connected /\ NotSent(rest) /\ HandlePosition(p, ToldAfterLoss)
  /\ UNCHANGED <<up, mcu>>

(* Faulty variant: the request is not answered. *)
RestoreRequestIgnored ==
  /\ up /\ toDrv # <<>> /\ Head(toDrv) = Request
  /\ toDrv' = Tail(toDrv)
  /\ UNCHANGED <<toMcu, drv, store, mcu, told>>

RestoreRequest ==
  /\ up /\ toDrv # <<>> /\ Head(toDrv) = Request
  /\ Transmit(Restore(pos), Tail(toDrv))
  /\ UNCHANGED <<drv, store, mcu>>

-----------------------------------------------------------------------------
(* uBus: move_motor and homing need a connected MCU, reboot and            *)
(* firmware_upgrade do not.  None looks at the result of the send.         *)
Command(m) ==
  /\ up /\ LineFree
  /\ Transmit(m, toDrv)
  /\ UNCHANGED <<drv, store, mcu>>

MoveMotor == connected /\ \E p \in Position : Command(Move(p))
Homing    == connected /\ Command(Move(Home))
RebootMcu == Command(Reboot)

-----------------------------------------------------------------------------
(* The MCU (external) *)
Handled == toMcu' = Tail(toMcu)

McuReport ==
  /\ toDrv' = Append(toDrv, Report(IF restored \/ eager THEN reg ELSE NoPosition))
  /\ Handled
  /\ UNCHANGED <<drv, store, mcu, told>>

(* Motors whose register is wrong end up anywhere. *)
McuMove(p) ==
  /\ IF restored THEN /\ reg' = p
                      /\ IF reg = phys THEN phys' = p ELSE phys' \in Position
                      /\ told' = (told /\ phys' = phys)
                 ELSE UNCHANGED <<reg, phys, told>>
  /\ Handled
  /\ UNCHANGED <<drv, store, toDrv, mcuUp, restored, eager>>

(* A RESTORE only counts after a reset. *)
McuRestore(p) ==
  /\ reg' = IF restored THEN reg ELSE p
  /\ restored' = TRUE
  /\ Handled
  /\ UNCHANGED <<drv, store, toDrv, mcuUp, eager, phys, told>>

McuReset ==
  /\ McuDown /\ toMcu' = <<>>
  /\ told' = ToldAfterReset
  /\ UNCHANGED <<drv, store, toDrv>>

McuHandle ==
  /\ mcuUp /\ toMcu # <<>>
  /\ LET m == Head(toMcu) IN
       \/ m.type = "GET_STATUS" /\ McuReport
       \/ m.type = "MOVE_MOTOR" /\ McuMove(m.pos)
       \/ m.type = "RESTORE_MOTOR" /\ McuRestore(m.pos)
       \/ m.type = "REBOOT" /\ McuReset

McuFails == "mcu" \in Faults /\ mcuUp /\ McuReset

McuBoot ==
  /\ ~mcuUp /\ LineFree
  /\ mcuUp' = TRUE
  /\ toDrv' = Append(toDrv, Request)
  /\ UNCHANGED <<drv, store, reg, restored, eager, phys, toMcu, told>>

LineLoses ==
  /\ "loss" \in Faults
  /\ \/ toMcu # <<>> /\ toMcu' = Tail(toMcu) /\ UNCHANGED toDrv
     \/ toDrv # <<>> /\ toDrv' = Tail(toDrv) /\ UNCHANGED toMcu
  /\ told' = ToldAfterLoss
  /\ UNCHANGED <<drv, store, mcu>>

Next ==
  \/ KoruzaInit \/ Crash \/ PowerLoss \/ StatusTimer \/ WaitReplyTimer
  \/ StatusReport \/ RestoreRequest
  \/ MoveMotor \/ Homing \/ RebootMcu \/ OtherCommit
  \/ McuHandle \/ McuFails \/ McuBoot \/ LineLoses

Spec == Init /\ [][Next]_vars

(* uloop runs a due timer and serves a readable descriptor sooner or       *)
(* later; a running MCU answers.  Nothing obliges anybody to crash, to     *)
(* boot or to send a command.                                              *)
FairSpec ==
  /\ Spec
  /\ WF_vars(StatusTimer) /\ WF_vars(WaitReplyTimer)
  /\ WF_vars(StatusReport) /\ WF_vars(RestoreRequest)
  /\ WF_vars(McuHandle)

-----------------------------------------------------------------------------
TypeOK ==
  /\ up \in BOOLEAN /\ connected \in BOOLEAN /\ waiting \in BOOLEAN
  /\ pos \in Position /\ conf \in Position /\ disk \in Position /\ delta \in Position
  /\ toMcu \in Seq(Commands) /\ toDrv \in Seq(Answers)
  /\ mcuUp \in BOOLEAN /\ reg \in Position /\ restored \in BOOLEAN /\ eager \in BOOLEAN
  /\ phys \in Position /\ failed \in SUBSET {"set", "commit"} /\ told \in BOOLEAN

(* A crash forgets nothing, nor does a power loss: while the last save     *)
(* worked, whatever commands committed the package since, a driver         *)
(* started now would work with the in-range position this one works with.  *)
CrashKeepsPosition ==
  up /\ failed = {} /\ pos \in InRange => Loaded(delta) = pos /\ Loaded(disk) = pos

(* Only in-range positions are ever written to the configuration, by       *)
(* whichever command commits it.                                           *)
SavesInRange == [][disk' # disk => disk' \in InRange]_vars

(* A reset MCU is given back the place its motors stand at, if the driver  *)
(* has had a report of that place since they last moved, across resets     *)
(* that work or fail, crashes of both sides, lost and late messages, and   *)
(* whatever the firmware reports of its zeroed register.                   *)
RestoresPlace == [][~restored /\ restored' /\ told => reg' = phys]_vars

(* "Detection when MCU disconnects": an MCU that stays silent is           *)
(* eventually taken for disconnected for good.                             *)
DeathNoticed == <>[]~mcuUp => <>[]~connected

(* A serial_send_message to a listening MCU that fails. *)
WriteFailed ==
  /\ mcuUp /\ toMcu' = toMcu
  /\ StatusTimer \/ (StatusReport /\ ~connected) \/ RestoreRequest

(* koruza.c:259 "Restore motor position": when both sides stay up and only *)
(* finitely many writes fail, the MCU is eventually given its position.    *)
MotorsRestored ==
  <>[](up /\ mcuUp) /\ <>[][~WriteFailed]_vars => <>[]restored
=============================================================================
