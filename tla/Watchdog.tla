------------------------------ MODULE Watchdog ------------------------------
(***************************************************************************)
(* The timing of the motors' watchdog (koruza.c): timer_wait_reply is      *)
(* armed when the status is asked for and cancelled by a status report.    *)
(* Between the two lies the event loop: uloop runs the timers that were    *)
(* due when it looked at the clock, then serves at most one descriptor,    *)
(* and koruza_update_sfp, called by two of the timers, blocks the loop for *)
(* as long as the SFP driver takes to answer three uBus calls.             *)
(*                                                                         *)
(* uloop and the MCU are external.  Time is counted in ticks; the survey   *)
(* timer and what is done with a report (module MotorLink) are left out.   *)
(***************************************************************************)
EXTENDS Integers, FiniteSets

CONSTANTS
  SfpInterval,     \* KORUZA_SFP_REFRESH_INTERVAL
  RefreshInterval, \* KORUZA_REFRESH_INTERVAL
  McuTimeout,      \* KORUZA_MCU_TIMEOUT
  ResetDelay,      \* KORUZA_MCU_RESET_DELAY
  Durations,       \* the times koruza_update_sfp may take: three uBus calls
                   \* with time-outs of a second each
  Block,           \* the longest of them
  Reply,           \* longest time a living MCU needs for its report
  OtherFds,        \* the other descriptors in the loop: uBus, accelerometer, ...
  Mortal,          \* the MCU may die
  Unwritable,      \* serial_send_message may fail
  QuietMax         \* bound of the history variable quiet; McuTimeout is that
                   \* of unread

ASSUME TimesOK ==
  /\ {SfpInterval, RefreshInterval, McuTimeout, Reply} \subseteq Nat \ {0}
  /\ {ResetDelay, Block, QuietMax} \subseteq Nat
  /\ Durations \subseteq 0 .. Block
ASSUME FlagsOK == {Mortal, Unwritable} \subseteq BOOLEAN

Timer == {"status", "sfp", "wait"}
Off   == -1    \* the timer is not pending

VARIABLES
  left,       \* time left for each timer, 0 when it is due
  phase,      \* what uloop_run is doing: "timers" or "events"
  due,        \* the timers still to run in this pass
  batch,      \* descriptors fetched from epoll and not served yet
  connected,  \* status.motors.connected
  alive,      \* the MCU answers
  coming,     \* time left until its next report arrives, or Off
  readable,   \* a report can be read from the serial device
  quiet,      \* history: time since the last report was read
  unread      \* history: time the report that can be read has been there

vars == <<left, phase, due, batch, connected, alive, coming, readable, quiet, unread>>

(* Faulty variant: a late timer has a negative time left. *)
LaterUnclamped(t, d) == IF t = Off THEN Off ELSE t - d

Later(t, d) == IF t = Off THEN Off ELSE IF t > d THEN t - d ELSE 0

(* What d ticks do to the timers, the report under way and the histories. *)
LeftAfter(d)     == [t \in Timer |-> Later(left[t], d)]
Arrives(d)       == coming # Off /\ coming <= d
ComingAfter(d)   == IF Arrives(d) THEN Off ELSE Later(coming, d)
ReadableAfter(d) == readable \/ Arrives(d)
QuietAfter(d)    == IF quiet + d > QuietMax THEN QuietMax ELSE quiet + d
UnreadAfter(d)   ==
  LET n == IF readable THEN unread + d ELSE IF Arrives(d) THEN d - coming ELSE 0
  IN  IF n > McuTimeout THEN McuTimeout ELSE n

DueIn(l) == {t \in Timer : l[t] = 0}

(* koruza_init arms the two periodic timers, resets the MCU and asks for   *)
(* the status, so that the loop starts late.                               *)
Init ==
  /\ \E d \in Durations :
       left = [status |-> Later(RefreshInterval, ResetDelay + d),
               sfp |-> Later(SfpInterval, ResetDelay + d), wait |-> Off]
  /\ phase = "timers" /\ due = DueIn(left) /\ batch = {}
  /\ connected = FALSE /\ alive = TRUE
  /\ coming \in 1 .. Reply /\ readable = FALSE /\ quiet = 0 /\ unread = 0

-----------------------------------------------------------------------------
(* Timer handlers: each removes its timer from the pass it belongs to.     *)

(* koruza_timer_sfp_status_handler *)
SfpTimer ==
  /\ phase = "timers" /\ "sfp" \in due
  /\ \E d \in Durations :
       /\ coming' = ComingAfter(d) /\ readable' = ReadableAfter(d)
       /\ quiet' = QuietAfter(d) /\ unread' = UnreadAfter(d)
       /\ left' = [LeftAfter(d) EXCEPT !["sfp"] = SfpInterval]
  /\ due' = due \ {"sfp"}
  /\ UNCHANGED <<phase, batch, connected, alive>>

(* Faulty variant: the watchdog is armed anew by every request. *)
StatusTimerRearms ==
  /\ phase = "timers" /\ "status" \in due
  /\ \E d \in Durations :
       /\ left' = [LeftAfter(d) EXCEPT !["status"] = RefreshInterval, !["wait"] = McuTimeout]
       /\ quiet' = QuietAfter(d) /\ unread' = UnreadAfter(d)
       /\ readable' = ReadableAfter(d)
       /\ coming' = ComingAfter(d)
  /\ due' = due \ {"status"}
  /\ UNCHANGED <<phase, batch, connected, alive>>

(* koruza_timer_status_handler: update_sfp blocks, then the request is     *)
(* sent, then the timers are armed; wait only if it is not pending.  A     *)
(* pending timer that is due stays so until its turn in a pass.  When the  *)
(* request cannot be written the device is reopened and its input lost.    *)
StatusTimer ==
  /\ phase = "timers" /\ "status" \in due
  /\ \E d \in Durations :
       /\ left' = [LeftAfter(d) EXCEPT
                     !["status"] = RefreshInterval,
                     !["wait"] = IF left["wait"] = Off THEN McuTimeout ELSE @]
       /\ quiet' = QuietAfter(d)
       /\ \/ /\ readable' = ReadableAfter(d) /\ unread' = UnreadAfter(d)
             /\ IF alive /\ ComingAfter(d) = Off THEN coming' \in 1 .. Reply
                                                 ELSE coming' = ComingAfter(d)
             /\ UNCHANGED connected
          \/ /\ Unwritable
             /\ connected' = FALSE
             /\ readable' = FALSE /\ unread' = 0 /\ coming' = ComingAfter(d)
  /\ due' = due \ {"status"}
  /\ UNCHANGED <<phase, batch, alive>>

(* koruza_timer_wait_reply_handler *)
WaitReplyTimer ==
  /\ phase = "timers" /\ "wait" \in due
  /\ left' = [left EXCEPT !["wait"] = Off]
  /\ connected' = FALSE
  /\ due' = due \ {"wait"}
  /\ UNCHANGED <<phase, batch, alive, coming, readable, quiet, unread>>

-----------------------------------------------------------------------------
(* uloop_run *)
EndPass ==
  /\ phase = "timers" /\ due = {}
  /\ phase' = "events"
  /\ UNCHANGED <<left, due, batch, connected, alive, coming, readable, quiet, unread>>

NextPass == phase' = "timers" /\ due' = DueIn(left')

(* What epoll may return; another descriptor may be readable at any time.  *)
(* The descriptors of one epoll call are served one per loop iteration     *)
(* before epoll is called again.                                           *)
Fetched ==
  IF batch # {} THEN {batch}
  ELSE {f \cup IF readable THEN {"serial"} ELSE {} : f \in SUBSET OtherFds}

(* Faulty variant: a report does not cancel the watchdog. *)
ServeSerialNoCancel ==
  /\ phase = "events"
  /\ \E b \in Fetched : "serial" \in b /\ batch' = b \ {"serial"}
  /\ readable' = FALSE /\ unread' = 0
  /\ IF readable THEN connected' = TRUE /\ quiet' = 0 ELSE UNCHANGED <<connected, quiet>>
  /\ UNCHANGED left /\ NextPass
  /\ UNCHANGED <<alive, coming>>

(* serial_fd_handler, frame_parser_push_buffer and the report's handler.   *)
ServeSerial ==
  /\ phase = "events"
  /\ \E b \in Fetched : "serial" \in b /\ batch' = b \ {"serial"}
  /\ readable' = FALSE /\ unread' = 0
  /\ IF readable THEN connected' = TRUE /\ quiet' = 0 /\ left' = [left EXCEPT !["wait"] = Off]
                 ELSE UNCHANGED <<connected, quiet, left>>
  /\ NextPass
  /\ UNCHANGED <<alive, coming>>

ServeOther ==
  /\ phase = "events"
  /\ \E b \in Fetched : \E f \in b \ {"serial"} : batch' = b \ {f}
  /\ UNCHANGED left /\ NextPass
  /\ UNCHANGED <<connected, alive, coming, readable, quiet, unread>>

(* epoll_wait returns because a timer is due. *)
Wake ==
  /\ phase = "events" /\ batch = {} /\ ~readable
  /\ DueIn(left) # {}
  /\ UNCHANGED left /\ NextPass
  /\ UNCHANGED <<batch, connected, alive, coming, readable, quiet, unread>>

Sleep ==
  /\ phase = "events" /\ batch = {} /\ ~readable
  /\ DueIn(left) = {}
  /\ left' = LeftAfter(1) /\ quiet' = QuietAfter(1) /\ unread' = UnreadAfter(1)
  /\ coming' = ComingAfter(1) /\ readable' = ReadableAfter(1)
  /\ UNCHANGED <<phase, due, batch, connected, alive>>

McuDies ==
  /\ Mortal /\ alive
  /\ alive' = FALSE /\ coming' = Off
  /\ UNCHANGED <<left, phase, due, batch, connected, readable, quiet, unread>>

Next ==
  \/ SfpTimer \/ StatusTimer \/ WaitReplyTimer \/ EndPass
  \/ ServeSerial \/ ServeOther \/ Wake \/ Sleep \/ McuDies

Spec == Init /\ [][Next]_vars

-----------------------------------------------------------------------------
TypeOK ==
  /\ left \in [Timer -> Nat \cup {Off}]
  /\ phase \in {"timers", "events"}
  /\ due \subseteq Timer
  /\ batch \subseteq {"serial"} \cup OtherFds
  /\ connected \in BOOLEAN /\ alive \in BOOLEAN
  /\ coming \in Nat \cup {Off} /\ readable \in BOOLEAN
  /\ quiet \in 0 .. QuietMax /\ unread \in 0 .. McuTimeout

(* "Timer for detection when MCU disconnects": the watchdog takes an MCU   *)
(* that is there and answers in time for disconnected only when the loop   *)
(* has left a report of its unread for the whole time-out, but for the     *)
(* time the MCU may take.                                                  *)
AlarmsOnlyUnread ==
  [][WaitReplyTimer /\ connected /\ alive => unread >= McuTimeout - Reply]_vars

(* koruza.c:793 "KORUZA motor driver has been disconnected": the watchdog  *)
(* says so only of an MCU that does not answer.                            *)
NoFalseAlarm == [][WaitReplyTimer /\ connected => ~alive]_vars

(* An MCU that falls silent is detected: it is taken for connected only    *)
(* while its last report is recent.  Up to five calls of update_sfp delay  *)
(* this: one before the request, one with it, two in the pass that just    *)
(* misses the due watchdog and one before it in the next.                  *)
DetectsSilence == connected => quiet <= RefreshInterval + McuTimeout + 5 * Block
=============================================================================
