----------------------------- MODULE SerialPort -----------------------------
(***************************************************************************)
(* serial.c: how the two serial devices get and lose their file            *)
(* descriptors.  A descriptor is a small number the kernel hands out again *)
(* as soon as it is closed, and the driver's other parts (uBus, the        *)
(* network socket, GPIO, I2C, child processes) take numbers from the same  *)
(* table.  The bytes read and written are the subject of FrameParser and   *)
(* FrameLink.                                                              *)
(***************************************************************************)
EXTENDS Integers

CONSTANTS
  Fd,           \* the descriptor numbers left for these users
  Motors, Accel,
  Free, Other,  \* what else a descriptor may be: closed, or not a serial port
  AttrFails     \* the devices whose tcgetattr or tcsetattr may fail

Device == {Motors, Accel}

ASSUME FdsAreNumbers == Fd \subseteq Nat
ASSUME OwnersDistinct ==
  Motors # Accel /\ Free # Other /\ {Free, Other} \cap Device = {}
ASSUME AttrFailsOK == AttrFails \subseteq Device

VARIABLES
  stage,    \* "boot", "half" (motors started), "run", "exit"
  ready,    \* cfg->ready
  num,      \* cfg->ufd.fd
  reg,      \* cfg->ufd.registered: uloop watches the descriptor
  table,    \* the kernel's descriptor table
  plugged,  \* the devices that can be opened now
  hung,     \* the devices that went away since their descriptor was opened
  sound     \* history: a device that opened could always be configured

portVars == <<stage, ready, num, reg, table, plugged, hung, sound>>

NoFd == -1

PortInit ==
  /\ stage = "boot"
  /\ ready = [d \in Device |-> FALSE]
  /\ num = [d \in Device |-> 0]       \* static storage
  /\ reg = [d \in Device |-> FALSE]
  /\ table = [f \in Fd |-> Free]
  /\ plugged \in SUBSET Device
  /\ hung = {}
  /\ sound = TRUE

-----------------------------------------------------------------------------
Unused(t) == {f \in DOMAIN t : t[f] = Free}
Lowest(f, t) == f \in Unused(t) /\ \A g \in Unused(t) : f <= g
Close(n, t) == [f \in DOMAIN t |-> IF f = n THEN Free ELSE t[f]]

(* Faulty variants: an error code, or the number of the descriptor closed  *)
(* before, stays in ufd.fd when the device cannot be opened.               *)
OpenFailsErrno(d, t) ==
  /\ d \notin plugged \/ Unused(t) = {}
  /\ num' = [num EXCEPT ![d] = NoFd - 1]
  /\ table' = t
  /\ ready' = [ready EXCEPT ![d] = FALSE]
  /\ reg' = [reg EXCEPT ![d] = FALSE]
  /\ sound' = sound

OpenFailsStale(d, t) ==
  /\ d \notin plugged \/ Unused(t) = {}
  /\ num' = num
  /\ table' = t
  /\ ready' = [ready EXCEPT ![d] = FALSE]
  /\ reg' = [reg EXCEPT ![d] = FALSE]
  /\ sound' = sound

(* serial_init_device of a device that is not ready, with descriptor table *)
(* t.  A device that cannot be configured is closed again, but its number  *)
(* stays in ufd.fd.                                                        *)
OpenFails(d, t) ==
  /\ d \notin plugged \/ Unused(t) = {}
  /\ num' = [num EXCEPT ![d] = NoFd]
  /\ table' = t
  /\ ready' = [ready EXCEPT ![d] = FALSE]
  /\ reg' = [reg EXCEPT ![d] = FALSE]
  /\ sound' = sound

SetupFails(d, t) ==
  /\ d \in plugged \cap AttrFails
  /\ \E f \in Fd : Lowest(f, t) /\ num' = [num EXCEPT ![d] = f]
  /\ table' = t
  /\ ready' = [ready EXCEPT ![d] = FALSE]
  /\ reg' = [reg EXCEPT ![d] = FALSE]
  /\ sound' = FALSE

Opens(d, t) ==
  /\ d \in plugged
  /\ \E f \in Fd : /\ Lowest(f, t)
                   /\ num' = [num EXCEPT ![d] = f]
                   /\ table' = [t EXCEPT ![f] = d]
  /\ ready' = [ready EXCEPT ![d] = TRUE]
  /\ reg' = [reg EXCEPT ![d] = TRUE]
  /\ sound' = sound

InitDevice(d, t) ==
  /\ OpenFails(d, t) \/ SetupFails(d, t) \/ Opens(d, t)
  /\ hung' = hung \ {d}

(* Faulty variant: the old descriptor is not closed. *)
ReinitNoClose(d) == InitDevice(d, table)

(* serial_reinit_device: whatever has the number now is closed. *)
Reinit(d) == InitDevice(d, Close(num[d], table))

(* serial_init.  Only the motors' port is needed to go on. *)
StartMotors ==
  /\ stage = "boot"
  /\ InitDevice(Motors, table)
  /\ stage' = IF ready'[Motors] THEN "half" ELSE "exit"
  /\ UNCHANGED plugged

StartAccelerometer ==
  /\ stage = "half"
  /\ InitDevice(Accel, table)
  /\ stage' = "run"
  /\ UNCHANGED plugged

-----------------------------------------------------------------------------
(* serial_get_device_fd *)
DeviceOf(n) == IF n = num[Motors] THEN Motors ELSE Accel

(* The write of serial_send_message can only succeed on an open descriptor *)
(* that was not hung up.                                                   *)
Usable(d) == num[d] \in Fd /\ table[num[d]] \notin hung \cup {Free}

(* Faulty variant: a failing write does not reopen the device. *)
SendReopensUnready(d) ==
  /\ stage = "run"
  /\ ~ready[d]
  /\ Reinit(d)
  /\ UNCHANGED <<stage, plugged>>

(* serial_send_message: reopen a device that is not ready or whose write   *)
(* must fail.  koruza_timer_status_handler calls it again and again.       *)
SendReopens(d) ==
  /\ stage = "run"
  /\ ~ready[d] \/ ~Usable(d)
  /\ Reinit(d)
  /\ UNCHANGED <<stage, plugged>>

(* The same when the write fails for another reason, such as EAGAIN on the *)
(* descriptor uloop_fd_add has made non-blocking.                          *)
SendFails(d) ==
  /\ stage = "run"
  /\ ready[d] /\ Usable(d)
  /\ Reinit(d)
  /\ UNCHANGED <<stage, plugged>>

(* serial_fd_handler called for ufd of d.  uloop stops watching a          *)
(* descriptor that was hung up before it calls the handler, and the read   *)
(* then fails or returns nothing.                                          *)
Watched(d) == stage = "run" /\ reg[d] /\ num[d] \in Fd /\ table[num[d]] = d

ReadFails(d) ==
  /\ Watched(d)
  /\ ready[DeviceOf(num[d])]
  /\ Reinit(DeviceOf(num[d]))
  /\ UNCHANGED <<stage, plugged>>

ReadNothing(d) ==
  /\ Watched(d) /\ d \in hung
  /\ reg' = [reg EXCEPT ![d] = FALSE]
  /\ UNCHANGED <<stage, ready, num, table, plugged, hung, sound>>

-----------------------------------------------------------------------------
(* The world around the module (external) *)
Unplug(d) ==
  /\ d \in plugged
  /\ plugged' = plugged \ {d}
  /\ hung' = IF ready[d] THEN hung \cup {d} ELSE hung
  /\ UNCHANGED <<stage, ready, num, reg, table, sound>>

Plug(d) ==
  /\ d \notin plugged
  /\ plugged' = plugged \cup {d}
  /\ UNCHANGED <<stage, ready, num, reg, table, hung, sound>>

OtherOpens ==
  /\ stage = "run"
  /\ \E f \in Fd : Lowest(f, table) /\ table' = [table EXCEPT ![f] = Other]
  /\ UNCHANGED <<stage, ready, num, reg, plugged, hung, sound>>

OtherCloses ==
  /\ \E f \in Fd : table[f] = Other /\ table' = Close(f, table)
  /\ UNCHANGED <<stage, ready, num, reg, plugged, hung, sound>>

Step(d) == SendReopens(d) \/ SendFails(d) \/ ReadFails(d) \/ ReadNothing(d)

PortNext ==
  \/ StartMotors \/ StartAccelerometer
  \/ \E d \in Device : Step(d) \/ Unplug(d) \/ Plug(d)
  \/ OtherOpens \/ OtherCloses

PortSpec == PortInit /\ [][PortNext]_portVars

(* The status timer polls both devices for ever. *)
PortFairSpec == PortSpec /\ \A d \in Device : WF_portVars(SendReopens(d))

-----------------------------------------------------------------------------
PortTypeOK ==
  /\ stage \in {"boot", "half", "run", "exit"}
  /\ ready \in [Device -> BOOLEAN] /\ reg \in [Device -> BOOLEAN]
  /\ num \in [Device -> Fd \cup {NoFd, 0}]
  /\ table \in [Fd -> Device \cup {Free, Other}]
  /\ plugged \in SUBSET Device /\ hung \in SUBSET Device /\ sound \in BOOLEAN

(* However often a device is reopened (twice a second while it is absent), *)
(* no descriptor of it is left behind: the one it holds is the one it      *)
(* knows.                                                                  *)
NoLeak == \A d \in Device, f \in Fd : table[f] = d => num[d] = f

(* A ready device holds its descriptor, and events on it reach the handler *)
(* as events of that device, as long as set-up has not failed.             *)
ReadyOwns ==
  sound => \A d \in Device : ready[d] =>
    num[d] \in Fd /\ table[num[d]] = d /\ DeviceOf(num[d]) = d

(* A descriptor that is closed or changes hands is the reopened device's   *)
(* own, or one that its own part of the driver closes.                     *)
OnlyOwn ==
  \A f \in Fd : table[f] # Free /\ table'[f] # table[f] =>
    \/ table[f] = Other /\ OtherCloses
    \/ \E d \in Device : table[f] = d /\ Step(d)

(* serial.c:70 "Accelerometer MCU (can be disconnected)": until a device   *)
(* has opened that could not be configured, reopening one device closes    *)
(* nobody else's descriptor, neither the other device's nor one of another *)
(* part of the driver.                                                     *)
SoundClosesOwn == [][sound' => OnlyOwn]_portVars

(* The descriptor d is served by: open, not hung up and watched. *)
Attached(d) == ready[d] /\ reg[d] /\ Usable(d) /\ table[num[d]] = d

(* A device that is plugged in for good is attached in the end and stays   *)
(* attached, whatever happened before except a failing set-up, if          *)
(* descriptors do not run out.                                             *)
Reconnects ==
  \A d \in Device :
    <>[](stage = "run" /\ d \in plugged /\ Unused(table) # {} /\ sound)
      => <>[]Attached(d)
=============================================================================
