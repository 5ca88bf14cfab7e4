-------------------------- MODULE SerialPortProofs --------------------------
(***************************************************************************)
(* Proofs about SerialPort for any set of descriptor numbers: its types,   *)
(* that no descriptor is ever leaked and that, as long as every device     *)
(* that opens can be configured, each keeps to its own descriptor.         *)
(***************************************************************************)
EXTENDS SerialPort, TLAPS

Owner == Device \cup {Free, Other}

LEMMA CloseType ==
  ASSUME NEW n, NEW t \in [Fd -> Owner]
  PROVE  /\ Close(n, t) \in [Fd -> Owner]
         /\ \A f \in Fd : Close(n, t)[f] = IF f = n THEN Free ELSE t[f]
BY DEF Close, Owner

(* What serial_init_device does to the tables, whether it succeeds or not. *)
LEMMA InitDeviceEffect ==
  ASSUME NEW d \in Device, NEW t \in [Fd -> Owner], PortTypeOK, InitDevice(d, t)
  PROVE  /\ ready' \in [Device -> BOOLEAN] /\ reg' \in [Device -> BOOLEAN]
         /\ hung' \in SUBSET Device /\ sound' \in BOOLEAN
         /\ sound' => sound
         /\ num' \in [Device -> Fd \cup {NoFd, 0}]
         /\ \A e \in Device \ {d} : num'[e] = num[e] /\ ready'[e] = ready[e]
         /\ \/ table' = t /\ ~ready'[d] /\ (sound' => num'[d] = NoFd)
            \/ \E f \in Fd : /\ t[f] = Free /\ num'[d] = f /\ ready'[d]
                             /\ table' = [t EXCEPT ![f] = d]
<1>1. CASE OpenFails(d, t)
  BY <1>1 DEF PortTypeOK, InitDevice, OpenFails
<1>2. CASE SetupFails(d, t)
  <2>1. PICK f \in Fd : num' = [num EXCEPT ![d] = f]
    BY <1>2 DEF SetupFails
  <2>2. QED
    BY <1>2, <2>1 DEF PortTypeOK, InitDevice, SetupFails
<1>3. CASE Opens(d, t)
  <2>1. PICK f \in Fd : /\ t[f] = Free
                        /\ num' = [num EXCEPT ![d] = f]
                        /\ table' = [t EXCEPT ![f] = d]
    BY <1>3 DEF Opens, Lowest, Unused
  <2>2. QED
    BY <1>3, <2>1 DEF PortTypeOK, InitDevice, Opens
<1>4. QED
  BY <1>1, <1>2, <1>3 DEF InitDevice

LEMMA InitDeviceTable ==
  ASSUME NEW d \in Device, NEW t \in [Fd -> Owner], PortTypeOK, InitDevice(d, t)
  PROVE  table' \in [Fd -> Owner]
BY InitDeviceEffect DEF Owner

(* The steps that open or reopen a device, with the table they start from. *)
Reopens(d) == Reinit(d) /\ UNCHANGED <<stage, plugged>> /\ stage = "run"

LEMMA StepKinds ==
  ASSUME NEW d \in Device, PortTypeOK, Step(d)
  PROVE  \/ \E e \in Device : Reopens(e)
         \/ ReadNothing(d)
BY DEF Step, SendReopens, SendFails, ReadFails, Watched, Reopens, DeviceOf, Device

-----------------------------------------------------------------------------
LEMMA TypeStep == PortTypeOK /\ [PortNext]_portVars => PortTypeOK'
<1> SUFFICES ASSUME PortTypeOK, [PortNext]_portVars PROVE PortTypeOK'
  OBVIOUS
<1>0. table \in [Fd -> Owner]
  BY DEF PortTypeOK, Owner
<1>1. CASE StartMotors
  BY <1>0, <1>1, InitDeviceEffect, InitDeviceTable DEF PortTypeOK, StartMotors, Device, Owner
<1>2. CASE StartAccelerometer
  BY <1>0, <1>2, InitDeviceEffect, InitDeviceTable DEF PortTypeOK, StartAccelerometer, Device, Owner
<1>3. ASSUME NEW d \in Device, Reopens(d) PROVE PortTypeOK'
  <2>1. Close(num[d], table) \in [Fd -> Owner]
    BY <1>0, CloseType
  <2>2. InitDevice(d, Close(num[d], table))
    BY <1>3 DEF Reopens, Reinit
  <2>3. QED
    BY <1>3, <2>1, <2>2, InitDeviceEffect, InitDeviceTable DEF PortTypeOK, Reopens, Owner
<1>4. ASSUME NEW d \in Device, ReadNothing(d) PROVE PortTypeOK'
  BY <1>4 DEF PortTypeOK, ReadNothing
<1>5. ASSUME NEW d \in Device, Unplug(d) \/ Plug(d) PROVE PortTypeOK'
  BY <1>5 DEF PortTypeOK, Unplug, Plug
<1>6. CASE OtherOpens
  BY <1>6 DEF PortTypeOK, OtherOpens
<1>7. CASE OtherCloses
  BY <1>7, <1>0, CloseType DEF PortTypeOK, OtherCloses, Owner
<1>8. CASE UNCHANGED portVars
  BY <1>8 DEF PortTypeOK, portVars
<1>9. QED
  BY <1>1, <1>2, <1>3, <1>4, <1>5, <1>6, <1>7, <1>8, StepKinds DEF PortNext

(* The variables of SerialPort keep their types. *)
THEOREM TypeCorrect == PortSpec => []PortTypeOK
<1>1. PortInit => PortTypeOK
  BY DEF PortInit, PortTypeOK
<1>2. QED
  BY <1>1, TypeStep, PTL DEF PortSpec

-----------------------------------------------------------------------------
(* Before a device is started nothing in the table is its. *)
LeakInv ==
  /\ NoLeak
  /\ \A f \in Fd : /\ stage = "boot" => table[f] \notin Device
                   /\ stage = "half" => table[f] # Accel

LEMMA LeakReopen ==
  ASSUME NEW d \in Device, NEW t \in [Fd -> Owner], PortTypeOK, InitDevice(d, t),
         \A e \in Device, f \in Fd : t[f] = e => e # d /\ num[e] = f
  PROVE  NoLeak'
<1>1. CASE table' = t
  BY <1>1, InitDeviceEffect DEF NoLeak
<1>2. ASSUME NEW g \in Fd, t[g] = Free, num'[d] = g, table' = [t EXCEPT ![g] = d]
      PROVE  NoLeak'
  <2> SUFFICES ASSUME NEW e \in Device, NEW f \in Fd, table'[f] = e PROVE num'[e] = f
    BY DEF NoLeak
  <2>1. CASE f = g
    BY <1>2, <2>1
  <2>2. CASE f # g
    BY <1>2, <2>2, InitDeviceEffect
  <2>3. QED
    BY <2>1, <2>2
<1>3. QED
  BY <1>1, <1>2, InitDeviceEffect

LEMMA LeakStep == PortTypeOK /\ LeakInv /\ [PortNext]_portVars => LeakInv'
<1> SUFFICES ASSUME PortTypeOK, LeakInv, [PortNext]_portVars PROVE LeakInv'
  OBVIOUS
<1>0. table \in [Fd -> Owner]
  BY DEF PortTypeOK, Owner
<1>1. CASE StartMotors
  <2>1. InitDevice(Motors, table) /\ Motors \in Device /\ stage' \in {"half", "exit"}
    BY <1>1 DEF StartMotors, Device
  <2>2. \A e \in Device, f \in Fd : table[f] # e
    BY <1>1 DEF LeakInv, StartMotors
  <2>3. NoLeak'
    BY <1>0, <2>1, <2>2, LeakReopen
  <2>4. \A f \in Fd : table'[f] # Accel
    BY <1>0, <2>1, <2>2, InitDeviceEffect, OwnersDistinct DEF Device
  <2>5. QED
    BY <2>1, <2>3, <2>4 DEF LeakInv
<1>2. CASE StartAccelerometer
  <2>1. InitDevice(Accel, table) /\ Accel \in Device /\ stage' = "run"
    BY <1>2 DEF StartAccelerometer, Device
  <2>2. \A e \in Device, f \in Fd : table[f] = e => e # Accel /\ num[e] = f
    BY <1>2 DEF LeakInv, NoLeak, StartAccelerometer
  <2>3. QED
    BY <1>0, <2>1, <2>2, LeakReopen DEF LeakInv
<1>3. ASSUME NEW d \in Device, Reopens(d) PROVE LeakInv'
  <2> DEFINE t == Close(num[d], table)
  <2>1. t \in [Fd -> Owner] /\ \A f \in Fd : t[f] = IF f = num[d] THEN Free ELSE table[f]
    BY <1>0, CloseType
  <2>2. InitDevice(d, t) /\ stage' = "run"
    BY <1>3 DEF Reopens, Reinit
  <2>3. \A e \in Device, f \in Fd : t[f] = e => e # d /\ num[e] = f
    BY <2>1, OwnersDistinct DEF LeakInv, NoLeak
  <2>4. NoLeak'
    BY <2>1, <2>2, <2>3, LeakReopen
  <2>5. QED
    BY <2>2, <2>4 DEF LeakInv
<1>4. ASSUME NEW d \in Device, ReadNothing(d) \/ Unplug(d) \/ Plug(d) PROVE LeakInv'
  BY <1>4 DEF LeakInv, NoLeak, ReadNothing, Unplug, Plug
<1>5. CASE OtherOpens
  <2>1. PICK g \in Fd : table' = [table EXCEPT ![g] = Other]
    BY <1>5 DEF OtherOpens
  <2>2. Other \notin Device
    BY OwnersDistinct
  <2>3. \A e \in Device, f \in Fd : table'[f] = e => table[f] = e
    BY <1>0, <2>1, <2>2
  <2>4. QED
    BY <1>5, <2>3 DEF LeakInv, NoLeak, OtherOpens, Device
<1>6. CASE OtherCloses
  <2>1. PICK g \in Fd : table' = Close(g, table)
    BY <1>6 DEF OtherCloses
  <2>2. Free \notin Device /\ Accel \in Device
    BY OwnersDistinct DEF Device
  <2>3. \A e \in Device, f \in Fd : table'[f] = e => table[f] = e
    BY <1>0, <2>1, <2>2, CloseType
  <2>4. QED
    BY <1>6, <2>2, <2>3 DEF LeakInv, NoLeak, OtherCloses
<1>7. CASE UNCHANGED portVars
  BY <1>7 DEF LeakInv, NoLeak, portVars
<1>8. QED
  BY <1>1, <1>2, <1>3, <1>4, <1>5, <1>6, <1>7, StepKinds DEF PortNext

(* The one descriptor a device holds is the one it knows, however often it *)
(* is reopened and whatever fails.                                         *)
THEOREM NothingLeaks == PortSpec => []NoLeak
<1>1. PortInit => PortTypeOK /\ LeakInv
  BY OwnersDistinct DEF PortInit, PortTypeOK, LeakInv, NoLeak, Device
<1>2. LeakInv => NoLeak
  BY DEF LeakInv
<1>3. QED
  BY <1>1, <1>2, TypeStep, LeakStep, PTL DEF PortSpec

-----------------------------------------------------------------------------
(* A device without a descriptor knows that it has none; one with a        *)
(* descriptor owns it.                                                     *)
OwnInv ==
  /\ \A d \in Device :
       /\ ready[d] => num[d] \in Fd /\ table[num[d]] = d
       /\ stage = "run" /\ ~ready[d] => num[d] = NoFd
  /\ stage = "boot" => \A d \in Device : ~ready[d]
  /\ stage = "half" => ready[Motors] /\ ~ready[Accel]
  /\ stage = "exit" => \A d \in Device : ~ready[d]

LEMMA NoFdIsNone == NoFd \notin Fd
BY FdsAreNumbers DEF NoFd

LEMMA OwnInit ==
  ASSUME sound', PortTypeOK, NEW d \in Device, NEW t \in [Fd -> Owner],
         InitDevice(d, t),
         \A e \in Device \ {d} : ready[e] => num[e] \in Fd /\ t[num[e]] = e
  PROVE  /\ \A e \in Device : ready'[e] => num'[e] \in Fd /\ table'[num'[e]] = e
         /\ ~ready'[d] => num'[d] = NoFd
         /\ \A e \in Device \ {d} : num'[e] = num[e] /\ ready'[e] = ready[e]
<1>1. CASE table' = t /\ ~ready'[d] /\ num'[d] = NoFd
  BY <1>1, InitDeviceEffect
<1>2. ASSUME NEW g \in Fd, t[g] = Free, num'[d] = g, ready'[d], table' = [t EXCEPT ![g] = d]
      PROVE  \A e \in Device : ready'[e] => num'[e] \in Fd /\ table'[num'[e]] = e
  <2> SUFFICES ASSUME NEW e \in Device, ready'[e]
               PROVE  num'[e] \in Fd /\ table'[num'[e]] = e
    OBVIOUS
  <2>1. CASE e = d
    BY <1>2, <2>1
  <2>2. CASE e # d
    BY <1>2, <2>2, InitDeviceEffect, OwnersDistinct
  <2>3. QED
    BY <2>1, <2>2
<1>3. QED
  BY <1>1, <1>2, InitDeviceEffect

(* The step that reopens d, and what it does to the table. *)
LEMMA OwnReopen ==
  ASSUME sound', PortTypeOK, OwnInv, NEW d \in Device, Reopens(d)
  PROVE  /\ OwnInv'
         /\ \A f \in Fd : table[f] \notin {Free, d} => table'[f] = table[f]
<1> DEFINE t == Close(num[d], table)
<1>0. table \in [Fd -> Owner]
  BY DEF PortTypeOK, Owner
<1>1. t \in [Fd -> Owner] /\ \A f \in Fd : t[f] = IF f = num[d] THEN Free ELSE table[f]
  BY <1>0, CloseType
<1>2. InitDevice(d, t) /\ stage = "run" /\ stage' = "run"
  BY DEF Reopens, Reinit
<1>3. \A f \in Fd : f = num[d] => table[f] = d
  BY <1>2, NoFdIsNone DEF OwnInv
<1>4. \A e \in Device \ {d} : ready[e] => num[e] \in Fd /\ t[num[e]] = e
  BY <1>1, <1>3 DEF OwnInv
<1>5. OwnInv'
  BY <1>1, <1>2, <1>4, OwnInit DEF OwnInv
<1>6. \A f \in Fd : table[f] \notin {Free, d} => t[f] = table[f] /\ t[f] # Free
  BY <1>1, <1>3
<1>7. \A f \in Fd : t[f] # Free => table'[f] = t[f]
  BY <1>1, <1>2, InitDeviceEffect
<1>8. QED
  BY <1>5, <1>6, <1>7

LEMMA OwnStart ==
  ASSUME sound', PortTypeOK, OwnInv, StartMotors \/ StartAccelerometer
  PROVE  /\ OwnInv'
         /\ \A f \in Fd : table[f] # Free => table'[f] = table[f]
<1>0. table \in [Fd -> Owner]
  BY DEF PortTypeOK, Owner
<1>1. PICK d \in Device :
        /\ InitDevice(d, table)
        /\ \/ d = Motors /\ stage = "boot" /\ stage' = IF ready'[Motors] THEN "half" ELSE "exit"
           \/ d = Accel /\ stage = "half" /\ stage' = "run"
  BY DEF StartMotors, StartAccelerometer, Device
<1>2. \A e \in Device \ {d} : ready[e] => num[e] \in Fd /\ table[num[e]] = e
  BY DEF OwnInv
<1>3. /\ \A e \in Device : ready'[e] => num'[e] \in Fd /\ table'[num'[e]] = e
      /\ ~ready'[d] => num'[d] = NoFd
      /\ \A e \in Device \ {d} : num'[e] = num[e] /\ ready'[e] = ready[e]
  BY <1>0, <1>1, <1>2, OwnInit
<1>4. CASE d = Motors
  BY <1>1, <1>3, <1>4, <1>0, InitDeviceEffect, OwnersDistinct DEF OwnInv, Device
<1>5. CASE d = Accel
  <2>1. ready'[Motors]
    BY <1>1, <1>3, <1>5, OwnersDistinct DEF OwnInv, Device
  <2>2. \A e \in Device : e = Motors \/ e = Accel
    BY DEF Device
  <2>3. OwnInv'
    BY <1>1, <1>3, <1>5, <2>1, <2>2, OwnersDistinct DEF OwnInv
  <2>4. QED
    BY <1>0, <1>1, <2>3, InitDeviceEffect
<1>6. QED
  BY <1>4, <1>5 DEF Device

LEMMA StepReopensOwn ==
  ASSUME PortTypeOK, OwnInv, NEW d \in Device, Step(d)
  PROVE  Reopens(d) \/ ReadNothing(d)
<1>1. ASSUME ReadFails(d) PROVE DeviceOf(num[d]) = d
  <2>1. table[num[d]] = d /\ num[d] \in Fd
    BY <1>1 DEF ReadFails, Watched
  <2>2. num[Motors] = num[d] => d = Motors
    BY <1>1, <2>1, NoFdIsNone DEF OwnInv, Device, ReadFails, Watched
  <2>3. QED
    BY <2>2 DEF DeviceOf, Device
<1>2. QED
  BY <1>1 DEF Step, SendReopens, SendFails, ReadFails, Watched, Reopens

LEMMA OwnStep ==
  ASSUME sound', PortTypeOK, OwnInv, [PortNext]_portVars
  PROVE  OwnInv' /\ (OnlyOwn \/ UNCHANGED portVars)
<1>0. table \in [Fd -> Owner]
  BY DEF PortTypeOK, Owner
<1>1. CASE StartMotors \/ StartAccelerometer
  BY <1>1, OwnStart DEF OnlyOwn
<1>2. ASSUME NEW d \in Device, Step(d) PROVE OwnInv' /\ OnlyOwn
  <2>1. CASE Reopens(d)
    BY <1>2, <2>1, OwnReopen DEF OnlyOwn
  <2>2. CASE ReadNothing(d)
    BY <2>2 DEF OwnInv, OnlyOwn, ReadNothing
  <2>3. QED
    BY <1>2, <2>1, <2>2, StepReopensOwn
<1>3. ASSUME NEW d \in Device, Unplug(d) \/ Plug(d) PROVE OwnInv' /\ OnlyOwn
  BY <1>3 DEF OwnInv, OnlyOwn, Unplug, Plug
<1>4. CASE OtherOpens
  <2>1. PICK g \in Fd : table[g] = Free /\ table' = [table EXCEPT ![g] = Other]
    BY <1>4 DEF OtherOpens, Lowest, Unused
  <2>2. QED
    BY <1>0, <1>4, <2>1, OwnersDistinct DEF OwnInv, OnlyOwn, OtherOpens, Device
<1>5. CASE OtherCloses
  <2>1. PICK g \in Fd : table[g] = Other /\ table' = Close(g, table)
    BY <1>5 DEF OtherCloses
  <2>2. \A f \in Fd : table'[f] # table[f] => table[f] = Other
    BY <1>0, <2>1, CloseType
  <2>3. \A e \in Device, f \in Fd : table[f] = e => table'[f] = e
    BY <2>2, OwnersDistinct
  <2>4. OwnInv'
    BY <1>5, <2>3 DEF OwnInv, OtherCloses
  <2>5. QED
    BY <1>5, <2>2, <2>4 DEF OnlyOwn
<1>6. CASE UNCHANGED portVars
  BY <1>6 DEF OwnInv, portVars
<1>7. QED
  BY <1>1, <1>2, <1>3, <1>4, <1>5, <1>6 DEF PortNext

(* Once a set-up has failed, sound stays false. *)
LEMMA SoundBefore ==
  ASSUME PortTypeOK, [PortNext]_portVars, sound'
  PROVE  sound
<1>0. table \in [Fd -> Owner]
  BY DEF PortTypeOK, Owner
<1>1. ASSUME NEW d \in Device, NEW t \in [Fd -> Owner], InitDevice(d, t) PROVE sound
  BY <1>1, InitDeviceEffect
<1>2. CASE StartMotors \/ StartAccelerometer
  BY <1>0, <1>1, <1>2 DEF StartMotors, StartAccelerometer, Device
<1>3. ASSUME NEW d \in Device, Reopens(d) PROVE sound
  BY <1>0, <1>1, <1>3, CloseType DEF Reopens, Reinit
<1>4. ASSUME NEW d \in Device, ReadNothing(d) \/ Unplug(d) \/ Plug(d) PROVE sound
  BY <1>4 DEF ReadNothing, Unplug, Plug
<1>5. CASE OtherOpens \/ OtherCloses
  BY <1>5 DEF OtherOpens, OtherCloses
<1>6. CASE UNCHANGED portVars
  BY <1>6 DEF portVars
<1>7. QED
  BY <1>2, <1>3, <1>4, <1>5, <1>6, StepKinds DEF PortNext

(* What is inductive: the devices are in order until a set-up fails. *)
SoundInv == sound => OwnInv

LEMMA SoundInit == PortInit => PortTypeOK /\ SoundInv
BY DEF PortInit, PortTypeOK, SoundInv, OwnInv, Device

LEMMA SoundStep ==
  PortTypeOK /\ SoundInv /\ [PortNext]_portVars => SoundInv' /\ [sound' => OnlyOwn]_portVars
BY SoundBefore, OwnStep DEF SoundInv

(* A ready device holds its own descriptor and its events are dispatched   *)
(* to it until the set-up of a device fails.                               *)
THEOREM ReadyDevicesOwn == PortSpec => []ReadyOwns
<1>1. PortTypeOK /\ SoundInv => ReadyOwns
  <2> SUFFICES ASSUME PortTypeOK, OwnInv, NEW d \in Device, ready[d]
               PROVE  num[d] \in Fd /\ table[num[d]] = d /\ DeviceOf(num[d]) = d
    BY DEF ReadyOwns, SoundInv
  <2>1. num[d] \in Fd /\ table[num[d]] = d
    BY DEF OwnInv
  <2>2. ready[Motors] \/ num[Motors] = NoFd
    BY DEF OwnInv, PortTypeOK, Device
  <2>3. num[Motors] = num[d] => d = Motors
    BY <2>1, <2>2, NoFdIsNone DEF OwnInv, Device
  <2>4. QED
    BY <2>1, <2>3 DEF DeviceOf, Device
<1>2. QED
  BY <1>1, SoundInit, SoundStep, TypeStep, PTL DEF PortSpec

(* Until then, no step of the module closes a descriptor that belongs to   *)
(* somebody else.                                                          *)
THEOREM OnlyOwnClosed == PortSpec => SoundClosesOwn
BY SoundInit, SoundStep, TypeStep, PTL DEF PortSpec, SoundClosesOwn
=============================================================================
