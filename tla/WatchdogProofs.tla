--------------------------- MODULE WatchdogProofs ---------------------------
(***************************************************************************)
(* Proofs about Watchdog for every interval, time-out and blocking time:   *)
(* its types, how long a silent MCU may count as connected, and when a     *)
(* living one may be taken for disconnected.                               *)
(***************************************************************************)
EXTENDS Watchdog, TLAPS

-----------------------------------------------------------------------------
(* Time *)

LEMMA Constants ==
  /\ SfpInterval \in Nat \ {0} /\ RefreshInterval \in Nat \ {0}
  /\ McuTimeout \in Nat \ {0} /\ Reply \in Nat \ {0}
  /\ ResetDelay \in Nat /\ Block \in Nat /\ QuietMax \in Nat
  /\ \A d \in Durations : d \in 0 .. Block /\ d \in Nat
BY TimesOK

LEMMA LaterFacts ==
  ASSUME NEW t \in Nat \cup {Off}, NEW d \in Nat
  PROVE  /\ Later(t, d) \in Nat \cup {Off}
         /\ Later(t, d) = Off <=> t = Off
         /\ t # Off => /\ Later(t, d) <= t
                       /\ Later(t, d) > 0 => Later(t, d) + d = t
                       /\ Later(t, d) = 0 => t <= d
BY DEF Later, Off

(* ... of a timer that is pending *)
LEMMA LaterPending ==
  ASSUME NEW t \in Nat, NEW d \in Nat
  PROVE  /\ Later(t, d) \in Nat /\ Later(t, d) # Off /\ Later(t, d) <= t
         /\ Later(t, d) > 0 => Later(t, d) + d = t
         /\ Later(t, d) = 0 => t <= d
BY DEF Later, Off

LEMMA QuietFacts ==
  ASSUME NEW d \in Nat, quiet \in 0 .. QuietMax
  PROVE  QuietAfter(d) \in 0 .. QuietMax /\ QuietAfter(d) <= quiet + d
BY Constants DEF QuietAfter

LEMMA LeftAfterFacts ==
  ASSUME NEW d \in Nat, left \in [Timer -> Nat \cup {Off}]
  PROVE  /\ LeftAfter(d) \in [Timer -> Nat \cup {Off}]
         /\ \A t \in Timer : LeftAfter(d)[t] = Later(left[t], d)
BY LaterFacts DEF LeftAfter

LEMMA UnreadFacts ==
  ASSUME TypeOK, NEW d \in Nat
  PROVE  UnreadAfter(d) \in 0 .. McuTimeout
<1>1. McuTimeout \in Nat /\ coming \in Nat \cup {Off} /\ unread \in 0 .. McuTimeout
  BY Constants DEF TypeOK
<1> DEFINE n == IF readable THEN unread + d ELSE IF Arrives(d) THEN d - coming ELSE 0
<1>2. n \in Nat
  BY <1>1 DEF Arrives, Off
<1>3. UnreadAfter(d) = IF n > McuTimeout THEN McuTimeout ELSE n
  BY DEF UnreadAfter
<1> HIDE DEF n
<1> QED BY <1>1, <1>2, <1>3

LEMMA ComingFacts ==
  ASSUME NEW d \in Nat, coming \in Nat \cup {Off}, readable \in BOOLEAN
  PROVE  ComingAfter(d) \in Nat \cup {Off} /\ ReadableAfter(d) \in BOOLEAN
BY LaterFacts DEF ComingAfter, ReadableAfter, Arrives

-----------------------------------------------------------------------------
(* The two handlers that take time, as equations on the timers *)

LEMMA SfpFacts ==
  ASSUME TypeOK, SfpTimer
  PROVE  \E d \in Durations :
           /\ left' \in [Timer -> Nat \cup {Off}]
           /\ left'["sfp"] = SfpInterval
           /\ left'["status"] = Later(left["status"], d)
           /\ left'["wait"] = Later(left["wait"], d)
           /\ quiet' \in 0 .. QuietMax /\ quiet' <= quiet + d
<1>1. PICK d \in Durations :
        /\ quiet' = QuietAfter(d)
        /\ left' = [LeftAfter(d) EXCEPT !["sfp"] = SfpInterval]
  BY DEF SfpTimer
<1>2. d \in Nat
  BY Constants
<1>3. LeftAfter(d) \in [Timer -> Nat \cup {Off}] /\ \A t \in Timer : LeftAfter(d)[t] = Later(left[t], d)
  BY <1>2, LeftAfterFacts DEF TypeOK
<1>4. quiet' \in 0 .. QuietMax /\ quiet' <= quiet + d
  BY <1>1, <1>2, QuietFacts DEF TypeOK
<1>5. QED
  BY <1>1, <1>3, <1>4, Constants DEF Timer

LEMMA StatusFacts ==
  ASSUME TypeOK, StatusTimer
  PROVE  \E d \in Durations :
           /\ left' \in [Timer -> Nat \cup {Off}]
           /\ left'["sfp"] = Later(left["sfp"], d)
           /\ left'["status"] = RefreshInterval
           /\ left'["wait"] = IF left["wait"] = Off THEN McuTimeout ELSE Later(left["wait"], d)
           /\ quiet' \in 0 .. QuietMax /\ quiet' <= quiet + d
<1>1. PICK d \in Durations :
        /\ quiet' = QuietAfter(d)
        /\ left' = [LeftAfter(d) EXCEPT
                     !["status"] = RefreshInterval,
                     !["wait"] = IF left["wait"] = Off THEN McuTimeout ELSE @]
  BY DEF StatusTimer
<1>2. d \in Nat
  BY Constants
<1>3. LeftAfter(d) \in [Timer -> Nat \cup {Off}] /\ \A t \in Timer : LeftAfter(d)[t] = Later(left[t], d)
  BY <1>2, LeftAfterFacts DEF TypeOK
<1>4. quiet' \in 0 .. QuietMax /\ quiet' <= quiet + d
  BY <1>1, <1>2, QuietFacts DEF TypeOK
<1>5. QED
  BY <1>1, <1>3, <1>4, Constants DEF Timer

LEMMA SleepFacts ==
  ASSUME TypeOK, Sleep
  PROVE  /\ left' \in [Timer -> Nat \cup {Off}]
         /\ \A t \in Timer : left'[t] = Later(left[t], 1)
         /\ quiet' \in 0 .. QuietMax /\ quiet' <= quiet + 1
BY LeftAfterFacts, QuietFacts DEF Sleep, TypeOK

-----------------------------------------------------------------------------
(* Types *)

LEMMA TypeInit == Init => TypeOK
<1> SUFFICES ASSUME Init PROVE TypeOK
  OBVIOUS
<1>1. left \in [Timer -> Nat \cup {Off}]
  <2>1. PICK d \in Durations :
          left = [status |-> Later(RefreshInterval, ResetDelay + d),
                  sfp |-> Later(SfpInterval, ResetDelay + d), wait |-> Off]
    BY DEF Init
  <2>2. ResetDelay + d \in Nat
    BY Constants
  <2>3. /\ Later(RefreshInterval, ResetDelay + d) \in Nat \cup {Off}
        /\ Later(SfpInterval, ResetDelay + d) \in Nat \cup {Off}
    BY <2>2, Constants, LaterFacts
  <2>4. QED
    BY <2>1, <2>3 DEF Timer
<1>2. due \subseteq Timer
  BY DEF Init, DueIn
<1>3. coming \in Nat
  BY Constants DEF Init
<1>4. quiet \in 0 .. QuietMax /\ unread \in 0 .. McuTimeout
  BY Constants DEF Init
<1>5. batch \subseteq {"serial"} \cup OtherFds /\ phase \in {"timers", "events"}
  BY DEF Init
<1>6. connected \in BOOLEAN /\ alive \in BOOLEAN /\ readable \in BOOLEAN
  BY Zenon DEF Init
<1>7. QED
  BY <1>1, <1>2, <1>3, <1>4, <1>5, <1>6 DEF TypeOK

LEMMA TypeStep ==
  ASSUME TypeOK, [Next]_vars
  PROVE  TypeOK'
<1> USE DEF TypeOK
<1>1. CASE SfpTimer
  <2>1. \A d \in Durations : /\ ComingAfter(d) \in Nat \cup {Off} /\ ReadableAfter(d) \in BOOLEAN
                            /\ UnreadAfter(d) \in 0 .. McuTimeout
    BY Constants, ComingFacts, UnreadFacts
  <2>2. QED
    BY <1>1, <2>1, SfpFacts DEF SfpTimer
<1>2. CASE StatusTimer
  <2>1. \A d \in Durations : ComingAfter(d) \in Nat \cup {Off} /\ ReadableAfter(d) \in BOOLEAN
    BY Constants, ComingFacts
  <2>2. PICK d \in Durations :
          /\ coming' \in 1 .. Reply \/ coming' = ComingAfter(d)
          /\ readable' = ReadableAfter(d) \/ readable' = FALSE
    BY <1>2 DEF StatusTimer
  <2>3. connected' = connected \/ connected' = FALSE
    BY <1>2 DEF StatusTimer
  <2>4. coming' \in Nat \cup {Off}
    BY <2>1, <2>2, Constants
  <2>5. readable' \in BOOLEAN /\ connected' \in BOOLEAN
    BY Zenon, <2>1, <2>2, <2>3
  <2>6. unread' \in 0 .. McuTimeout
    <3>1. \A e \in Durations : UnreadAfter(e) \in 0 .. McuTimeout
      BY Constants, UnreadFacts
    <3>2. \E e \in Durations : unread' = UnreadAfter(e) \/ unread' = 0
      BY <1>2 DEF StatusTimer
    <3> QED BY <3>1, <3>2, Constants
  <2>7. QED
    BY <1>2, <2>4, <2>5, <2>6, StatusFacts DEF StatusTimer
<1>3. CASE WaitReplyTimer
  BY <1>3 DEF WaitReplyTimer, Timer
<1>4. CASE EndPass
  BY <1>4 DEF EndPass
<1>5. ASSUME NextPass PROVE phase' \in {"timers", "events"} /\ due' \subseteq Timer
  BY <1>5 DEF NextPass, DueIn
<1>6. \A b \in Fetched : b \subseteq {"serial"} \cup OtherFds
  BY DEF Fetched
<1>7. CASE ServeSerial
  <2>1. left' = left \/ left' = [left EXCEPT !["wait"] = Off]
    BY <1>7 DEF ServeSerial
  <2>2. left' \in [Timer -> Nat \cup {Off}]
    BY <2>1 DEF Timer
  <2>3. quiet' = quiet \/ quiet' = 0
    BY <1>7 DEF ServeSerial
  <2>4. quiet' \in 0 .. QuietMax
    BY <2>3, Constants
  <2>5. connected' = connected \/ connected' = TRUE
    BY <1>7 DEF ServeSerial
  <2>6. connected' \in BOOLEAN /\ readable' \in BOOLEAN
    BY Zenon, <1>7, <2>5 DEF ServeSerial
  <2>7. batch' \subseteq {"serial"} \cup OtherFds
    BY <1>6, <1>7 DEF ServeSerial
  <2>8. QED
    BY <1>5, <1>7, <2>2, <2>4, <2>6, <2>7, Constants DEF ServeSerial
<1>8. CASE ServeOther
  BY <1>5, <1>6, <1>8 DEF ServeOther
<1>9. CASE Wake
  BY <1>5, <1>9 DEF Wake
<1>10. CASE Sleep
  BY <1>10, SleepFacts, ComingFacts, UnreadFacts DEF Sleep
<1>11. CASE McuDies
  BY <1>11 DEF McuDies
<1>12. CASE UNCHANGED vars
  BY <1>12 DEF vars
<1>13. QED
  BY <1>1, <1>2, <1>3, <1>4, <1>7, <1>8, <1>9, <1>10, <1>11, <1>12 DEF Next

(* The timers, the epoll batch and the report under way keep their types,  *)
(* however long the handlers take.                                         *)
THEOREM TypeCorrect == Spec => []TypeOK
<1>1. TypeOK /\ [Next]_vars => TypeOK'
  BY TypeStep
<1>2. QED
  BY TypeInit, <1>1, PTL DEF Spec

-----------------------------------------------------------------------------
(* Silence *)

(* The periodic timers are always pending, and what a pass still has to    *)
(* run is due.                                                             *)
TimerInv ==
  /\ left["status"] \in 0 .. RefreshInterval /\ left["sfp"] \in Nat
  /\ \A t \in due : left[t] = 0
  /\ phase = "events" => due = {}

Periodic == {"status", "sfp"}

(* When the watchdog is armed; when it is due and nothing delays it.       *)
Armed == RefreshInterval + 2 * Block
Fires == Armed + McuTimeout

(* The watchdog is not pending: the request is late by the one call of     *)
(* update_sfp that the SFP timer may be ahead.                             *)
BeforeRequest ==
  /\ left["status"] > 0 => quiet + left["status"] <= RefreshInterval
  /\ left["status"] = 0 => quiet <= RefreshInterval + Block
  /\ left["status"] = 0 /\ left["sfp"] = 0 => quiet <= RefreshInterval

(* It is due and has its turn in this pass: what is before it has at most  *)
(* that many calls.                                                        *)
InThisPass ==
  /\ quiet <= Fires + 3 * Block
  /\ due \cap Periodic # {} => quiet <= Fires + 2 * Block
  /\ Periodic \subseteq due => quiet <= Fires + Block

(* It became due in this pass, which has therefore run a handler already;  *)
(* the last handler of a pass is not due in the next.                      *)
InNextPass ==
  /\ quiet <= Fires + 2 * Block
  /\ due \cap Periodic # {} => quiet <= Fires + Block
  /\ ~(Periodic \subseteq due)
  /\ due \cap Periodic = {} => left["status"] > 0 \/ left["sfp"] > 0

(* It is due in the pass that uloop begins next. *)
Waiting ==
  /\ quiet <= Fires + 2 * Block
  /\ left["status"] = 0 /\ left["sfp"] = 0 => quiet <= Fires + Block

SilenceInv ==
  connected =>
    /\ left["wait"] = Off => BeforeRequest
    /\ left["wait"] # Off /\ left["wait"] > 0 => quiet + left["wait"] <= Fires
    /\ left["wait"] = 0 =>
         /\ phase = "events" => Waiting
         /\ phase = "timers" /\ "wait" \in due => InThisPass
         /\ phase = "timers" /\ "wait" \notin due => InNextPass

LEMMA TimerInvStep ==
  ASSUME TypeOK, TimerInv, [Next]_vars
  PROVE  TimerInv'
<1> USE DEF TimerInv
<1>1. /\ left["status"] \in Nat /\ left["status"] <= RefreshInterval /\ left["sfp"] \in Nat
      /\ due \subseteq Timer /\ left \in [Timer -> Nat \cup {Off}] /\ Off \notin Nat
  BY Constants DEF TypeOK, Off
<1>2. CASE SfpTimer
  <2>1. PICK d \in Durations :
          /\ left'["sfp"] = SfpInterval
          /\ left'["status"] = Later(left["status"], d)
          /\ left'["wait"] = Later(left["wait"], d)
    BY <1>2, SfpFacts
  <2>2. d \in Nat /\ Later(0, d) = 0
    BY Constants, LaterFacts DEF Later, Off
  <2>3. left'["status"] \in 0 .. RefreshInterval /\ left'["sfp"] \in Nat
    <3>1. left'["status"] \in Nat /\ left'["status"] <= left["status"]
      BY <1>1, <2>1, <2>2, LaterPending
    <3>2. QED
      BY <1>1, <2>1, <3>1, Constants
  <2>4. due' = due \ {"sfp"} /\ phase' = "timers"
    BY <1>2 DEF SfpTimer
  <2>5. \A t \in due' : left'[t] = 0
    BY <1>1, <2>1, <2>2, <2>4 DEF Timer
  <2>6. QED
    BY <2>3, <2>4, <2>5
<1>3. CASE StatusTimer
  <2>1. PICK d \in Durations :
          /\ left'["sfp"] = Later(left["sfp"], d)
          /\ left'["status"] = RefreshInterval
          /\ left'["wait"] = IF left["wait"] = Off THEN McuTimeout ELSE Later(left["wait"], d)
    BY <1>3, StatusFacts
  <2>2. d \in Nat /\ Later(0, d) = 0 /\ Off # 0
    BY Constants, LaterFacts DEF Later, Off
  <2>3. left'["status"] \in 0 .. RefreshInterval /\ left'["sfp"] \in Nat
    <3>1. left'["sfp"] \in Nat
      BY <1>1, <2>1, <2>2, LaterPending
    <3>2. QED
      BY <2>1, <3>1, Constants
  <2>4. due' = due \ {"status"} /\ phase' = "timers"
    BY <1>3 DEF StatusTimer
  <2>5. \A t \in due' : left'[t] = 0
    BY <1>1, <2>1, <2>2, <2>4 DEF Timer
  <2>6. QED
    BY <2>3, <2>4, <2>5
<1>4. CASE WaitReplyTimer
  <2>1. /\ left'["status"] = left["status"] /\ left'["sfp"] = left["sfp"]
        /\ due' = due \ {"wait"} /\ phase' = "timers"
    BY <1>1, <1>4 DEF WaitReplyTimer, Timer
  <2>2. QED
    BY <1>1, <2>1 DEF Timer
<1>5. CASE EndPass
  BY <1>5 DEF EndPass
<1>6. ASSUME NextPass, left'["status"] = left["status"], left'["sfp"] = left["sfp"]
      PROVE  TimerInv'
  BY <1>6 DEF NextPass, DueIn
<1>7. CASE ServeSerial
  <2>1. left' = left \/ left' = [left EXCEPT !["wait"] = Off]
    BY <1>7 DEF ServeSerial
  <2>2. left'["status"] = left["status"] /\ left'["sfp"] = left["sfp"]
    BY <1>1, <2>1 DEF Timer
  <2>3. QED
    BY <1>6, <1>7, <2>2 DEF ServeSerial
<1>8. CASE ServeOther \/ Wake
  BY <1>6, <1>8 DEF ServeOther, Wake
<1>9. CASE Sleep
  <2>1. left'["status"] = Later(left["status"], 1) /\ left'["sfp"] = Later(left["sfp"], 1)
    BY <1>9, SleepFacts DEF Timer
  <2>2. left'["status"] \in 0 .. RefreshInterval /\ left'["sfp"] \in Nat
    <3>1. /\ left'["status"] \in Nat /\ left'["status"] <= left["status"]
          /\ left'["sfp"] \in Nat
      BY <1>1, <2>1, LaterPending
    <3>2. QED
      BY <1>1, <3>1, Constants
  <2>3. due' = due /\ phase' = "events" /\ due = {}
    BY <1>9 DEF Sleep
  <2>4. QED
    BY <2>2, <2>3
<1>10. CASE McuDies \/ UNCHANGED vars
  BY <1>10 DEF McuDies, vars
<1>11. QED
  BY <1>2, <1>3, <1>4, <1>5, <1>7, <1>8, <1>9, <1>10 DEF Next

LEMMA SfpSilence ==
  ASSUME TypeOK, TimerInv, SilenceInv, connected, SfpTimer
  PROVE  SilenceInv'
<1>1. PICK d \in Durations :
        /\ left'["sfp"] = SfpInterval
        /\ left'["status"] = Later(left["status"], d)
        /\ left'["wait"] = Later(left["wait"], d)
        /\ quiet' \in 0 .. QuietMax /\ quiet' <= quiet + d
  BY SfpFacts
<1>2. /\ d \in Nat /\ d <= Block /\ Block \in Nat /\ quiet \in Nat /\ quiet' \in Nat
      /\ SfpInterval \in Nat /\ SfpInterval > 0
      /\ RefreshInterval \in Nat /\ McuTimeout \in Nat
      /\ left["status"] \in Nat /\ left["wait"] \in Nat \cup {Off}
  BY <1>1, Constants DEF TypeOK, TimerInv, Timer
<1>3. /\ phase = "timers" /\ phase' = "timers" /\ connected' = connected
      /\ "sfp" \in due /\ due' = due \ {"sfp"}
      /\ left["sfp"] = 0
  BY DEF SfpTimer, TimerInv
<1>4. /\ left'["status"] \in Nat
      /\ left'["status"] > 0 => left'["status"] + d = left["status"]
      /\ left'["status"] = 0 => left["status"] <= d
  BY <1>1, <1>2, LaterPending
<1>5. CASE left["wait"] = Off
  <2>1. left'["wait"] = Off
    BY <1>1, <1>2, <1>5, LaterFacts
  <2>2. BeforeRequest
    BY <1>5 DEF SilenceInv
  <2>3. BeforeRequest'
    BY <1>1, <1>2, <1>3, <1>4, <2>2 DEF BeforeRequest
  <2>4. Off # 0
    BY DEF Off
  <2>5. QED
    BY <2>1, <2>3, <2>4 DEF SilenceInv
<1>6. ASSUME left["wait"] # Off
      PROVE  /\ left["wait"] \in Nat /\ left'["wait"] \in Nat /\ left'["wait"] # Off
             /\ left'["wait"] > 0 => left'["wait"] + d = left["wait"]
             /\ left'["wait"] = 0 => left["wait"] <= d
  BY <1>1, <1>2, <1>6, LaterPending
<1>7. CASE left["wait"] # Off /\ left["wait"] > 0
  <2>1. quiet + left["wait"] <= Fires /\ Fires \in Nat
    BY <1>2, <1>7 DEF SilenceInv, Fires, Armed
  <2>2. "wait" \notin due'
    BY <1>3, <1>6, <1>7 DEF TimerInv
  <2>3. left'["wait"] > 0 => quiet' + left'["wait"] <= Fires
    BY <1>1, <1>2, <1>6, <1>7, <2>1
  <2>4. left'["wait"] = 0 => quiet' <= Fires + Block
    BY <1>1, <1>2, <1>6, <1>7, <2>1
  <2>5. left'["wait"] = 0 => InNextPass'
    BY <1>1, <1>2, <1>3, <2>1, <2>4 DEF InNextPass, Periodic
  <2>6. QED
    BY <1>3, <1>6, <1>7, <2>2, <2>3, <2>5 DEF SilenceInv
<1>8. CASE left["wait"] = 0
  <2>1. Off # 0
    BY DEF Off
  <2>2. left'["wait"] = 0 /\ left'["wait"] # Off
    BY <1>1, <1>2, <1>8 DEF Later, Off
  <2>3. Fires \in Nat
    BY <1>2 DEF Fires, Armed
  <2>4. CASE "wait" \in due
    <3>1. InThisPass /\ "wait" \in due'
      BY <1>3, <1>8, <2>4 DEF SilenceInv
    <3>2. quiet <= Fires + 2 * Block /\ ("status" \in due => quiet <= Fires + Block)
      BY <1>3, <3>1 DEF InThisPass, Periodic
    <3>3. quiet' <= Fires + 3 * Block /\ ("status" \in due => quiet' <= Fires + 2 * Block)
      BY <1>1, <1>2, <2>3, <3>2
    <3>4. InThisPass'
      BY <1>3, <3>3 DEF InThisPass, Periodic
    <3>5. QED
      BY <1>3, <2>2, <3>1, <3>4 DEF SilenceInv
  <2>5. CASE "wait" \notin due
    <3>1. InNextPass /\ "wait" \notin due'
      BY <1>3, <1>8, <2>5 DEF SilenceInv
    <3>2. quiet <= Fires + Block /\ "status" \notin due
      BY <1>3, <3>1 DEF InNextPass, Periodic
    <3>3. quiet' <= Fires + 2 * Block
      BY <1>1, <1>2, <2>3, <3>2
    <3>4. due' \cap Periodic = {} /\ left'["sfp"] > 0
      BY <1>1, <1>2, <1>3, <3>2 DEF Periodic
    <3>5. InNextPass'
      BY <3>3, <3>4 DEF InNextPass, Periodic
    <3>6. QED
      BY <1>3, <2>2, <3>1, <3>5 DEF SilenceInv
  <2>6. QED
    BY <2>4, <2>5
<1>9. QED
  BY <1>2, <1>5, <1>7, <1>8

LEMMA StatusSilence ==
  ASSUME TypeOK, TimerInv, SilenceInv, connected, StatusTimer
  PROVE  SilenceInv'
<1>1. PICK d \in Durations :
        /\ left'["sfp"] = Later(left["sfp"], d)
        /\ left'["status"] = RefreshInterval
        /\ left'["wait"] = IF left["wait"] = Off THEN McuTimeout ELSE Later(left["wait"], d)
        /\ quiet' \in 0 .. QuietMax /\ quiet' <= quiet + d
  BY StatusFacts
<1>2. /\ d \in Nat /\ d <= Block /\ Block \in Nat /\ quiet \in Nat /\ quiet' \in Nat
      /\ RefreshInterval \in Nat /\ RefreshInterval > 0
      /\ McuTimeout \in Nat /\ McuTimeout > 0
      /\ left["wait"] \in Nat \cup {Off}
  BY <1>1, Constants DEF TypeOK, Timer
<1>3. /\ phase = "timers" /\ phase' = "timers"
      /\ "status" \in due /\ due' = due \ {"status"}
      /\ left["status"] = 0
  BY DEF StatusTimer, TimerInv
<1>4. Fires \in Nat /\ Off \notin Nat
  BY <1>2 DEF Fires, Armed, Off
<1>5. CASE left["wait"] = Off
  <2>1. left'["wait"] = McuTimeout /\ left'["wait"] # Off /\ left'["wait"] # 0
    BY <1>1, <1>2, <1>4, <1>5
  <2>2. quiet <= RefreshInterval + Block
    BY <1>3, <1>5 DEF SilenceInv, BeforeRequest
  <2>3. quiet' + McuTimeout <= Fires
    <3>1. quiet' <= RefreshInterval + Block + d
      BY <1>1, <1>2, <2>2
    <3>2. quiet' <= Armed
      BY <1>2, <3>1 DEF Armed
    <3>3. Armed \in Nat
      BY <1>2 DEF Armed
    <3>4. quiet' \in Nat /\ McuTimeout \in Nat
      BY <1>2
    <3>5. \A q, a, t \in Nat : q <= a => q + t <= a + t
      OBVIOUS
    <3>6. quiet' + McuTimeout <= Armed + McuTimeout
      BY <3>2, <3>3, <3>4, <3>5
    <3>7. QED
      BY <3>6 DEF Fires
  <2>4. QED
    BY <2>1, <2>3 DEF SilenceInv
<1>6. ASSUME left["wait"] # Off
      PROVE  /\ left["wait"] \in Nat /\ left'["wait"] \in Nat /\ left'["wait"] # Off
             /\ left'["wait"] > 0 => left'["wait"] + d = left["wait"]
             /\ left'["wait"] = 0 => left["wait"] <= d
  BY <1>1, <1>2, <1>6, LaterPending
<1>7. CASE left["wait"] # Off /\ left["wait"] > 0
  <2>1. quiet + left["wait"] <= Fires
    BY <1>7 DEF SilenceInv
  <2>2. "wait" \notin due'
    BY <1>3, <1>6, <1>7 DEF TimerInv
  <2>3. left'["wait"] > 0 => quiet' + left'["wait"] <= Fires
    BY <1>1, <1>2, <1>4, <1>6, <1>7, <2>1
  <2>4. left'["wait"] = 0 => quiet' <= Fires + Block
    BY <1>1, <1>2, <1>4, <1>6, <1>7, <2>1
  <2>5. left'["wait"] = 0 => InNextPass'
    BY <1>1, <1>2, <1>3, <1>4, <2>4 DEF InNextPass, Periodic
  <2>6. QED
    BY <1>3, <1>6, <1>7, <2>2, <2>3, <2>5 DEF SilenceInv
<1>8. CASE left["wait"] = 0
  <2>1. left'["wait"] = 0 /\ left'["wait"] # Off
    BY <1>1, <1>2, <1>4, <1>8 DEF Later
  <2>2. CASE "wait" \in due
    <3>1. InThisPass /\ "wait" \in due'
      BY <1>3, <1>8, <2>2 DEF SilenceInv
    <3>2. quiet <= Fires + 2 * Block /\ ("sfp" \in due => quiet <= Fires + Block)
      BY <1>3, <3>1 DEF InThisPass, Periodic
    <3>3. quiet' <= Fires + 3 * Block /\ ("sfp" \in due => quiet' <= Fires + 2 * Block)
      BY <1>1, <1>2, <1>4, <3>2
    <3>4. InThisPass'
      BY <1>3, <3>3 DEF InThisPass, Periodic
    <3>5. QED
      BY <1>3, <2>1, <3>1, <3>4 DEF SilenceInv
  <2>3. CASE "wait" \notin due
    <3>1. InNextPass /\ "wait" \notin due'
      BY <1>3, <1>8, <2>3 DEF SilenceInv
    <3>2. quiet <= Fires + Block /\ "sfp" \notin due
      BY <1>3, <3>1 DEF InNextPass, Periodic
    <3>3. quiet' <= Fires + 2 * Block
      BY <1>1, <1>2, <1>4, <3>2
    <3>4. due' \cap Periodic = {} /\ left'["status"] > 0
      BY <1>1, <1>2, <1>3, <3>2 DEF Periodic
    <3>5. InNextPass'
      BY <3>3, <3>4 DEF InNextPass, Periodic
    <3>6. QED
      BY <1>3, <2>1, <3>1, <3>5 DEF SilenceInv
  <2>4. QED
    BY <2>2, <2>3
<1>9. QED
  BY <1>2, <1>5, <1>7, <1>8

(* uloop begins a pass with what is due. *)
LEMMA PassBegins ==
  ASSUME TypeOK, SilenceInv, phase = "events", connected, connected',
         UNCHANGED <<left, quiet>>, NextPass
  PROVE  SilenceInv'
<1>1. phase' = "timers" /\ \A t \in Timer : t \in due' <=> left[t] = 0
  BY DEF NextPass, DueIn
<1>2. CASE left["wait"] = 0
  <2>1. Waiting
    BY <1>2 DEF SilenceInv
  <2>2. quiet \in Nat /\ Block \in Nat /\ Fires \in Nat
    BY Constants DEF TypeOK, Fires, Armed
  <2>3. InThisPass'
    BY <1>1, <2>1, <2>2 DEF Waiting, InThisPass, Periodic, Timer, Fires, Armed
  <2>4. QED
    BY <1>1, <1>2, <2>3 DEF SilenceInv, Timer, Off
<1>3. CASE left["wait"] # 0
  BY <1>1, <1>3 DEF SilenceInv, BeforeRequest, Fires, Armed
<1>4. QED
  BY <1>2, <1>3

(* A report cancels the watchdog and ends the silence. *)
LEMMA ReportSilence ==
  ASSUME TypeOK, TimerInv, SilenceInv, ServeSerial, connected'
  PROVE  SilenceInv'
<1>1. CASE readable
  <2>1. left'["wait"] = Off /\ left'["status"] = left["status"] /\ quiet' = 0
    BY <1>1 DEF ServeSerial, TypeOK, Timer
  <2>2. left["status"] \in Nat /\ left["status"] <= RefreshInterval
    BY Constants DEF TimerInv
  <2>3. BeforeRequest'
    BY <2>1, <2>2, Constants DEF BeforeRequest
  <2>4. QED
    BY <2>1, <2>3 DEF SilenceInv, Off
<1>2. CASE ~readable
  BY <1>2, PassBegins DEF ServeSerial
<1>3. QED
  BY <1>1, <1>2

LEMMA SleepSilence ==
  ASSUME TypeOK, TimerInv, SilenceInv, connected, Sleep
  PROVE  SilenceInv'
<1>1. /\ left["status"] # 0 /\ left["sfp"] # 0 /\ left["wait"] # 0
      /\ phase' = "events" /\ connected' = connected
  BY DEF Sleep, DueIn, Timer
<1>2. /\ left["status"] \in Nat /\ left["wait"] \in Nat \cup {Off} /\ quiet \in Nat
      /\ RefreshInterval \in Nat /\ Block \in Nat /\ McuTimeout \in Nat
  BY Constants DEF TypeOK, TimerInv, Timer
<1>3. /\ left'["status"] = Later(left["status"], 1) /\ left'["wait"] = Later(left["wait"], 1)
      /\ quiet' \in Nat /\ quiet' <= quiet + 1
  BY SleepFacts DEF Timer
<1>4. CASE left["wait"] = Off
  <2>1. left'["wait"] = Off
    BY <1>2, <1>3, <1>4, LaterFacts
  <2>2. quiet + left["status"] <= RefreshInterval
    BY <1>1, <1>2, <1>4 DEF SilenceInv, BeforeRequest
  <2>3. left'["status"] = left["status"] - 1
    BY <1>1, <1>2, <1>3 DEF Later, Off
  <2>4. BeforeRequest'
    BY <1>1, <1>2, <1>3, <2>2, <2>3 DEF BeforeRequest
  <2>5. QED
    BY <2>1, <2>4 DEF SilenceInv, Off
<1>5. CASE left["wait"] # Off
  <2>1. left["wait"] \in Nat /\ quiet + left["wait"] <= Fires
    BY <1>1, <1>2, <1>5 DEF SilenceInv
  <2>2. left'["wait"] = left["wait"] - 1
    BY <1>1, <1>3, <1>5, <2>1 DEF Later
  <2>3. quiet' + left'["wait"] <= Fires /\ left'["wait"] \in Nat /\ Fires \in Nat
    BY <1>1, <1>2, <1>3, <2>1, <2>2 DEF Fires, Armed
  <2>4. left'["wait"] = 0 => Waiting'
    BY <1>2, <1>3, <2>3 DEF Waiting, Fires, Armed
  <2>5. QED
    BY <1>1, <2>3, <2>4 DEF SilenceInv, Off
<1>6. QED
  BY <1>4, <1>5

(* What did not become due in the pass waits for the next. *)
LEMMA EndSilence ==
  ASSUME TypeOK, SilenceInv, EndPass
  PROVE  SilenceInv'
<1>1. phase = "timers" /\ due = {} /\ phase' = "events" /\ UNCHANGED <<left, due, connected, quiet>>
  BY DEF EndPass
<1>2. CASE connected /\ left["wait"] = 0
  <2>1. InNextPass
    BY <1>1, <1>2 DEF SilenceInv
  <2>2. Waiting'
    BY <1>1, <2>1 DEF InNextPass, Waiting, Fires, Armed
  <2>3. QED
    BY <1>1, <1>2, <2>2 DEF SilenceInv, Off
<1>3. CASE ~connected \/ left["wait"] # 0
  BY <1>1, <1>3 DEF SilenceInv, BeforeRequest, Fires, Armed
<1>4. QED
  BY <1>2, <1>3

LEMMA SilenceStep ==
  ASSUME TypeOK, TimerInv, SilenceInv, [Next]_vars
  PROVE  SilenceInv'
<1>1. CASE SfpTimer
  <2>1. connected' = connected
    BY <1>1 DEF SfpTimer
  <2>2. QED
    BY <1>1, <2>1, SfpSilence DEF SilenceInv
<1>2. CASE StatusTimer
  <2>1. connected' => connected
    BY <1>2 DEF StatusTimer
  <2>2. QED
    BY <1>2, <2>1, StatusSilence DEF SilenceInv
<1>3. CASE WaitReplyTimer
  BY <1>3 DEF WaitReplyTimer, SilenceInv
<1>4. CASE EndPass
  BY <1>4, EndSilence
<1>5. CASE ServeSerial
  BY <1>5, ReportSilence DEF SilenceInv
<1>6. CASE ServeOther \/ Wake
  <2>1. phase = "events" /\ UNCHANGED <<left, quiet, connected>> /\ NextPass
    BY <1>6 DEF ServeOther, Wake
  <2>2. QED
    BY <2>1, PassBegins DEF SilenceInv
<1>7. CASE Sleep
  <2>1. connected' = connected
    BY <1>7 DEF Sleep
  <2>2. QED
    BY <1>7, <2>1, SleepSilence DEF SilenceInv
<1>8. CASE McuDies \/ UNCHANGED vars
  <2>1. UNCHANGED <<left, phase, due, connected, quiet>>
    BY <1>8 DEF McuDies, vars
  <2>2. QED
    BY <2>1 DEF SilenceInv, BeforeRequest, InThisPass, InNextPass, Waiting, Fires, Armed
<1>9. QED
  BY <1>1, <1>2, <1>3, <1>4, <1>5, <1>6, <1>7, <1>8 DEF Next

LEMMA SilenceBound ==
  ASSUME TypeOK, TimerInv, SilenceInv
  PROVE  DetectsSilence
<1> SUFFICES ASSUME connected PROVE quiet <= RefreshInterval + McuTimeout + 5 * Block
  BY DEF DetectsSilence
<1>1. /\ RefreshInterval \in Nat /\ Block \in Nat /\ McuTimeout \in Nat /\ quiet \in Nat
      /\ left["status"] \in Nat /\ left["wait"] \in Nat \cup {Off}
      /\ phase \in {"timers", "events"}
  BY Constants DEF TypeOK, TimerInv, Timer
<1>2. CASE left["wait"] = Off
  BY <1>1, <1>2 DEF SilenceInv, BeforeRequest
<1>3. CASE left["wait"] # Off /\ left["wait"] > 0
  BY <1>1, <1>3 DEF SilenceInv, Fires, Armed
<1>4. CASE left["wait"] = 0
  <2>1. quiet <= Fires + 3 * Block
    BY <1>1, <1>4 DEF SilenceInv, InThisPass, InNextPass, Waiting, Fires, Armed
  <2>2. QED
    BY <1>1, <2>1 DEF Fires, Armed
<1>5. QED
  BY <1>1, <1>2, <1>3, <1>4

LEMMA WatchdogInit == Init => TimerInv /\ SilenceInv
<1> SUFFICES ASSUME Init PROVE TimerInv /\ SilenceInv
  OBVIOUS
<1>1. PICK d \in Durations :
        left = [status |-> Later(RefreshInterval, ResetDelay + d),
                sfp |-> Later(SfpInterval, ResetDelay + d), wait |-> Off]
  BY DEF Init
<1>2. ResetDelay + d \in Nat /\ RefreshInterval \in Nat /\ SfpInterval \in Nat
  BY Constants
<1>3. /\ left["status"] \in Nat /\ left["status"] <= RefreshInterval
      /\ left["sfp"] \in Nat
  BY <1>1, <1>2, LaterPending
<1>4. \A t \in due : left[t] = 0
  BY DEF Init, DueIn
<1>5. QED
  BY <1>2, <1>3, <1>4 DEF Init, TimerInv, SilenceInv

(* Whatever the intervals, the time-out, the blocking time and the order   *)
(* of timers and descriptors, an MCU that falls silent counts as connected *)
(* no longer than the bound.                                               *)
THEOREM SilenceDetected == Spec => []DetectsSilence
<1>1. Init => TypeOK /\ TimerInv /\ SilenceInv
  BY TypeInit, WatchdogInit
<1>2. (TypeOK /\ TimerInv /\ SilenceInv) /\ [Next]_vars => (TypeOK /\ TimerInv /\ SilenceInv)'
  BY TypeStep, TimerInvStep, SilenceStep
<1>3. TypeOK /\ TimerInv /\ SilenceInv => DetectsSilence
  BY SilenceBound
<1>4. QED
  BY <1>1, <1>2, <1>3, PTL DEF Spec

-----------------------------------------------------------------------------
(* Alarms *)

(* An MCU that was asked in time answers before the watchdog is due, by    *)
(* what it may take for that; from then on the watchdog loses the time in  *)
(* which the report lies unread.                                           *)
AnswerInv ==
  connected /\ alive /\ left["wait"] # Off =>
    \/ readable /\ left["wait"] + unread >= McuTimeout - Reply
    \/ ~readable /\ coming # Off /\ left["wait"] >= McuTimeout - Reply + coming

ComingInv == coming \in (1 .. Reply) \cup {Off}

(* A pending watchdog loses d ticks at most ... *)
LEMMA WaitLoss ==
  ASSUME NEW t \in Nat, NEW d \in Nat
  PROVE  Later(t, d) \in Nat /\ Later(t, d) >= t - d /\ Later(t, d) # Off
BY DEF Later, Off

(* ... a report under way loses as many or arrives, and lies unread for    *)
(* the rest.                                                               *)
LEMMA ArrivalFacts ==
  ASSUME TypeOK, NEW d \in Nat
  PROVE  /\ readable => ReadableAfter(d) /\ UnreadAfter(d) \in {unread + d, McuTimeout}
         /\ ~readable /\ coming # Off /\ ReadableAfter(d) =>
              UnreadAfter(d) \in {d - coming, McuTimeout}
         /\ ~readable /\ coming # Off /\ ~ReadableAfter(d) =>
              ComingAfter(d) = coming - d /\ ComingAfter(d) # Off /\ coming > d
BY Constants DEF TypeOK, ReadableAfter, UnreadAfter, ComingAfter, Arrives, Later, Off

(* Time passes: neither side of the balance loses more than the other.     *)
LEMMA AnswerAfter ==
  ASSUME TypeOK, AnswerInv, connected, alive, left["wait"] # Off, NEW d \in Nat,
         left'["wait"] = Later(left["wait"], d),
         readable' = ReadableAfter(d), unread' = UnreadAfter(d),
         ~ReadableAfter(d) /\ ComingAfter(d) # Off => coming' = ComingAfter(d)
  PROVE  AnswerInv'
<1>1. /\ left["wait"] \in Nat /\ McuTimeout \in Nat /\ Reply \in Nat
      /\ unread \in Nat /\ coming \in Nat \cup {Off}
  BY Constants DEF TypeOK, Timer
<1>2. left'["wait"] \in Nat /\ left'["wait"] >= left["wait"] - d
  BY <1>1, WaitLoss
<1>3. CASE readable
  <2>1. left["wait"] + unread >= McuTimeout - Reply
    BY <1>3 DEF AnswerInv
  <2>2. readable' /\ unread' \in {unread + d, McuTimeout}
    BY <1>3, ArrivalFacts
  <2>3. left'["wait"] + unread' >= McuTimeout - Reply
    BY <1>1, <1>2, <2>1, <2>2
  <2> QED BY <2>2, <2>3 DEF AnswerInv
<1>4. CASE ~readable
  <2>1. coming # Off /\ coming \in Nat /\ left["wait"] >= McuTimeout - Reply + coming
    BY <1>1, <1>4 DEF AnswerInv
  <2>2. CASE readable'
    <3>1. unread' \in {d - coming, McuTimeout}
      BY <1>4, <2>1, <2>2, ArrivalFacts
    <3>2. left'["wait"] + unread' >= McuTimeout - Reply
      BY <1>1, <1>2, <2>1, <3>1
    <3> QED BY <2>2, <3>2 DEF AnswerInv
  <2>3. CASE ~readable'
    <3>1. coming' = coming - d /\ coming' # Off
      BY <1>4, <2>1, <2>3, ArrivalFacts
    <3>2. left'["wait"] >= McuTimeout - Reply + coming'
      BY <1>1, <1>2, <2>1, <3>1
    <3> QED BY <2>3, <3>1, <3>2 DEF AnswerInv
  <2> QED BY <2>2, <2>3
<1> QED BY <1>3, <1>4

LEMMA ComingBounds ==
  ASSUME ComingInv, NEW d \in Nat
  PROVE  ComingAfter(d) \in (1 .. Reply) \cup {Off}
BY Constants DEF ComingInv, ComingAfter, Arrives, Later, Off

LEMMA ComingStep ==
  ASSUME TypeOK, ComingInv, [Next]_vars
  PROVE  ComingInv'
<1>1. \A d \in Durations : ComingAfter(d) \in (1 .. Reply) \cup {Off}
  BY ComingBounds, Constants
<1>2. CASE SfpTimer
  BY <1>1, <1>2 DEF SfpTimer, ComingInv
<1>3. CASE StatusTimer
  <2>1. \E d \in Durations : coming' \in 1 .. Reply \/ coming' = ComingAfter(d)
    BY <1>3 DEF StatusTimer
  <2>2. QED
    BY <1>1, <2>1 DEF ComingInv
<1>4. CASE Sleep
  BY <1>4, ComingBounds DEF Sleep, ComingInv
<1>5. CASE WaitReplyTimer \/ EndPass \/ ServeSerial \/ ServeOther \/ Wake \/ McuDies
           \/ UNCHANGED vars
  <2>1. coming' = coming \/ coming' = Off
    BY <1>5 DEF WaitReplyTimer, EndPass, ServeSerial, ServeOther, Wake, McuDies, vars
  <2>2. QED
    BY <2>1 DEF ComingInv
<1>6. QED
  BY <1>2, <1>3, <1>4, <1>5 DEF Next

LEMMA SfpAnswer ==
  ASSUME TypeOK, AnswerInv, SfpTimer, connected, alive, left'["wait"] # Off
  PROVE  AnswerInv'
<1>1. PICK d \in Durations :
        /\ coming' = ComingAfter(d) /\ readable' = ReadableAfter(d)
        /\ unread' = UnreadAfter(d)
        /\ left' = [LeftAfter(d) EXCEPT !["sfp"] = SfpInterval]
  BY DEF SfpTimer
<1>2. d \in Nat
  BY Constants
<1>3. left'["wait"] = Later(left["wait"], d)
  BY <1>1, <1>2, LeftAfterFacts DEF TypeOK, Timer
<1>4. left["wait"] # Off
  BY <1>2, <1>3 DEF Later
<1> QED BY <1>1, <1>2, <1>3, <1>4, AnswerAfter

LEMMA Margins ==
  \A t, r \in Nat : /\ \A u \in Nat : t + u >= t - r
                    /\ \A c \in Int : c <= r => t >= t - r + c
OBVIOUS

(* The status timer asks anew when nothing is under way.                   *)
LEMMA StatusAnswer ==
  ASSUME TypeOK, ComingInv, AnswerInv, StatusTimer, connected', alive
  PROVE  AnswerInv'
<1>1. PICK d \in Durations :
        /\ left' = [LeftAfter(d) EXCEPT
                     !["status"] = RefreshInterval,
                     !["wait"] = IF left["wait"] = Off THEN McuTimeout ELSE @]
        /\ readable' = ReadableAfter(d) /\ unread' = UnreadAfter(d)
        /\ IF alive /\ ComingAfter(d) = Off THEN coming' \in 1 .. Reply
                                           ELSE coming' = ComingAfter(d)
        /\ connected
  BY DEF StatusTimer
<1>2. d \in Nat
  BY Constants
<1>3. left'["wait"] = IF left["wait"] = Off THEN McuTimeout ELSE Later(left["wait"], d)
  BY <1>1, <1>2, LeftAfterFacts DEF TypeOK, Timer
<1>4. CASE left["wait"] # Off
  BY <1>1, <1>2, <1>3, <1>4, AnswerAfter
<1>5. CASE left["wait"] = Off
  <2>1. left'["wait"] = McuTimeout /\ McuTimeout \in Nat /\ Reply \in Nat
    BY <1>3, <1>5, Constants
  <2>2. CASE readable'
    <3>1. unread' \in Nat
      BY <1>1, <1>2, UnreadFacts, Constants
    <3>2. McuTimeout + unread' >= McuTimeout - Reply
      BY <2>1, <3>1, Margins
    <3> QED BY <2>1, <2>2, <3>2 DEF AnswerInv
  <2>3. CASE ~readable'
    <3>1. coming' # Off /\ coming' \in Int /\ coming' <= Reply
      <4>1. CASE ComingAfter(d) = Off
        BY <1>1, <2>1, <4>1 DEF Off
      <4>2. CASE ComingAfter(d) # Off
        <5>1. coming' = ComingAfter(d) /\ coming' \in Nat /\ coming' <= coming /\ coming # Off
          BY <1>1, <1>2, <4>2 DEF TypeOK, ComingAfter, Arrives, Later, Off
        <5> QED BY <2>1, <4>2, <5>1 DEF ComingInv, Off
      <4> QED BY <4>1, <4>2
    <3>2. McuTimeout >= McuTimeout - Reply + coming'
      BY <2>1, <3>1, Margins
    <3> QED BY <2>1, <2>3, <3>1, <3>2 DEF AnswerInv
  <2> QED BY <2>2, <2>3
<1> QED BY <1>4, <1>5

LEMMA SleepAnswer ==
  ASSUME TypeOK, AnswerInv, Sleep, connected, alive, left'["wait"] # Off
  PROVE  AnswerInv'
<1>1. /\ left'["wait"] = Later(left["wait"], 1)
      /\ coming' = ComingAfter(1) /\ readable' = ReadableAfter(1) /\ unread' = UnreadAfter(1)
  BY SleepFacts DEF Sleep, Timer
<1>2. left["wait"] # Off
  BY <1>1 DEF Later
<1> QED BY <1>1, <1>2, AnswerAfter

LEMMA AnswerStep ==
  ASSUME TypeOK, ComingInv, AnswerInv, [Next]_vars
  PROVE  AnswerInv'
<1> SUFFICES ASSUME connected', alive', left'["wait"] # Off PROVE AnswerInv'
  BY DEF AnswerInv
<1>1. CASE SfpTimer
  <2>1. connected /\ alive
    BY <1>1 DEF SfpTimer
  <2>2. QED
    BY <1>1, <2>1, SfpAnswer
<1>2. CASE StatusTimer
  <2>1. alive
    BY <1>2 DEF StatusTimer
  <2>2. QED
    BY <1>2, <2>1, StatusAnswer
<1>3. CASE WaitReplyTimer
  BY <1>3 DEF WaitReplyTimer
<1>4. CASE ServeSerial
  <2>1. ~readable
    <3>1. readable => left' = [left EXCEPT !["wait"] = Off]
      BY <1>4 DEF ServeSerial
    <3>2. QED
      BY <3>1 DEF TypeOK, Timer
  <2>2. readable' = FALSE /\ UNCHANGED <<connected, left, alive, coming>>
    BY <1>4, <2>1 DEF ServeSerial
  <2>3. QED
    BY <2>1, <2>2 DEF AnswerInv
<1>5. CASE EndPass \/ ServeOther \/ Wake \/ UNCHANGED vars
  <2>1. UNCHANGED <<left, connected, alive, coming, readable, unread>>
    BY <1>5 DEF EndPass, ServeOther, Wake, vars
  <2>2. QED
    BY <2>1 DEF AnswerInv
<1>6. CASE Sleep
  <2>1. connected /\ alive
    BY <1>6 DEF Sleep
  <2>2. QED
    BY <1>6, <2>1, SleepAnswer
<1>7. CASE McuDies
  BY <1>7 DEF McuDies
<1>8. QED
  BY <1>1, <1>2, <1>3, <1>4, <1>5, <1>6, <1>7 DEF Next

LEMMA AnswerInit == Init => ComingInv /\ AnswerInv
BY DEF Init, ComingInv, AnswerInv

(* When the watchdog fires it has no time left: the report has had it all. *)
LEMMA AnswerSafe ==
  ASSUME TypeOK, TimerInv, AnswerInv, WaitReplyTimer, connected, alive
  PROVE  unread >= McuTimeout - Reply
<1>1. left["wait"] = 0 /\ left["wait"] # Off
  BY DEF WaitReplyTimer, TimerInv, Off
<1>2. McuTimeout \in Nat /\ Reply \in Nat /\ unread \in Nat
  BY Constants DEF TypeOK
<1>3. CASE readable
  BY <1>1, <1>2, <1>3 DEF AnswerInv
<1>4. CASE ~readable
  <2>1. coming \in Nat /\ 0 >= McuTimeout - Reply + coming
    BY <1>1, <1>4 DEF AnswerInv, TypeOK
  <2> QED BY <1>2, <2>1
<1> QED BY <1>3, <1>4

(* However long the SFP driver blocks the loop and whatever is due, served *)
(* or not written when: the watchdog takes an MCU that answers in time for *)
(* disconnected only after the loop has left its report unread for the     *)
(* time-out less the time the MCU may take.                                *)
THEOREM AlarmsExplained == Spec => AlarmsOnlyUnread
<1> DEFINE Inv == TypeOK /\ TimerInv /\ ComingInv /\ AnswerInv
<1>1. Init => Inv
  BY TypeInit, WatchdogInit, AnswerInit
<1>2. Inv /\ [Next]_vars => Inv'
  BY TypeStep, TimerInvStep, ComingStep, AnswerStep
<1>3. Inv /\ [Next]_vars =>
        [WaitReplyTimer /\ connected /\ alive => unread >= McuTimeout - Reply]_vars
  BY AnswerSafe
<1> HIDE DEF Inv
<1>4. QED
  BY <1>1, <1>2, <1>3, PTL DEF Spec, AlarmsOnlyUnread
=============================================================================
