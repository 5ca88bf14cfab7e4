----------------------------- MODULE HardReset -----------------------------
(***************************************************************************)
(* koruza_hard_reset (koruza.c) over gpio.c: a pulse on the line that      *)
(* resets the MCU, made of writes to sysfs files.  What sysfs knows of the *)
(* pin outlives the process, which may die between any two writes.         *)
(***************************************************************************)
CONSTANT GpioFails   \* the operations of gpio.c that may fail for no reason of the pin's

ASSUME GpioFailsOK == GpioFails \subseteq {"export", "direction", "write", "unexport"}

VARIABLES
  step,       \* the next thing koruza_hard_reset does; "idle" before, "done" after it
  exported,   \* sysfs: the pin is exported
  driven,     \* the pin is an output ...
  high,       \* ... and high
  pulsed,     \* history: this process has raised and lowered the line
  failed,     \* history: an operation has failed for this process
  leftover    \* history: an earlier process left the pin exported

resetVars == <<step, exported, driven, high, pulsed, failed, leftover>>

Steps == {"idle", "export", "direction", "raise", "lower", "unexport", "done"}

(* The MCU is held in reset while the line is high. *)
Held == driven /\ high

ResetInit ==
  /\ step = "idle"
  /\ exported = FALSE /\ driven = FALSE /\ high = FALSE
  /\ pulsed = FALSE /\ failed = FALSE /\ leftover = FALSE

(* sysfs (external).  Unexporting makes the pin an input or leaves it as   *)
(* it is, as the pin controller likes.                                     *)
SysfsUnexport ==
  \/ /\ exported' = FALSE
     /\ \/ UNCHANGED <<driven, high>>
        \/ driven' = FALSE /\ high' = FALSE
     /\ UNCHANGED failed
  \/ /\ "unexport" \in GpioFails
     /\ failed' = TRUE
     /\ UNCHANGED <<exported, driven, high>>

Fails(op) ==
  /\ op \in GpioFails
  /\ failed' = TRUE
  /\ UNCHANGED <<driven, high>>

-----------------------------------------------------------------------------
(* gpio_export: the kernel refuses a pin that is exported already. *)
Export ==
  /\ step = "export"
  /\ \/ /\ ~exported /\ exported' = TRUE
        /\ step' = "direction"
        /\ UNCHANGED <<driven, high, failed>>
     \/ exported /\ step' = "done" /\ UNCHANGED <<exported, driven, high, failed>>
     \/ Fails("export") /\ step' = "done" /\ UNCHANGED exported
  /\ UNCHANGED <<pulsed, leftover>>

(* An operation after which the pin must be unexported: the failing exits  *)
(* of koruza_hard_reset do so and return.                                  *)
GiveUp(op) == Fails(op) /\ step' = "unexport" /\ UNCHANGED exported

(* gpio_direction: "out" starts low. *)
SetDirection ==
  /\ step = "direction"
  /\ \/ driven' = TRUE /\ high' = FALSE /\ step' = "raise" /\ UNCHANGED <<exported, failed>>
     \/ GiveUp("direction")
  /\ UNCHANGED <<pulsed, leftover>>

(* gpio_write(HIGH) and the delay *)
RaiseLine ==
  /\ step = "raise"
  /\ \/ high' = TRUE /\ step' = "lower" /\ UNCHANGED <<exported, driven, failed>>
     \/ GiveUp("write")
  /\ UNCHANGED <<pulsed, leftover>>

(* gpio_write(LOW) *)
LowerLine ==
  /\ step = "lower"
  /\ \/ /\ high' = FALSE /\ pulsed' = TRUE
        /\ step' = "unexport"
        /\ UNCHANGED <<exported, driven, failed>>
     \/ GiveUp("write") /\ UNCHANGED pulsed
  /\ UNCHANGED leftover

(* Faulty variant: returns without unexporting. *)
UnexportForgotten ==
  /\ step = "unexport"
  /\ step' = "done"
  /\ UNCHANGED <<exported, driven, high, pulsed, failed, leftover>>

(* gpio_unexport, whose result is ignored *)
Unexport ==
  /\ step = "unexport"
  /\ SysfsUnexport
  /\ step' = "done"
  /\ UNCHANGED <<pulsed, leftover>>

HardResetStep == Export \/ SetDirection \/ RaiseLine \/ LowerLine \/ Unexport

(* The process ends: sysfs keeps what it has. *)
ResetForgets ==
  /\ step' = "idle"
  /\ pulsed' = FALSE /\ failed' = FALSE
  /\ leftover' = (leftover \/ step \in {"direction", "raise", "lower", "unexport"} \/ (failed /\ exported))
  /\ UNCHANGED <<exported, driven, high>>

-----------------------------------------------------------------------------
ResetTypeOK ==
  /\ step \in Steps
  /\ {exported, driven, high, pulsed, failed, leftover} \subseteq BOOLEAN

(* koruza.c:220 "Perform a hard MCU reset": a start ends with the MCU      *)
(* having been reset and released, unless an operation has failed on the   *)
(* way or an earlier process has left the pin exported.                    *)
ResetsMcu == step = "done" /\ ~failed /\ ~leftover => pulsed /\ ~Held
=============================================================================
