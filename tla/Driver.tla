------------------------------- MODULE Driver -------------------------------
(***************************************************************************)
(* The life of the process: main.c and koruza_init call the parts in a     *)
(* fixed order, any call may end the process, procd starts it again, and   *)
(* then the event loop serves uBus and the timers.  What outlives the      *)
(* process is the configuration file and what sysfs knows of the pin.      *)
(***************************************************************************)
EXTENDS HardReset, Network, Calibration

VARIABLES
  stage,      \* the next call of main or koruza_init; "run" in the event loop
  ledsReady,  \* led_config.channel[0].leds is not NULL
  died,       \* history: the call that ended the last process by a fault
  path,       \* the configuration has the path of the camera's picture
  calm        \* nothing fails any more but the operations on the pin

vars == <<resetVars, netVars, calVars, stage, ledsReady, died, path, calm>>

Stages == {"down", "connect", "serial", "config", "delete", "leds", "reset",
           "status", "object", "network", "run"}

Init ==
  /\ ResetInit /\ NetworkStart /\ CalibrationStart
  /\ stage = "down" /\ ledsReady = FALSE /\ died = "nobody" /\ calm = FALSE
  /\ path \in BOOLEAN /\ (path => section)

(* The memory of the process is gone. *)
Ends ==
  /\ stage' = "down" /\ ledsReady' = FALSE
  /\ ResetForgets /\ NetworkForgets /\ CalibrationForgets(delta)
  /\ UNCHANGED <<path, calm>>

Exits == ~calm /\ Ends /\ died' = "nobody"
DiesIn(call) == Ends /\ died' = call

Goes(from, to) == stage = from /\ stage' = to /\ UNCHANGED <<died, path, calm>>

-----------------------------------------------------------------------------
(* procd starts the driver (external). *)
Respawn ==
  /\ stage = "down" /\ stage' = "connect"
  /\ died' = "nobody"
  /\ UNCHANGED <<resetVars, netVars, calVars, ledsReady, path, calm>>

(* main tries until ubusd answers. *)
UbusConnect ==
  /\ Goes("connect", "serial")
  /\ UNCHANGED <<resetVars, netVars, calVars, ledsReady>>

(* uci_alloc_context, serial_init *)
SerialInit ==
  \/ /\ Goes("serial", "config")
     /\ UNCHANGED <<resetVars, netVars, calVars, ledsReady>>
  \/ stage = "serial" /\ Exits

(* koruza_init, up to the LEDs *)
LoadConfig ==
  /\ \/ Goes("config", "leds") /\ LoadGlobal
     \/ Goes("config", "delete") /\ ConvertOld /\ (calm => disk' = conf')
  /\ UNCHANGED <<resetVars, netVars, ledsReady>>

EndConversion ==
  /\ Goes("delete", "leds")
  /\ DeleteOld
  /\ calm => disk' = conf'
  /\ UNCHANGED <<resetVars, netVars, ledsReady>>

(* ws2811_init allocates the LEDs; each of its error exits is before that  *)
(* or has freed them.                                                      *)
Ws2811Init ==
  \/ ledsReady' = TRUE
  \/ ~calm /\ ledsReady' = FALSE

(* A failure is only logged; then koruza_hard_reset starts. *)
LedsInit ==
  /\ Goes("leds", "reset")
  /\ Ws2811Init
  /\ step' = "export"
  /\ UNCHANGED <<exported, driven, high, pulsed, failed, leftover, netVars, calVars>>

Reset ==
  /\ stage = "reset"
  /\ HardResetStep
  /\ UNCHANGED <<netVars, calVars, stage, ledsReady, died, path, calm>>

(* Faulty variant: a failed reset ends the driver. *)
ResetDoneFatal ==
  /\ step = "done"
  /\ \/ /\ ~failed /\ Goes("reset", "status")
        /\ UNCHANGED <<resetVars, netVars, calVars, ledsReady>>
     \/ failed /\ stage = "reset" /\ DiesIn("reset")

(* Whether it worked or not, koruza_init goes on. *)
ResetDone ==
  /\ step = "done"
  /\ Goes("reset", "status")
  /\ UNCHANGED <<resetVars, netVars, calVars, ledsReady>>

(* koruza_update_status: the SFP module may have calibration data.  The    *)
(* LEDs are written whether they were set up or not.                       *)
UpdateStatus ==
  \/ /\ ledsReady
     /\ Goes("status", "object")
     /\ \/ UNCHANGED calVars
        \/ \E v \in Offset : SfpCalibration(v)
     /\ UNCHANGED <<resetVars, netVars, ledsReady>>
  \/ stage = "status" /\ ~ledsReady /\ DiesIn("koruza_update_sfp_leds")

UbusInit ==
  \/ /\ Goes("object", "network")
     /\ UNCHANGED <<resetVars, netVars, calVars, ledsReady>>
  \/ stage = "object" /\ Exits

(* A look for the address: what it finds.  It fails before the calm only. *)
Finds == {FoundNow} \cup {f \in {FoundNothing} : ~calm}

(* The socket may fail, or the look's double free end the process. *)
InitNetwork ==
  \/ /\ Goes("network", "run")
     /\ \/ NetworkSkipped
        \/ \E f \in Finds : NetworkInit(f)
     /\ UNCHANGED <<resetVars, calVars, ledsReady>>
  \/ stage = "network" /\ netConf.interface /\ Exits

-----------------------------------------------------------------------------
(* The event loop *)
Serving == stage = "run" /\ UNCHANGED <<resetVars, stage, ledsReady, died, path, calm>>

AnnounceTimer == Serving /\ Announce /\ UNCHANGED calVars

AddressTimer ==
  \/ Serving /\ (\E f \in Finds : RefreshAddress(f)) /\ UNCHANGED calVars
  \/ Serving /\ ~calm /\ CopyFails /\ UNCHANGED calVars
  \/ stage = "run" /\ refresh /\ Exits

UbusSetCalibration ==
  /\ Serving
  /\ \E v \in Offset : SetWebcamCalibration(v, {v})
  /\ calm => disk' = conf'
  /\ UNCHANGED netVars

UbusOtherCommit ==
  /\ Serving
  /\ OtherCommit
  /\ calm => disk' = conf'
  /\ UNCHANGED netVars

SfpTimer ==
  /\ Serving
  /\ \E v \in Offset : SfpCalibration(v)
  /\ UNCHANGED netVars

(* ubus_get_status hands camera_calibration.path, net_status.interface and *)
(* net_status.ip_address to blobmsg_add_string, which takes their length.  *)
(* An answer changes nothing.                                              *)
UbusGetStatus ==
  /\ stage = "run"
  /\ ~(path /\ NetworkPrintable)
  /\ DiesIn("ubus_get_status")

-----------------------------------------------------------------------------
(* The environment: the process is killed, the board loses power, the      *)
(* interface gets or loses its address, faults end.                        *)
Kill == stage # "down" /\ Exits

PowerLoss ==
  /\ ~calm
  /\ stage' = "down" /\ ledsReady' = FALSE /\ died' = "nobody"
  /\ step' = "idle" /\ exported' = FALSE /\ driven' = FALSE /\ high' = FALSE
  /\ pulsed' = FALSE /\ failed' = FALSE /\ leftover' = FALSE
  /\ NetworkForgets /\ CalibrationForgets(disk)
  /\ UNCHANGED <<path, calm>>

Lease == AddressChanges /\ UNCHANGED <<resetVars, calVars, stage, ledsReady, died, path, calm>>

Calms ==
  /\ ~calm /\ calm' = TRUE
  /\ UNCHANGED <<resetVars, netVars, calVars, stage, ledsReady, died, path>>

Boot == \/ Respawn \/ UbusConnect \/ SerialInit \/ LoadConfig \/ EndConversion \/ LedsInit
        \/ Reset \/ ResetDone \/ UpdateStatus \/ UbusInit \/ InitNetwork

Next ==
  \/ Boot
  \/ AnnounceTimer \/ AddressTimer
  \/ UbusSetCalibration \/ UbusOtherCommit \/ SfpTimer \/ UbusGetStatus
  \/ Kill \/ PowerLoss \/ Lease \/ Calms

(* The process runs, procd respawns it, and the loop serves its timers.    *)
(* Nothing obliges a client to call or a fault to happen.                  *)
Spec == Init /\ [][Next]_vars /\ WF_vars(Boot) /\ WF_vars(AddressTimer)

-----------------------------------------------------------------------------
TypeOK ==
  /\ ResetTypeOK /\ NetworkTypeOK /\ CalibrationTypeOK
  /\ stage \in Stages
  /\ {ledsReady, path, calm} \subseteq BOOLEAN
  /\ died \in {"nobody", "koruza_update_sfp_leds", "ubus_get_status"}

(* camera_calibration.offset_x: through crashes, failed commits and the    *)
(* conversion of an old configuration the running driver shows an offset   *)
(* that was set last, or one it may have lost to a failed commit, up to    *)
(* the rounding of one conversion; unless the SFP module has one of its    *)
(* own or there is no section to save it in.                               *)
CalibrationKept == stage \in {"leds", "reset", "status", "object", "network", "run"} => ShowsWanted

(* ubus_get_status ends the driver only when an option it prints is not    *)
(* configured, this start found no address or memory ran out for a new     *)
(* one: that the interface loses its address later does not.               *)
StatusAnswers ==
  [][stage = "run" /\ path /\ foundAtStart /\ stage' = "down" => died' # "ubus_get_status"]_vars

(* network_update_local_address: an address the interface keeps is taken   *)
(* over in the end, whatever looks have failed before.                     *)
AddressFollows ==
  \A a \in Address :
    <>[](calm /\ stage = "run" /\ hostAddress = a) => <>[](interface => ip = a)

(* main and koruza_init: once faults end, a driver that is configured and  *)
(* has an address gets to its event loop and stays there, although the     *)
(* reset of the MCU may still fail.                                        *)
ComesUp ==
  <>[](calm /\ path /\ netConf.interface /\ hostAddress # NoAddress) => <>[](stage = "run")
=============================================================================
