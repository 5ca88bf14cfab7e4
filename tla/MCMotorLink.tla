---------------------------- MODULE MCMotorLink ----------------------------
(* TLC instances of MotorLink: home, one more position in range and one    *)
(* that a move can reach although it is out of range.                      *)
EXTENDS MotorLink

CONSTANTS home, near, far

MCPosition == {home, near, far}
MCInRange  == {home, near}

(* Safety: whatever the module has.  Liveness: both sides reset and        *)
(* restart and the watchdog is wrong, but no message is lost or unwritten  *)
(* and, since no position matters there, storage works.                    *)
AllFaults   == {"mcu", "driver", "power", "set", "commit", "gpio", "write", "loss", "spurious"}
LiveFaults  == {"mcu", "driver", "gpio", "spurious"}
WriteFaults == {"write"}
=============================================================================
