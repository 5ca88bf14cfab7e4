----------------------------- MODULE MCWatchdog -----------------------------
(* TLC instances of Watchdog: the descriptors beside the motors' one, and  *)
(* an SFP driver that answers, is slow or takes nearly the time-outs of    *)
(* one, two or all three calls of update_sfp.                              *)
EXTENDS Watchdog

CONSTANTS ubus, accel, net

MCOtherFds  == {ubus, accel, net}
MCDurations == {0, 1, 10, 20, 30}
=============================================================================
