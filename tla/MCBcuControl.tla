----------------------------- MODULE MCBcuControl -----------------------------
(***************************************************************************)
(* The control of one seat for TLC.  A run lets the driver visit some pages *)
(* and the control centre send some packages, so that the sessions in       *)
(* question meet while the others stay out of the way.                      *)
(***************************************************************************)
EXTENDS BcuControl

AllPackages == {"live_on", "live_off", "monitor_call", "monitor_exit",
                "d2p_on", "d2p_off"}
LiveKey == {"pa"}
CallKey == {"pc"}
DriverKey == {"cc"}
ListenPages == {"static", "car", "choose", "monitor"}
ListenPackages == {"monitor_call", "monitor_exit"}
AnnouncePackage == {"live_on"}
CallPages == {"static", "d2p", "d2d"}
DriverPages == {"static", "d2d"}
===============================================================================
