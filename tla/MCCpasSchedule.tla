--------------------------- MODULE MCCpasSchedule ---------------------------
(* Small instances of CpasSchedule for TLC.                                *)
EXTENDS CpasSchedule, TLC

(* Both modes, chosen when the service starts.                             *)
MCModes == {"production", "certification"}
=============================================================================
