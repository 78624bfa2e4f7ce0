-------------------------------- MODULE MCCron --------------------------------
(* Instances of Cron for TLC: the constants are small sets, given in the cfgs. *)
EXTENDS Cron
=============================================================================
