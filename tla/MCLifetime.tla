------------------------------ MODULE MCLifetime ------------------------------
(***************************************************************************)
(* Values for model-checking Lifetime: bursts that leave the watchdog's    *)
(* task its time, or do not; work of the priority of ReadSensors, which    *)
(* takes turns with the restart, or of the MPPT, which does not.           *)
(***************************************************************************)
EXTENDS Lifetime

MCBursts == {3, 5}
MCLoads  == {0, 2, 3}
MCHangs  == {2, 3, Off}
=============================================================================
