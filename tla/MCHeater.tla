------------------------------ MODULE MCHeater ------------------------------
(***************************************************************************)
(* Values for model-checking Heater: a temperature on each limit and one   *)
(* between them, and the duty cycles 0, which stops the timer, and 255,    *)
(* which overflows it.  The registers start with the default 50.           *)
(***************************************************************************)
EXTENDS Heater

MCTemperatures == {200, 250, 305}
MCSettings     == {0, 255}
=============================================================================
