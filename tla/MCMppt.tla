------------------------------- MODULE MCMppt -------------------------------
(***************************************************************************)
(* Values for model-checking Mppt: panels whose power has one maximum, at  *)
(* a duty cycle the light decides, the same for the three channels.  From  *)
(* the maximum on the PWM is always on.  Telecommands set it, or more.     *)
(***************************************************************************)
EXTENDS Mppt

Distance(x, y) == IF x < y THEN y - x ELSE x - y

\* "dark" stands for a sensor that does not answer.
Peak == [noon |-> MPPT_DUTY_CYCLE_INIT, hot |-> MPPT_MAX_DUTY_CYCLE]

OnTime(d) == IF d > MPPT_MAX_DUTY_CYCLE THEN MPPT_MAX_DUTY_CYCLE ELSE d

HillPower(l, c, d) ==
    IF l = "dark" THEN {} ELSE {600 - 2 * Distance(OnTime(d), Peak[l])}

DayLights  == {"noon", "hot", "dark"}
MCSettings == {MPPT_MAX_DUTY_CYCLE, MPPT_MAX_DUTY_CYCLE + 2}
=============================================================================
