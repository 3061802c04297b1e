------------------------------- MODULE MCAdc -------------------------------
(***************************************************************************)
(* Values for model-checking Adc: the two tasks that read the ADC at the   *)
(* same time and two ports.  A tick stands for 33 ms, three for the 100 ms *)
(* of ADC_MUTEX_WAIT_TIME_MS and ADC_TIMOUT_MS.                            *)
(***************************************************************************)
EXTENDS Adc

MCTasks == {"sensors", "mppt"}
MCPorts == {"p1", "p2"}

MCConversionTimes == {1, 5}
=============================================================================
