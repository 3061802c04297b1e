------------------------------- MODULE MCRtd -------------------------------
(***************************************************************************)
(* Values for model-checking Rtd: the two tasks that read RTDs, with the   *)
(* order of their priorities, and two channels.  A tick stands for the     *)
(* 25 ms of a conversion at 40 samples per second.                         *)
(***************************************************************************)
EXTENDS Rtd

MCTasks    == {"sensors", "heater"}
MCPriority == [sensors |-> 2, heater |-> 3]
MCChannels == {4, 5}
=============================================================================
