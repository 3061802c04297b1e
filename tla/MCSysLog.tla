------------------------------ MODULE MCSysLog ------------------------------
(***************************************************************************)
(* Values for model-checking SysLog: three tasks with their priorities.    *)
(***************************************************************************)
EXTENDS SysLog

MCTasks == {"sensors", "heater", "mppt"}

MCBase == [t \in MCTasks |-> IF t = "sensors" THEN 2 ELSE 3]
=============================================================================
