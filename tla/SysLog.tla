------------------------------- MODULE SysLog -------------------------------
(***************************************************************************)
(* The system log (sys_log.c, sys_log_mutex.c): a line is begun by         *)
(* sys_log_print_event, which takes the mutex of the log and ignores       *)
(* whether it got it, goes on over several calls, and is ended by          *)
(* sys_log_new_line, which gives the mutex.  The mutex is the kernel's.    *)
(*                                                                         *)
(* Tasks log one line after the other; all messages of the firmware are    *)
(* at or above the level that is printed.  A piece of text is what comes   *)
(* out of the UART between two switches of tasks.  No task blocks within a *)
(* line: of the delays of KernelMutex those of a holder are the ADC's.     *)
(***************************************************************************)
EXTENDS KernelMutex

VARIABLES
    line,   \* the pieces of the last line on the UART
    ended   \* the task has printed its end of line and has yet to give

logVars == <<line, ended>>

Pieces == [by : Tasks, locked : BOOLEAN, last : BOOLEAN]

LogTypeOK ==
    /\ TypeOK
    /\ line \subseteq Pieces
    /\ ended \in [Tasks -> BOOLEAN]

LogInit ==
    /\ Init
    /\ line = {}
    /\ ended = [t \in Tasks |-> FALSE]

\* sys_log_print_msg and its kind; with last the "\n\r" of sys_log_new_line.
PrintText(t, last) ==
    /\ Running(t)
    /\ pc[t] \in {"in", "refused"}
    /\ ~ended[t]
    /\ LET piece == [by |-> t, locked |-> pc[t] = "in", last |-> last]
       IN line' = IF \E p \in line : p.last THEN {piece} ELSE line \cup {piece}
    /\ ended' = [ended EXCEPT ![t] = last]
    /\ UNCHANGED vars

\* The sys_log_mutex_give of sys_log_new_line.
GiveLine(t) ==
    /\ ended[t]
    /\ Give(t)
    /\ ended' = [ended EXCEPT ![t] = FALSE]
    /\ UNCHANGED line

\* sys_log_mutex_take, in sys_log_print_event.
Begin(t) == Call(t) \/ TakeStep(t)

\* The vTaskDelay of a task's loop.
Rest(t) == pc[t] = "out" /\ Delay(t)

LogNext ==
    \/ (Tick \/ \E t \in Tasks : Rest(t) \/ Begin(t)) /\ UNCHANGED logVars
    \/ \E t \in Tasks : GiveLine(t) \/ \E last \in BOOLEAN : PrintText(t, last)

LogSpec == LogInit /\ [][LogNext]_<<vars, logVars>>

\* The timer ticks, and the tasks it may switch to take turns.  A task that
\* runs again and again goes on with its call.
LogFairness ==
    /\ WF_vars(Tick)
    /\ \A t \in Tasks : SF_vars(Tick /\ current' = t) /\ SF_vars(TakeStep(t))

FairLogSpec == LogSpec /\ LogFairness
-----------------------------------------------------------------------------
\* A line is mixed only by a task whose wait for the mutex has timed out: the
\* pieces printed with the mutex are of one task.
LinesWhole ==
    \A p, q \in line : p.locked /\ q.locked => p.by = q.by
=============================================================================
