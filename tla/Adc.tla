-------------------------------- MODULE Adc --------------------------------
(***************************************************************************)
(* Reading the internal ADC (drivers/adc/adc.c) under its mutex            *)
(* (drivers/adc/adc_mutex.c), as current_sensor_read, voltage_sensor_read  *)
(* and temp_mcu_read_raw do: take, read, give, whatever the take returned. *)
(*                                                                         *)
(* The readers are tasks of different priorities (ReadSensors, the MPPT    *)
(* task); a task that waits for the mutex, or for the ADC with             *)
(* adc_delay_ms, lets the others run.  Time passes in ticks, and only when *)
(* every task waits: the processor is taken to be fast.  The converter of  *)
(* a behaviour takes at most a number of ticks that is chosen from         *)
(* ConversionTimes in the beginning.  A task makes at most ReadsPerPeriod  *)
(* reads in a row, then sleeps until its next period.                      *)
(*                                                                         *)
(* The mutex is that of FreeRTOS (freertos/queue.c, freertos/tasks.c): a   *)
(* task that gives a free mutex does nothing, one that gives the mutex of  *)
(* another fails an assertion, which disables the interrupts and loops.    *)
(* How it makes tasks wait is in KernelMutex; both implement MutexService. *)
(***************************************************************************)
EXTENDS Integers

CONSTANTS
    Tasks,
    Ports,
    ADC_MUTEX_WAIT_TIME_MS,     \* in ticks
    ADC_TIMOUT_MS,              \* in ticks
    ConversionTimes,            \* in ticks
    ReadsPerPeriod

ASSUME AdcAssumption ==
    /\ ADC_MUTEX_WAIT_TIME_MS \in Nat \ {0}
    /\ ADC_TIMOUT_MS \in Nat \ {0}
    /\ ConversionTimes \subseteq Nat
    /\ ReadsPerPeriod \in Nat \ {0}

None == "none"

VARIABLES
    holder,     \* the task that holds the mutex, or None
    pc,         \* where each task is in its read
    port,       \* the port each task reads
    timer,      \* the ticks it has waited where it is
    reads,      \* the reads it has begun since it last slept
    adc,        \* the conversion under way: who began it, where, and its age
    ifg,        \* the ports whose interrupt flag is set
    memory,     \* per port, the task whose read the result in its conversion
                \* memory belongs to, None when that read is over
    result,     \* the outcome of each task's last read
    halted,     \* the assertion failed
    slowest     \* the ticks the longest conversion takes

taskVars == <<pc, port, timer, reads, result>>
hardware == <<adc, ifg, memory, slowest>>
vars == <<holder, taskVars, hardware, halted>>

NoConversion == [by |-> None, port |-> None, age |-> 0]

ASSUME NamesAssumption == None \notin Tasks /\ None \notin Ports

Init ==
    /\ holder = None /\ halted = FALSE
    /\ pc = [t \in Tasks |-> "idle"]
    /\ port \in [Tasks -> Ports]
    /\ timer = [t \in Tasks |-> 0]
    /\ reads = [t \in Tasks |-> 0]
    /\ result = [t \in Tasks |-> "none"]
    /\ adc = NoConversion /\ ifg = {}
    /\ memory = [p \in Ports |-> None]
    /\ slowest \in ConversionTimes

Busy == adc # NoConversion

\* Task t goes on at a place where it has not waited yet.
Goto(t, place) ==
    /\ pc' = [pc EXCEPT ![t] = place]
    /\ timer' = [timer EXCEPT ![t] = 0]

-----------------------------------------------------------------------------
(* A read.                                                                 *)

Request(t) ==
    /\ pc[t] = "idle" /\ reads[t] < ReadsPerPeriod
    /\ reads' = [reads EXCEPT ![t] = @ + 1]
    /\ \E p \in Ports : port' = [port EXCEPT ![t] = p]
    /\ Goto(t, "take")
    /\ UNCHANGED <<holder, result, hardware>>

\* adc_mutex_take
Take(t) ==
    /\ pc[t] = "take" /\ holder = None
    /\ holder' = t
    /\ Goto(t, "busy")
    /\ UNCHANGED <<port, reads, result, hardware>>

\* adc_mutex_take returns false, and the caller reads all the same.
TakeTimeout(t) ==
    /\ pc[t] = "take" /\ holder # None /\ timer[t] = ADC_MUTEX_WAIT_TIME_MS
    /\ Goto(t, "busy")
    /\ UNCHANGED <<holder, port, reads, result, hardware>>

\* adc_read finds the ADC free.
FindFree(t) ==
    /\ pc[t] = "busy" /\ ~Busy /\ timer[t] < ADC_TIMOUT_MS
    /\ Goto(t, "start")
    /\ UNCHANGED <<holder, port, reads, result, hardware>>

\* Mutant: the mutex is given back as soon as the conversion runs.
BugStartConversion(t) ==
    /\ pc[t] = "start"
    /\ adc' = [by |-> t, port |-> port[t], age |-> 0]
    /\ Goto(t, "convert")
    /\ holder' = None
    /\ UNCHANGED <<port, reads, result, ifg, memory, slowest>>

\* ADC12_A_startConversion: a conversion under way is lost.
StartConversion(t) ==
    /\ pc[t] = "start"
    /\ adc' = [by |-> t, port |-> port[t], age |-> 0]
    /\ Goto(t, "convert")
    /\ UNCHANGED <<holder, port, reads, result, ifg, memory, slowest>>

\* Mutant: a read that times out returns without giving the mutex.
BugReadTimeout(t) ==
    /\ pc[t] \in {"busy", "convert"} /\ timer[t] = ADC_TIMOUT_MS
    /\ result' = [result EXCEPT ![t] = "failed"]
    /\ Goto(t, "idle")
    /\ UNCHANGED <<holder, port, reads, hardware>>

\* Mutant: the flag is left set.
BugCollect(t) ==
    /\ pc[t] = "convert" /\ port[t] \in ifg /\ timer[t] < ADC_TIMOUT_MS
    /\ result' = [result EXCEPT ![t] = IF memory[port[t]] = t THEN "own"
                                       ELSE "stale"]
    /\ Goto(t, "give")
    /\ UNCHANGED <<holder, port, reads, adc, ifg, memory, slowest>>

\* The flag of the port is set: ADC12_A_getResults, then ADC12_A_clearInterrupt
\* for every port.
Collect(t) ==
    /\ pc[t] = "convert" /\ port[t] \in ifg /\ timer[t] < ADC_TIMOUT_MS
    /\ result' = [result EXCEPT ![t] = IF memory[port[t]] = t THEN "own"
                                       ELSE "stale"]
    /\ ifg' = {}
    /\ Goto(t, "give")
    /\ UNCHANGED <<holder, port, reads, adc, memory, slowest>>

\* "Timeout reached", before or after the start of the conversion.
ReadTimeout(t) ==
    /\ pc[t] \in {"busy", "convert"} /\ timer[t] = ADC_TIMOUT_MS
    /\ result' = [result EXCEPT ![t] = "failed"]
    /\ Goto(t, "give")
    /\ UNCHANGED <<holder, port, reads, hardware>>

\* adc_mutex_give; what is still in the conversion memory, or under way, is
\* then the result of a read that is over.
Give(t) ==
    /\ pc[t] = "give" /\ holder \in {t, None}
    /\ holder' = None
    /\ memory' = [p \in Ports |-> IF memory[p] = t THEN None ELSE memory[p]]
    /\ adc' = IF adc.by = t THEN [adc EXCEPT !.by = None] ELSE adc
    /\ Goto(t, "idle")
    /\ UNCHANGED <<port, reads, result, ifg, slowest>>

Step(t) ==
    /\ ~halted /\ UNCHANGED halted
    /\ \/ Request(t) \/ Take(t) \/ TakeTimeout(t) \/ FindFree(t)
       \/ StartConversion(t) \/ Collect(t) \/ ReadTimeout(t) \/ Give(t)

\* "if a mutex is given by the holding task then it must be the running state
\* task" (freertos/tasks.c): configASSERT in xTaskPriorityDisinherit.
GiveAsserts(t) ==
    /\ ~halted
    /\ pc[t] = "give" /\ holder \notin {t, None}
    /\ halted' = TRUE
    /\ UNCHANGED <<holder, taskVars, hardware>>

\* configASSERT: taskDISABLE_INTERRUPTS(); for( ;; );
AssertLoop == halted /\ UNCHANGED vars

-----------------------------------------------------------------------------
(* The converter, and time.                                                *)

Convert ==
    /\ ~halted /\ Busy
    /\ memory' = [memory EXCEPT ![adc.port] = adc.by]
    /\ ifg' = ifg \cup {adc.port}
    /\ adc' = NoConversion
    /\ UNCHANGED <<holder, taskVars, halted, slowest>>

\* Mutant: the loops that poll the ADC do not count.
BugWaiting(t) ==
    \/ pc[t] = "take" /\ holder # None /\ timer[t] < ADC_MUTEX_WAIT_TIME_MS
    \/ pc[t] = "busy" /\ Busy
    \/ pc[t] = "convert" /\ port[t] \notin ifg

\* Task t is blocked on the mutex, or in adc_delay_ms.
Waiting(t) ==
    \/ pc[t] = "take" /\ holder # None /\ timer[t] < ADC_MUTEX_WAIT_TIME_MS
    \/ pc[t] = "busy" /\ Busy /\ timer[t] < ADC_TIMOUT_MS
    \/ pc[t] = "convert" /\ port[t] \notin ifg /\ timer[t] < ADC_TIMOUT_MS

Tick ==
    /\ ~halted
    /\ \A t \in Tasks : pc[t] = "idle" \/ Waiting(t)
    /\ Busy => adc.age < slowest
    /\ adc' = IF Busy THEN [adc EXCEPT !.age = @ + 1] ELSE adc
    /\ timer' = [t \in Tasks |-> IF Waiting(t) THEN timer[t] + 1 ELSE timer[t]]
    /\ reads' = [t \in Tasks |-> IF pc[t] = "idle" THEN 0 ELSE reads[t]]
    /\ UNCHANGED <<holder, pc, port, result, ifg, memory, halted, slowest>>

Next == Convert \/ Tick \/ AssertLoop
        \/ \E t \in Tasks : Step(t) \/ GiveAsserts(t)

Spec == Init /\ [][Next]_vars

-----------------------------------------------------------------------------
(* Properties.                                                             *)

LongestWait == IF ADC_MUTEX_WAIT_TIME_MS > ADC_TIMOUT_MS
               THEN ADC_MUTEX_WAIT_TIME_MS ELSE ADC_TIMOUT_MS

Conversions == [by : Tasks \cup {None}, port : Ports, age : 0..slowest]

\* Every variable has its type; no wait is longer than its timeout
\* (adc_mutex_take, adc_read).
TypeOK ==
    /\ holder \in Tasks \cup {None} /\ halted \in BOOLEAN
    /\ pc \in [Tasks -> {"idle", "take", "busy", "start", "convert", "give"}]
    /\ port \in [Tasks -> Ports] /\ timer \in [Tasks -> 0..LongestWait]
    /\ reads \in [Tasks -> 0..ReadsPerPeriod]
    /\ result \in [Tasks -> {"none", "own", "stale", "failed"}]
    /\ adc \in Conversions \cup {NoConversion}
    /\ ifg \subseteq Ports
    /\ memory \in [Ports -> Tasks \cup {None}]
    /\ slowest \in ConversionTimes

Reading(t) == pc[t] \in {"busy", "start", "convert", "give"}

\* All that the other of the two readers may read in a row is shorter than the
\* timeout of the mutex.
Prompt == slowest * ReadsPerPeriod < ADC_MUTEX_WAIT_TIME_MS

\* With a prompt converter two tasks are never at the ADC together: the mutex
\* "holds the resource (ADC module)" (drivers/adc/adc.h), although no reader
\* heeds that its take has timed out.
Exclusive ==
    Prompt => \A t, u \in Tasks : Reading(t) /\ Reading(u) => t = u

\* With a prompt converter what a read returns is the conversion it started,
\* not that of an earlier read (adc_read); a slow one leaves the late result
\* of a read that has timed out to the next read of the port.
OwnResult == Prompt => \A t \in Tasks : result[t] # "stale"

\* With a prompt converter the assertion of xTaskPriorityDisinherit holds: no
\* task gives the mutex of another (adc_mutex_give after every read).
NeverHalts == Prompt => ~halted

\* The mutex is held only by a task that is in its read, and so comes free
\* with it, however many waits for it have timed out.
HeldByReader == holder # None => Reading(holder)

\* To the mutex a reader is in or refused from its take to its give.
StatusOf(t) == IF pc[t] = "idle" THEN "out"
               ELSE IF pc[t] = "take" THEN "asking"
               ELSE IF holder = t THEN "in" ELSE "refused"

Status == [t \in Tasks |-> StatusOf(t)]

Mutex == INSTANCE MutexService WITH owner <- holder, status <- Status

\* What Adc takes of the mutex is what the kernel's implements, and a read
\* that fails, or never had the mutex, does not disturb it, however slow the
\* converter: only a grant makes a task the owner, and only its own give ends
\* that (adc_mutex_take, adc_mutex_give).
ImplementsMutex == Mutex!Spec
=============================================================================
