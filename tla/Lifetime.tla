------------------------------- MODULE Lifetime -------------------------------
(***************************************************************************)
(* From one reset of the processor to the next: the watchdog               *)
(* (drivers/wdt/wdt.c) and the task of the lowest priority that resets it, *)
(* the task that restarts the system after a period, and the delays of the *)
(* kernel they sleep in.                                                   *)
(*                                                                         *)
(* The other tasks are the load: at each moment work of some priority may  *)
(* have the processor, and no work keeps the watchdog's task from its      *)
(* round for longer than a time that is chosen from Bursts at the start of *)
(* a behaviour, unless a task hangs.  A task hangs that polls a peripheral *)
(* which does not answer; a failed assertion hangs with the interrupts     *)
(* disabled, so that the kernel's ticks stop and only the watchdog counts. *)
(***************************************************************************)
EXTENDS Integers

CONSTANTS
    configTICK_RATE_HZ,
    TASK_WATCHDOG_RESET_PERIOD_MS,
    TASK_SYSTEM_RESET_PERIOD_MS,
    WdtTicks,       \* the interval of the watchdog, in ticks
    Bursts,         \* in ticks
    Loads,          \* the priorities of other work, 0 when there is none
    Hangs           \* the priorities of tasks that may hang, and Off

Off == 6            \* above all priorities: the interrupts are disabled

Half == 65536

\* pdMS_TO_TICKS: the product is taken modulo 2^32, here by its two halves.
pdMS_TO_TICKS(ms) ==
    LET low  == (ms % Half) * configTICK_RATE_HZ
        high == ((ms \div Half) * configTICK_RATE_HZ + (low \div Half)) % Half
    IN  (high \div 1000) * Half + ((high % 1000) * Half + (low % Half)) \div 1000

KickTicks    == pdMS_TO_TICKS(TASK_WATCHDOG_RESET_PERIOD_MS)
RestartTicks == pdMS_TO_TICKS(TASK_SYSTEM_RESET_PERIOD_MS)

ASSUME LifetimeAssumption ==
    /\ configTICK_RATE_HZ \in Nat
    /\ TASK_WATCHDOG_RESET_PERIOD_MS \in Nat
    /\ TASK_SYSTEM_RESET_PERIOD_MS \in Nat
    /\ WdtTicks \in Nat \ {0} /\ Bursts \subseteq Nat
    /\ Loads \subseteq 0..5 /\ 0 \in Loads
    /\ Hangs \subseteq 2..Off

\* configASSERT( xTimeIncrement > 0U ) in vTaskDelayUntil; vTaskDelay skips a
\* delay of 0.
ASSUME PeriodsAssumption == KickTicks > 0 /\ RestartTicks > 0

VARIABLES
    dog,        \* the ticks the watchdog has counted
    tick,       \* xTickCount
    pc,         \* where each task is
    wake,       \* when it wakes, if it sleeps
    last_cycle, \* of the watchdog's task
    load,       \* the priority of the other work that has the processor
    busy,       \* the ticks it has had it since all tasks slept
    longest,    \* and may have it
    hung,       \* the priority of the task that hangs, 0 if none does
    hungFor     \* the time it has

tasks == <<pc, wake, last_cycle>>
world == <<load, busy, longest, hung, hungFor>>
vars == <<dog, tick, tasks, world>>

Tasks == {"watchdog", "restart"}

Priority == [t \in Tasks |-> IF t = "watchdog" THEN 1 ELSE 2]

\* What a reset of the processor sets: watchdog_init and create_tasks.
Booted(dog0, tick0, pc0, wake0, last0, busy0, hung0, hungFor0) ==
    /\ dog0 = 0 /\ tick0 = 0
    /\ pc0 = [t \in Tasks |-> IF t = "watchdog" THEN "loop" ELSE "start"]
    /\ wake0 = [t \in Tasks |-> 0] /\ last0 = 0
    /\ busy0 = 0 /\ hung0 = 0 /\ hungFor0 = 0

Init ==
    /\ Booted(dog, tick, pc, wake, last_cycle, busy, hung, hungFor)
    /\ load \in Loads /\ longest \in Bursts

Reset ==
    /\ Booted(dog', tick', pc', wake', last_cycle', busy', hung', hungFor')
    /\ load' \in Loads /\ UNCHANGED longest

-----------------------------------------------------------------------------
(* Tasks.                                                                  *)

\* Tasks of the priority of the work take turns with it.
CanRun(t) == pc[t] # "asleep" /\ Priority[t] >= load /\ Priority[t] >= hung

Goto(t, place) == pc' = [pc EXCEPT ![t] = place]

\* prvAddCurrentTaskToDelayedList
SleepUntil(t, time) ==
    /\ Goto(t, "asleep")
    /\ wake' = [wake EXCEPT ![t] = time]

At(t, place) == pc[t] = place /\ CanRun(t)

\* last_cycle = xTaskGetTickCount()
ReadTick ==
    /\ At("watchdog", "loop") /\ Goto("watchdog", "work")
    /\ last_cycle' = tick
    /\ UNCHANGED <<dog, tick, wake, world>>

\* Mutant: the watchdog is not reset.
BugKick ==
    /\ At("watchdog", "work") /\ Goto("watchdog", "until")
    /\ UNCHANGED <<dog, tick, wake, last_cycle, world>>

\* watchdog_reset
Kick ==
    /\ At("watchdog", "work") /\ Goto("watchdog", "until")
    /\ dog' = 0
    /\ UNCHANGED <<tick, wake, last_cycle, world>>

\* vTaskDelayUntil: it does not sleep when the wake time has passed.
DelayUntil ==
    /\ At("watchdog", "until")
    /\ IF last_cycle + KickTicks > tick
       THEN SleepUntil("watchdog", last_cycle + KickTicks)
       ELSE Goto("watchdog", "loop") /\ UNCHANGED wake
    /\ UNCHANGED <<dog, tick, last_cycle, world>>

\* Mutant: the system is restarted before the delay.
BugAwaitRestart ==
    /\ At("restart", "start") /\ Goto("restart", "reset")
    /\ UNCHANGED <<dog, tick, wake, last_cycle, world>>

\* vTaskDelay in vTaskSystemReset.
AwaitRestart ==
    /\ At("restart", "start") /\ SleepUntil("restart", tick + RestartTicks)
    /\ UNCHANGED <<dog, tick, last_cycle, world>>

\* system_reset.  The line on the log before it, and a wait for that line, is
\* part of the time other work takes.
Restart == At("restart", "reset") /\ Reset

Step == ReadTick \/ Kick \/ DelayUntil \/ AwaitRestart \/ Restart

-----------------------------------------------------------------------------
(* The other work, and time.                                               *)

\* Other work gets or leaves the processor.
SetLoad(l) ==
    /\ hung < Off /\ l # load
    /\ load' = l
    /\ UNCHANGED <<dog, tick, tasks, busy, longest, hung, hungFor>>

\* A loop that polls a peripheral without a timeout, or a failed assertion.
Hang(p) ==
    /\ hung = 0
    /\ hung' = p
    /\ UNCHANGED <<dog, tick, tasks, load, busy, longest, hungFor>>

\* xTaskIncrementTick
IncrementTick ==
    /\ tick' = tick + 1
    /\ pc' = [t \in Tasks |->
                IF pc[t] = "asleep" /\ wake[t] = tick + 1
                THEN IF t = "watchdog" THEN "loop" ELSE "reset"
                ELSE pc[t]]

\* The ticks other work has had the processor, one later.
BusyNext == IF hung # 0 THEN busy ELSE IF load < 2 THEN 0 ELSE busy + 1

\* Mutant: the interrupt of the tick resets the watchdog.
BugElapse ==
    /\ dog < WdtTicks /\ \A t \in Tasks : ~CanRun(t)
    /\ hung = 0 /\ load >= 2 => busy < longest
    /\ dog' = IF hung = Off THEN dog + 1 ELSE 0
    /\ busy' = BusyNext
    /\ hungFor' = IF hung = 0 THEN 0 ELSE hungFor + 1
    /\ IF hung = Off THEN UNCHANGED <<tick, pc>> ELSE IncrementTick
    /\ UNCHANGED <<wake, last_cycle, load, longest, hung>>

\* The time of a tick goes by, when all tasks that can run have run.
Elapse ==
    /\ dog < WdtTicks /\ \A t \in Tasks : ~CanRun(t)
    /\ hung = 0 /\ load >= 2 => busy < longest
    /\ dog' = dog + 1
    /\ busy' = BusyNext
    /\ hungFor' = IF hung = 0 THEN 0 ELSE hungFor + 1
    /\ IF hung = Off THEN UNCHANGED <<tick, pc>> ELSE IncrementTick
    /\ UNCHANGED <<wake, last_cycle, load, longest, hung>>

\* The watchdog resets the processor.
Bite == dog = WdtTicks /\ Reset

Next == Step \/ Elapse \/ Bite
        \/ \E l \in Loads : SetLoad(l)
        \/ \E p \in Hangs : Hang(p)

Spec == Init /\ [][Next]_vars

-----------------------------------------------------------------------------
(* Properties.                                                             *)

Places == [t \in Tasks |-> IF t = "watchdog"
                           THEN {"loop", "work", "until", "asleep"}
                           ELSE {"start", "asleep", "reset"}]

\* Every variable has its type.
TypeOK ==
    /\ dog \in 0..WdtTicks /\ tick \in Nat
    /\ pc \in [Tasks -> {"start", "loop", "work", "until", "asleep", "reset"}]
    /\ \A t \in Tasks : pc[t] \in Places[t]
    /\ wake \in [Tasks -> Nat] /\ last_cycle \in Nat
    /\ load \in Loads /\ busy \in 0..longest /\ longest \in Bursts
    /\ hung \in Hangs \cup {0} /\ hungFor \in Nat

\* The other work leaves the task of the watchdog time for its round.
Prompt == KickTicks + longest < WdtTicks

\* The watchdog resets a system that leaves its task time only when a task
\* hangs: neither a preemption within the round (vTaskWatchdogReset) nor the
\* time Startup takes is enough.
BiteOnlyHung == Prompt /\ dog = WdtTicks => hung # 0

\* A hanging task of any priority above that of the watchdog's task, or a
\* failed assertion, lasts no longer than the interval of the watchdog.
HangShort == hungFor <= WdtTicks

Uptime == IF hung = Off THEN tick + hungFor ELSE tick

\* The system is restarted by its task when the ticks that vTaskSystemReset
\* delays for are over and not before, and no reset of another kind lets it be
\* up for longer by more than two bursts and an interval of the watchdog.
RestartsWhenDue ==
    /\ pc["restart"] # "start" => wake["restart"] >= RestartTicks
    /\ pc["restart"] = "reset" => tick >= wake["restart"]
    /\ Uptime <= RestartTicks + 2 * longest + WdtTicks

PeriodTicks == (TASK_SYSTEM_RESET_PERIOD_MS \div 1000) * configTICK_RATE_HZ
               + ((TASK_SYSTEM_RESET_PERIOD_MS % 1000) * configTICK_RATE_HZ)
                   \div 1000

\* "This task is responsible for resetting the microcontroller via software
\* every 10 hours" (doc/chapters/firmware.tex): the task that is to restart the
\* system sleeps until a tick at least that period after the reset.  With the
\* period of the code the conversion overflows, and it does not.
RestartsEveryPeriod == pc["restart"] # "start" => wake["restart"] >= PeriodTicks
=============================================================================
