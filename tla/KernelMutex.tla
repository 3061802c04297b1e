---------------------------- MODULE KernelMutex ----------------------------
(***************************************************************************)
(* A mutex of the FreeRTOS kernel (queue.c) and the part of the scheduler  *)
(* it moves tasks with (tasks.c): priorities inherited by the holder,      *)
(* waits with a timeout, ticks, and context switches.  The firmware guards *)
(* its ADC and its log with such mutexes.  No task of it holds two at      *)
(* once, so uxMutexesHeld is one for the holder and zero for the others,   *)
(* and the count of the queue is one exactly when there is no holder.      *)
(*                                                                         *)
(* A step is a critical section, or a section with the scheduler           *)
(* suspended.  Only the current task steps; a tick may come between any    *)
(* two steps.  The order of tasks of equal priority in a list is           *)
(* abstracted.                                                             *)
(***************************************************************************)
EXTENDS Integers

CONSTANTS Tasks,     \* the tasks that use the mutex
          None,      \* no task: nobody holds the mutex, or the idle task runs
          Base,      \* uxBasePriority of each task
          MaxWait,   \* xTicksToWait of xSemaphoreTake
          MaxDelay   \* the longest vTaskDelay of a task

ASSUME KernelAssumption ==
    /\ None \notin Tasks
    /\ Base \in [Tasks -> Nat \ {0}]
    /\ MaxWait \in Nat \ {0}
    /\ MaxDelay \in Nat

VARIABLES
    current,    \* pxCurrentTCB
    state,      \* the list the task is in: ready, delayed, or waiting too
    prio,       \* uxPriority
    holder,     \* xMutexHolder
    pc,         \* where the task is in xQueueSemaphoreTake, or what it returned
    left,       \* ticks until the timeout or the end of the delay
    inherited,  \* xInheritanceOccurred
    halted      \* the configASSERT that has failed: all stops, in its call

vars == <<current, state, prio, holder, pc, left, inherited, halted>>

Places == {"out", "call", "check", "retry", "expired", "last", "failing",
           "in", "refused"}

\* Taking the mutex, with the time of entry set.
Counting == {"check", "retry"}

Priorities == {Base[t] : t \in Tasks}

TypeOK ==
    /\ current \in Tasks \cup {None}
    /\ state \in [Tasks -> {"ready", "delayed", "waiting"}]
    /\ prio \in [Tasks -> Priorities]
    /\ holder \in Tasks \cup {None}
    /\ pc \in [Tasks -> Places]
    /\ left \in [Tasks -> 0 .. MaxWait + MaxDelay]
    /\ inherited \in [Tasks -> BOOLEAN]
    /\ halted \in {"no", "inheritance", "giver"}

Init ==
    /\ current \in {t \in Tasks : \A u \in Tasks : Base[u] <= Base[t]}
    /\ state = [t \in Tasks |-> "ready"]
    /\ prio = Base
    /\ holder = None
    /\ pc = [t \in Tasks |-> "out"]
    /\ left = [t \in Tasks |-> 0]
    /\ inherited = [t \in Tasks |-> FALSE]
    /\ halted = "no"
-----------------------------------------------------------------------------
(* The scheduler. *)

Waiters == {t \in Tasks : state[t] = "waiting"}

PriorityOf(t) == IF t = None THEN 0 ELSE prio[t]

\* taskSELECT_HIGHEST_PRIORITY_TASK, after the step: one of the ready tasks of
\* the highest priority, or the idle task.
SwitchContext ==
    \/ /\ \A t \in Tasks : state'[t] # "ready"
       /\ current' = None
    \/ \E t \in Tasks :
        /\ state'[t] = "ready"
        /\ \A u \in Tasks : state'[u] = "ready" => prio'[u] <= prio'[t]
        /\ current' = t

YieldIf(required) == IF required THEN SwitchContext ELSE UNCHANGED current

Running(t) == current = t /\ halted = "no"

Goto(t, p) == pc' = [pc EXCEPT ![t] = p]

\* Mutant: the count of ticks runs on below zero.
BugTick ==
    /\ halted = "no"
    /\ left' = [t \in Tasks |-> left[t] - 1]
    /\ UNCHANGED <<current, state, prio, holder, pc, inherited, halted>>

\* Mutant: only delays end with the tick, not the waits for the mutex.
BugWoken == {t \in Tasks : state[t] = "delayed" /\ left[t] <= 1}

\* What has waited long enough.
Woken == {t \in Tasks : state[t] # "ready" /\ left[t] <= 1}

\* The tick interrupt, with xTaskIncrementTick: what is woken is ready, and the
\* ready tasks of the current priority take turns.
Tick ==
    /\ halted = "no"
    /\ left' = [t \in Tasks |-> IF left[t] > 0 THEN left[t] - 1 ELSE 0]
    /\ UNCHANGED <<prio, holder, pc, inherited, halted>>
    /\ state' = [t \in Tasks |-> IF t \in Woken THEN "ready" ELSE state[t]]
    /\ YieldIf(\/ \E t \in Woken : prio[t] >= PriorityOf(current)
               \/ \E t \in Tasks \ {current} :
                      state[t] = "ready" /\ prio[t] = PriorityOf(current))

\* vTaskDelay: between two uses of the mutex, or while the task holds it.
Delay(t) ==
    /\ Running(t)
    /\ pc[t] \in {"out", "in", "refused"}
    /\ \E n \in 1 .. MaxDelay : left' = [left EXCEPT ![t] = n]
    /\ state' = [state EXCEPT ![t] = "delayed"]
    /\ UNCHANGED <<prio, holder, pc, inherited, halted>>
    /\ SwitchContext
-----------------------------------------------------------------------------
(* Taking the mutex: xQueueSemaphoreTake. *)

\* Mutant: the count of the semaphore is not checked.
BugAcquire(t) ==
    /\ holder' = t
    /\ Goto(t, "in")

\* pvTaskIncrementMutexHeldCount: the task is the holder.
Acquire(t) ==
    /\ holder = None
    /\ holder' = t
    /\ Goto(t, "in")

Call(t) ==
    /\ Running(t)
    /\ pc[t] = "out"
    /\ Goto(t, "call")
    /\ inherited' = [inherited EXCEPT ![t] = FALSE]
    /\ UNCHANGED <<current, state, prio, holder, left, halted>>

\* The first critical section of the loop.  The first failure starts the
\* timeout.
TryTake(t) ==
    /\ Running(t)
    /\ pc[t] \in {"call", "retry"}
    /\ \/ Acquire(t) /\ UNCHANGED left
       \/ /\ holder # None
          /\ Goto(t, "check")
          /\ left' = IF pc[t] = "call" THEN [left EXCEPT ![t] = MaxWait] ELSE left
          /\ UNCHANGED holder
    /\ UNCHANGED <<current, state, prio, inherited, halted>>

\* xTaskPriorityInherit: does the holder have the task's priority because of a
\* wait for the mutex?
Inherits(t) == holder # None /\ Base[holder] < prio[t]

RaiseHolder(t) ==
    prio' = [prio EXCEPT ![holder] = IF @ < prio[t] THEN prio[t] ELSE @]

\* With the scheduler suspended: wait, unless the time is over or the mutex is
\* free again.
CheckTimeOut(t) ==
    /\ Running(t)
    /\ pc[t] = "check"
    /\ UNCHANGED <<holder, left, halted>>
    /\ \/ /\ left[t] = 0
          /\ Goto(t, "expired")
          /\ UNCHANGED <<current, state, prio, inherited>>
       \/ /\ left[t] > 0
          /\ holder = None
          /\ Goto(t, "retry")
          /\ UNCHANGED <<current, state, prio, inherited>>
       \/ /\ left[t] > 0
          /\ holder # None
          /\ Goto(t, "retry")
          /\ inherited' = [inherited EXCEPT ![t] = Inherits(t)]
          /\ RaiseHolder(t)
          /\ state' = [state EXCEPT ![t] = "waiting"]
          /\ SwitchContext

\* Mutant: a task whose time is over does not look at the mutex again.
BugExpire(t) ==
    /\ Running(t)
    /\ pc[t] = "expired"
    /\ Goto(t, IF inherited[t] THEN "failing" ELSE "refused")
    /\ UNCHANGED <<current, state, prio, holder, left, inherited, halted>>

\* The time is over: if the mutex has just come free, one last attempt.
Expire(t) ==
    /\ Running(t)
    /\ pc[t] = "expired"
    /\ Goto(t, IF holder = None THEN "last"
               ELSE IF inherited[t] THEN "failing" ELSE "refused")
    /\ UNCHANGED <<current, state, prio, holder, left, inherited, halted>>

\* Mutant: the holder falls back to its own priority, whoever still waits.
BugPriorityToUse(p) == p = Base[holder]

\* prvGetDisinheritPriorityAfterTimeout: the highest priority of those that
\* still wait, or the holder's own.
PriorityToUse(p) ==
    /\ p \in {Base[holder]} \cup {prio[w] : w \in Waiters}
    /\ p >= Base[holder]
    /\ \A w \in Waiters : p >= prio[w]

\* Mutant: a wait that ends with the timeout is not taken back.
BugDisinherit(t) ==
    /\ Running(t)
    /\ pc[t] = "failing"
    /\ Goto(t, "refused")
    /\ UNCHANGED <<current, state, prio, holder, left, inherited, halted>>

\* vTaskPriorityDisinheritAfterTimeout: the holder keeps no more than the
\* priority of those that still wait.
Disinherit(t) ==
    /\ Running(t)
    /\ pc[t] = "failing"
    /\ \/ holder = None /\ UNCHANGED prio
       \/ /\ holder # None
          /\ \E p \in Priorities :
                PriorityToUse(p) /\ prio' = [prio EXCEPT ![holder] = p]
    /\ Goto(t, "refused")
    /\ UNCHANGED <<current, state, holder, left, inherited, halted>>

\* The last attempt.  If it fails, the code asserts that no inheritance
\* occurred.
LastTry(t) ==
    /\ Running(t)
    /\ pc[t] = "last"
    /\ \/ Acquire(t) /\ UNCHANGED halted
       \/ /\ holder # None /\ ~inherited[t]
          /\ Goto(t, "refused")
          /\ UNCHANGED <<holder, halted>>
       \/ /\ holder # None /\ inherited[t]
          /\ halted' = "inheritance"
          /\ UNCHANGED <<holder, pc>>
    /\ UNCHANGED <<current, state, prio, left, inherited>>
-----------------------------------------------------------------------------
(* Giving it back: xQueueGenericSend with no block time. *)

\* Mutant: that the giver falls back to its own priority calls for no switch.
BugGiveOwn(t) ==
    /\ holder = t
    /\ holder' = None
    /\ prio' = [prio EXCEPT ![t] = Base[t]]
    /\ Goto(t, "out")
    /\ \/ /\ Waiters = {}
          /\ UNCHANGED <<current, state>>
       \/ \E w \in Waiters :
             /\ \A v \in Waiters : prio[v] <= prio[w]
             /\ state' = [state EXCEPT ![w] = "ready"]
             /\ YieldIf(prio[w] > Base[t])
    /\ UNCHANGED halted

\* prvCopyDataToQueue with xTaskPriorityDisinherit, then the waiting task of
\* the highest priority is made ready.
GiveOwn(t) ==
    LET lowered == [prio EXCEPT ![t] = Base[t]]
    IN /\ holder = t
       /\ holder' = None
       /\ prio' = lowered
       /\ Goto(t, "out")
       /\ \/ /\ Waiters = {}
             /\ UNCHANGED state
             /\ YieldIf(prio[t] # Base[t])
          \/ \E w \in Waiters :
                /\ \A v \in Waiters : prio[v] <= prio[w]
                /\ state' = [state EXCEPT ![w] = "ready"]
                /\ YieldIf(prio[w] > lowered[t])
       /\ UNCHANGED halted

\* The mutex of another: configASSERT( pxTCB == pxCurrentTCB ).
GiveForeign(t) ==
    /\ holder \notin {t, None}
    /\ halted' = "giver"
    /\ UNCHANGED <<current, state, prio, holder, pc>>

\* errQUEUE_FULL.
GiveFree(t) ==
    /\ holder = None
    /\ Goto(t, "out")
    /\ UNCHANGED <<current, state, prio, holder, halted>>

\* Both users of the firmware, adc_mutex.c and sys_log_mutex.c, give what they
\* may have been refused.
Give(t) ==
    /\ Running(t)
    /\ pc[t] \in {"in", "refused"}
    /\ GiveOwn(t) \/ GiveForeign(t) \/ GiveFree(t)
    /\ UNCHANGED <<left, inherited>>
-----------------------------------------------------------------------------
TakeStep(t) == TryTake(t) \/ CheckTimeOut(t) \/ Expire(t) \/ Disinherit(t)
               \/ LastTry(t)

TaskStep(t) == Delay(t) \/ Call(t) \/ TakeStep(t) \/ Give(t)

Next == Tick \/ \E t \in Tasks : TaskStep(t)

Spec == Init /\ [][Next]_vars
-----------------------------------------------------------------------------
(* Properties. *)

\* Priority inheritance does its work: a task never waits for a holder of
\* lower priority, however the waits and the timeouts of others interleave.
HolderBoosted ==
    \A w \in Waiters : holder # None => prio[w] <= prio[holder]

\* And it does no more: a raised priority belongs to the holder, and a task
\* that waited for it, and has not yet taken its wait back, has that priority.
BoostJustified ==
    \A t \in Tasks : prio[t] # Base[t] =>
        /\ holder = t
        /\ \E w \in Tasks :
              /\ inherited[w]
              /\ prio[w] = prio[t]
              /\ pc[w] \in Counting \cup {"expired", "failing", "last"}

\* No ready task is above the one that runs.
Top == \A t \in Tasks : state[t] = "ready" => prio[t] <= PriorityOf(current)

\* A task whose priority was raised gives the mutex to a waiter not above its
\* own priority: xQueueGenericSend asks only for the waiter, and the task runs
\* on.
GiveBelow(t) ==
    /\ holder = t /\ holder' = None /\ current' = t
    /\ prio[t] # Base[t]
    /\ \E w \in Waiters : state'[w] = "ready" /\ prio[w] <= Base[t]

\* Whoever runs is one of the highest ready tasks: whenever the processor is
\* switched to another task, and then until a give that leaves the giver below
\* a task whose wait had raised it and timed out.
TopRuns ==
    [][(Top \/ current' # current) /\ ~ (\E t \in Tasks : GiveBelow(t)) => Top']_vars

\* The assertion of the last attempt fails only if three tasks use the mutex:
\* of two above the holder that one waited for, the other is not below it.
InheritanceJustified ==
    halted = "inheritance" =>
        \E h, t, u \in Tasks : t # u /\ Base[h] < Base[t] /\ Base[t] <= Base[u]

\* No task of the highest priority is left in xQueueSemaphoreTake.
TopServed ==
    \A t \in Tasks :
        (\A u \in Tasks : Base[u] <= Base[t]) =>
            (pc[t] = "call" ~> pc[t] \in {"in", "refused"} \/ halted # "no")

\* What the users of a mutex rely on.
StatusOf(p) ==
    IF p \in {"out", "in", "refused"} THEN p
    ELSE IF p = "failing" THEN "refused" ELSE "asking"

Status == [t \in Tasks |-> StatusOf(pc[t])]

Service == INSTANCE MutexService WITH owner <- holder, status <- Status

\* At most one task is in, a take succeeds only when the mutex is free and is
\* refused only while another task holds it, and only a give makes it free.
ImplementsMutex == Service!Spec
=============================================================================
