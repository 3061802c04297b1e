---------------------------- MODULE Lifetime_proofs ----------------------------
(***************************************************************************)
(* Proofs about Lifetime, for all periods, bursts, loads and hangs: types, *)
(* that the watchdog resets the system only when a task hangs and then     *)
(* soon, and when the system is restarted.                                 *)
(***************************************************************************)
EXTENDS Lifetime, TLAPS

\* A number of milliseconds is some number of ticks.
LEMMA TicksType == ASSUME NEW ms \in Nat PROVE pdMS_TO_TICKS(ms) \in Nat
<1> DEFINE low  == (ms % Half) * configTICK_RATE_HZ
           sum  == (ms \div Half) * configTICK_RATE_HZ + (low \div Half)
           high == sum % Half
<1>1. ms % Half \in Nat /\ ms \div Half \in Nat
  BY DEF Half
<1>2. low \in Nat /\ (ms \div Half) * configTICK_RATE_HZ \in Nat
  BY <1>1, LifetimeAssumption DEF LifetimeAssumption
<1>3. sum \in Nat /\ low % Half \in Nat
  <2> HIDE DEF low
  <2> QED BY <1>2 DEF Half
<1>4. high \in Nat
  <2> HIDE DEF sum
  <2> QED BY <1>3 DEF Half
<1>5. (high \div 1000) * Half + ((high % 1000) * Half + (low % Half)) \div 1000
        \in Nat
  <2> HIDE DEF low, high
  <2> QED BY <1>3, <1>4 DEF Half
<1> QED BY <1>5 DEF pdMS_TO_TICKS

\* The periods are numbers of ticks.
LEMMA PeriodTypes == /\ KickTicks \in Nat \ {0} /\ RestartTicks \in Nat \ {0}
                     /\ WdtTicks \in Nat
  BY TicksType, LifetimeAssumption, PeriodsAssumption
     DEF KickTicks, RestartTicks, LifetimeAssumption

\* The constants in the form the steps use.
LEMMA Sets == /\ Bursts \subseteq Nat /\ Loads \subseteq 0..5
              /\ Hangs \subseteq 2..Off /\ Off = 6
  BY LifetimeAssumption DEF LifetimeAssumption, Off

\* A reset sets values of the types.
LEMMA TypeReset ==
    ASSUME TypeOK, Reset
    PROVE  TypeOK'
<1> USE DEF TypeOK
<1>1. longest' = longest /\ longest \in Nat
  BY Sets DEF Reset
<1>2. /\ pc' \in [Tasks -> {"start", "loop", "work", "until", "asleep", "reset"}]
      /\ \A t \in Tasks : pc'[t] \in Places[t]
      /\ wake' \in [Tasks -> Nat]
  BY DEF Reset, Booted, Places, Tasks
<1> QED BY <1>1, <1>2, PeriodTypes DEF Reset, Booted

\* Going on to a place of the task keeps the types of the places.
LEMMA GotoType ==
    ASSUME TypeOK, NEW t \in Tasks, NEW place \in Places[t], Goto(t, place)
    PROVE  /\ pc' \in [Tasks -> {"start", "loop", "work", "until", "asleep",
                                 "reset"}]
           /\ \A u \in Tasks : pc'[u] \in Places[u]
<1>1. place \in {"start", "loop", "work", "until", "asleep", "reset"}
  BY DEF Places, Tasks
<1> QED BY <1>1 DEF TypeOK, Goto

\* Every step keeps the types.
LEMMA TypeNext == TypeOK /\ [Next]_vars => TypeOK'
<1> SUFFICES ASSUME TypeOK, [Next]_vars PROVE TypeOK'
  OBVIOUS
<1>p. /\ "watchdog" \in Tasks /\ "restart" \in Tasks
      /\ Places["watchdog"] = {"loop", "work", "until", "asleep"}
      /\ Places["restart"] = {"start", "asleep", "reset"}
  BY DEF Tasks, Places
<1>1. CASE ReadTick
  BY <1>1, <1>p, GotoType DEF ReadTick, TypeOK, world
<1>2. CASE Kick
  BY <1>2, <1>p, GotoType, PeriodTypes DEF Kick, TypeOK, world
<1>3. CASE DelayUntil
  <2>1. wake' \in [Tasks -> Nat]
    BY <1>3, PeriodTypes DEF DelayUntil, SleepUntil, TypeOK
  <2> QED BY <1>3, <1>p, <2>1, GotoType DEF DelayUntil, SleepUntil, TypeOK, world
<1>4. CASE AwaitRestart
  <2>0. tick + RestartTicks \in Nat /\ wake \in [Tasks -> Nat]
    BY PeriodTypes DEF TypeOK
  <2>1. wake' \in [Tasks -> Nat]
    BY <1>4, <2>0 DEF AwaitRestart, SleepUntil
  <2> QED BY <1>4, <1>p, <2>1, GotoType
          DEF AwaitRestart, SleepUntil, TypeOK, world
<1>5. CASE Restart \/ Bite
  BY <1>5, TypeReset DEF Restart, Bite
<1>6. CASE Elapse
  <2>1. /\ pc' \in [Tasks -> {"start", "loop", "work", "until", "asleep",
                              "reset"}]
        /\ \A t \in Tasks : pc'[t] \in Places[t]
        /\ tick' \in Nat
    <3>1. CASE hung = Off
      BY <1>6, <3>1 DEF Elapse, TypeOK
    <3>2. CASE hung # Off
      BY <1>6, <3>2 DEF Elapse, IncrementTick, TypeOK, Tasks, Places
    <3> QED BY <3>1, <3>2
  <2>2. busy' \in 0..longest
    BY <1>6, Sets DEF Elapse, BusyNext, TypeOK
  <2>3. dog' \in 0..WdtTicks /\ hungFor' \in Nat
    BY <1>6, PeriodTypes DEF Elapse, TypeOK
  <2> QED BY <1>6, <2>1, <2>2, <2>3 DEF Elapse, TypeOK
<1>7. ASSUME NEW l \in Loads, SetLoad(l) PROVE TypeOK'
  BY <1>7 DEF SetLoad, TypeOK, tasks
<1>8. ASSUME NEW p \in Hangs, Hang(p) PROVE TypeOK'
  BY <1>8 DEF Hang, TypeOK, tasks
<1>9. CASE UNCHANGED vars
  BY <1>9 DEF TypeOK, vars, tasks, world
<1> QED BY <1>1, <1>2, <1>3, <1>4, <1>5, <1>6, <1>7, <1>8, <1>9 DEF Next, Step

\* Type correctness: in particular the watchdog never counts past its interval.
THEOREM LifetimeTypeCorrect == Spec => []TypeOK
<1>1. Init => TypeOK
  BY PeriodTypes, Sets DEF Init, Booted, TypeOK, Tasks, Places
<1> QED BY <1>1, TypeNext, PTL DEF Spec
-----------------------------------------------------------------------------
(* The watchdog.                                                           *)

\* While no task hangs, the watchdog has counted no more than the period of its
\* task and the ticks the task has waited for the processor: asleep, the task
\* wakes in time; and what it counts from its last reading of the tick covers
\* what the watchdog has counted since the reset that follows it.
DogWatched ==
    hung = 0 =>
      IF pc["watchdog"] = "asleep"
      THEN wake["watchdog"] > tick /\ dog + (wake["watchdog"] - tick) <= KickTicks
      ELSE /\ dog <= KickTicks + busy
           /\ pc["watchdog"] # "loop" => last_cycle <= tick
           /\ pc["watchdog"] = "until" => dog + last_cycle <= tick

\* A hang is no older than what the watchdog has counted.
HangSeen == hungFor <= dog /\ (hung = 0 => hungFor = 0)

WatchInv == DogWatched /\ HangSeen

LEMMA WatchInit == Init => WatchInv
  BY PeriodTypes DEF Init, Booted, WatchInv, DogWatched, HangSeen, Tasks

LEMMA WatchNext == TypeOK /\ WatchInv /\ [Next]_vars => WatchInv'
<1> SUFFICES ASSUME TypeOK, WatchInv, [Next]_vars PROVE WatchInv'
  OBVIOUS
<1>t. /\ dog \in Nat /\ tick \in Nat /\ last_cycle \in Nat /\ busy \in Nat
      /\ hungFor \in Nat /\ hung \in {0} \cup 2..6 /\ load \in 0..5
      /\ wake \in [Tasks -> Nat] /\ DOMAIN pc = Tasks
      /\ "watchdog" \in Tasks /\ "restart" \in Tasks
      /\ Priority["watchdog"] = 1 /\ KickTicks \in Nat /\ Off = 6
  BY PeriodTypes, Sets DEF TypeOK, Tasks, Priority
<1> USE DEF WatchInv, DogWatched, HangSeen
<1>1. CASE ReadTick
  BY <1>1, <1>t DEF ReadTick, At, Goto, world
<1>2. CASE Kick
  <2>1. hung = 0
    BY <1>2, <1>t DEF Kick, At, CanRun
  <2> QED BY <1>2, <2>1, <1>t DEF Kick, At, Goto, world
<1>3. CASE DelayUntil
  <2>1. CASE last_cycle + KickTicks > tick
    <3>1. /\ pc'["watchdog"] = "asleep"
          /\ wake'["watchdog"] = last_cycle + KickTicks
      BY <1>3, <2>1, <1>t DEF DelayUntil, SleepUntil, Goto
    <3> QED BY <1>3, <2>1, <3>1, <1>t DEF DelayUntil, At, world
  <2>2. CASE ~(last_cycle + KickTicks > tick)
    BY <1>3, <2>2, <1>t DEF DelayUntil, At, Goto, world
  <2> QED BY <2>1, <2>2
<1>4. CASE AwaitRestart
  <2>1. pc'["watchdog"] = pc["watchdog"] /\ wake'["watchdog"] = wake["watchdog"]
    BY <1>4, <1>t DEF AwaitRestart, SleepUntil, Goto
  <2> QED BY <1>4, <2>1, <1>t DEF AwaitRestart, world
<1>5. CASE Restart \/ Bite
  BY <1>5, <1>t DEF Restart, Bite, Reset, Booted
<1>6. CASE Elapse
  <2>1. HangSeen'
    BY <1>6, <1>t DEF Elapse
  <2>2. ASSUME hung = 0 PROVE DogWatched'
    <3> DEFINE later == BusyNext
    <3>1. /\ tick' = tick + 1 /\ dog' = dog + 1 /\ busy' = later
          /\ last_cycle' = last_cycle /\ wake' = wake
      BY <1>6, <2>2, <1>t DEF Elapse, IncrementTick
    <3>2. /\ later \in Nat
          /\ load >= 2 => later = busy + 1
      BY <2>2, <1>t DEF BusyNext
    <3>3. pc'["watchdog"] = IF pc["watchdog"] = "asleep"
                                 /\ wake["watchdog"] = tick + 1
                            THEN "loop" ELSE pc["watchdog"]
      BY <1>6, <2>2, <1>t DEF Elapse, IncrementTick
    <3> HIDE DEF later
    <3>4. CASE pc["watchdog"] = "asleep"
      <4>1. /\ wake["watchdog"] \in Nat /\ wake["watchdog"] > tick
            /\ dog + (wake["watchdog"] - tick) <= KickTicks
        BY <2>2, <3>4, <1>t
      <4>2. CASE wake["watchdog"] = tick + 1
        <5>1. pc'["watchdog"] = "loop"
          BY <3>3, <3>4, <4>2
        <5>2. dog + 1 <= KickTicks + later
          BY <3>2, <4>1, <4>2, <1>t
        <5> QED BY <3>1, <5>1, <5>2
      <4>3. CASE wake["watchdog"] # tick + 1
        <5>1. pc'["watchdog"] = "asleep"
          BY <3>3, <3>4, <4>3
        <5>2. /\ wake["watchdog"] > tick + 1
              /\ dog + 1 + (wake["watchdog"] - (tick + 1)) <= KickTicks
          BY <4>1, <4>3, <1>t
        <5> QED BY <3>1, <5>1, <5>2
      <4> QED BY <4>2, <4>3
    <3>5. CASE pc["watchdog"] # "asleep"
      <4>1. load >= 2
        BY <1>6, <2>2, <3>5, <1>t DEF Elapse, CanRun
      <4>2. pc'["watchdog"] = pc["watchdog"]
        BY <3>3, <3>5
      <4>3. /\ dog + 1 <= KickTicks + later
            /\ pc["watchdog"] # "loop" => last_cycle <= tick + 1
            /\ pc["watchdog"] = "until" => dog + 1 + last_cycle <= tick + 1
        BY <2>2, <3>2, <3>5, <4>1, <1>t
      <4>4. /\ dog' <= KickTicks + busy'
            /\ pc["watchdog"] # "loop" => last_cycle' <= tick'
            /\ pc["watchdog"] = "until" => dog' + last_cycle' <= tick'
        BY <3>1, <4>3
      <4> QED BY <3>5, <4>2, <4>4
    <3> QED BY <3>4, <3>5
  <2>3. hung' = hung
    BY <1>6 DEF Elapse
  <2> QED BY <2>1, <2>2, <2>3
<1>7. ASSUME NEW l \in Loads, SetLoad(l) PROVE WatchInv'
  BY <1>7 DEF SetLoad, tasks
<1>8. ASSUME NEW p \in Hangs, Hang(p) PROVE WatchInv'
  BY <1>8, Sets, <1>t DEF Hang, tasks
<1>9. CASE UNCHANGED vars
  BY <1>9 DEF vars, tasks, world
<1> QED BY <1>1, <1>2, <1>3, <1>4, <1>5, <1>6, <1>7, <1>8, <1>9 DEF Next, Step

\* Whatever the load does within the rounds of vTaskWatchdogReset, a system
\* that leaves the task its time is never reset by the watchdog.
THEOREM OnlyHangsBite == Spec => []BiteOnlyHung
<1>1. TypeOK /\ WatchInv => BiteOnlyHung
  <2> SUFFICES ASSUME TypeOK, WatchInv, Prompt, dog = WdtTicks, hung = 0
               PROVE  FALSE
    BY DEF BiteOnlyHung
  <2>1. /\ busy \in Nat /\ busy <= longest /\ longest \in Nat /\ tick \in Nat
        /\ wake["watchdog"] \in Nat
    BY Sets DEF TypeOK, Tasks
  <2>2. dog <= KickTicks + busy
    BY <2>1, PeriodTypes DEF WatchInv, DogWatched, TypeOK
  <2> QED BY <2>1, <2>2, PeriodTypes DEF Prompt
<1> QED BY <1>1, WatchInit, WatchNext, LifetimeTypeCorrect, PTL DEF Spec

\* A hang of a task of any priority above the lowest, or with the interrupts
\* disabled, is over within the interval of the watchdog, since no task can
\* reset it any more.
THEOREM HangsEnd == Spec => []HangShort
<1>1. TypeOK /\ WatchInv => HangShort
  BY PeriodTypes DEF TypeOK, WatchInv, HangSeen, HangShort
<1> QED BY <1>1, WatchInit, WatchNext, LifetimeTypeCorrect, PTL DEF Spec
-----------------------------------------------------------------------------
(* The periodic restart.                                                   *)

\* How late the delay of the restart may begin and end: the ticks the task has
\* waited for the processor, and those of a hang that lets it run.
RestartDue ==
    /\ pc["restart"] = "start" => Uptime <= busy + hungFor
    /\ pc["restart"] # "start" =>
          /\ wake["restart"] >= RestartTicks
          /\ wake["restart"] <= RestartTicks + longest
                                + (IF hung = Off THEN 0 ELSE hungFor)
    /\ pc["restart"] = "asleep" => tick < wake["restart"]
    /\ pc["restart"] = "reset" =>
          /\ tick >= wake["restart"]
          /\ Uptime <= RestartTicks + longest + busy + hungFor

LEMMA RestartInit == Init => RestartDue
  BY Sets DEF Init, Booted, RestartDue, Uptime, Tasks

LEMMA RestartNext == TypeOK /\ WatchInv /\ RestartDue /\ [Next]_vars => RestartDue'
<1> SUFFICES ASSUME TypeOK, WatchInv, RestartDue, [Next]_vars PROVE RestartDue'
  OBVIOUS
<1>t. /\ tick \in Nat /\ busy \in Nat /\ longest \in Nat /\ busy <= longest
      /\ hungFor \in Nat /\ hung \in {0} \cup 2..6 /\ load \in 0..5
      /\ wake \in [Tasks -> Nat] /\ DOMAIN pc = Tasks
      /\ "watchdog" \in Tasks /\ "restart" \in Tasks
      /\ Priority["restart"] = 2 /\ RestartTicks \in Nat \ {0} /\ Off = 6
      /\ pc["restart"] \in {"start", "asleep", "reset"}
  BY PeriodTypes, Sets DEF TypeOK, Tasks, Priority, Places
<1>h. hung = 0 => hungFor = 0
  BY DEF WatchInv, HangSeen
<1> USE DEF RestartDue, Uptime
<1>1. CASE ReadTick
  <2>1. pc'["restart"] = pc["restart"]
    BY <1>1, <1>t DEF ReadTick, Goto
  <2> QED BY <1>1, <2>1 DEF ReadTick, world
<1>2. CASE Kick
  <2>1. pc'["restart"] = pc["restart"]
    BY <1>2, <1>t DEF Kick, Goto
  <2> QED BY <1>2, <2>1 DEF Kick, world
<1>3. CASE DelayUntil
  <2>1. pc'["restart"] = pc["restart"] /\ wake'["restart"] = wake["restart"]
    BY <1>3, <1>t DEF DelayUntil, SleepUntil, Goto
  <2> QED BY <1>3, <2>1 DEF DelayUntil, world
<1>4. CASE AwaitRestart
  <2>1. /\ pc["restart"] = "start" /\ hung # Off
        /\ pc'["restart"] = "asleep" /\ wake'["restart"] = tick + RestartTicks
    BY <1>4, <1>t DEF AwaitRestart, At, CanRun, SleepUntil, Goto
  <2>2. tick <= longest + hungFor
    BY <2>1, <1>t
  <2> QED BY <1>4, <2>1, <2>2, <1>t DEF AwaitRestart, world
<1>5. CASE Restart \/ Bite
  BY <1>5, Sets DEF Restart, Bite, Reset, Booted, Tasks
<1>6. CASE Elapse
  <2> DEFINE later == BusyNext
             hangs == IF hung = 0 THEN 0 ELSE hungFor + 1
  <2>1. /\ wake' = wake /\ longest' = longest /\ hung' = hung
        /\ busy' = later /\ hungFor' = hangs
    BY <1>6 DEF Elapse
  <2>2. later \in Nat /\ hangs \in Nat /\ hungFor <= hangs
    BY <1>t, <1>h DEF BusyNext
  <2>3. ASSUME pc["restart"] # "asleep" PROVE later + hangs = busy + hungFor + 1
    <3>1. CASE hung = 0
      <4>1. load > 2
        BY <1>6, <2>3, <3>1, <1>t DEF Elapse, CanRun
      <4> QED BY <3>1, <4>1, <1>t, <1>h DEF BusyNext
    <3>2. CASE hung # 0
      BY <3>2, <1>t DEF BusyNext
    <3> QED BY <3>1, <3>2
  <2> HIDE DEF later, hangs
  <2>4. CASE hung = Off
    <3>1. tick' = tick /\ pc' = pc /\ Uptime' = tick + hangs
      BY <1>6, <2>1, <2>4 DEF Elapse
    <3>2. CASE pc["restart"] = "asleep"
      BY <2>1, <2>4, <3>1, <3>2
    <3>3. CASE pc["restart"] # "asleep"
      <4>1. later + hangs = busy + hungFor + 1 /\ hangs = hungFor + 1
        BY <2>3, <2>4, <3>3, <1>t DEF hangs
      <4>2. pc["restart"] = "start" => tick + hangs <= later + hangs
        BY <2>2, <2>4, <4>1, <1>t
      <4>3. pc["restart"] = "reset" =>
              tick + hangs <= RestartTicks + longest + later + hangs
        BY <2>2, <2>4, <4>1, <1>t
      <4> QED BY <2>1, <2>4, <3>1, <3>3, <4>2, <4>3
    <3> QED BY <3>2, <3>3
  <2>5. CASE hung # Off
    <3>1. tick' = tick + 1 /\ Uptime' = tick + 1 /\ Uptime = tick
      BY <1>6, <2>1, <2>5 DEF Elapse, IncrementTick
    <3>2. pc'["restart"] = IF pc["restart"] = "asleep"
                                /\ wake["restart"] = tick + 1
                           THEN "reset" ELSE pc["restart"]
      BY <1>6, <2>5, <1>t DEF Elapse, IncrementTick
    <3>3. pc["restart"] # "start" =>
             /\ wake["restart"] \in Nat /\ wake["restart"] >= RestartTicks
             /\ wake["restart"] <= RestartTicks + longest + hangs
      BY <2>2, <2>5, <1>t
    <3>4. CASE pc["restart"] = "asleep"
      <4>1. tick < wake["restart"] /\ wake["restart"] \in Nat
        BY <3>4, <1>t
      <4>2. CASE wake["restart"] = tick + 1
        <5>1. pc'["restart"] = "reset"
          BY <3>2, <3>4, <4>2
        <5>2. /\ tick + 1 >= wake["restart"]
              /\ tick + 1 <= RestartTicks + longest + later + hangs
          BY <2>2, <3>3, <3>4, <4>2, <1>t
        <5> QED BY <2>1, <2>5, <3>1, <3>3, <3>4, <5>1, <5>2
      <4>3. CASE wake["restart"] # tick + 1
        <5>1. pc'["restart"] = "asleep"
          BY <3>2, <3>4, <4>3
        <5>2. tick + 1 < wake["restart"]
          BY <4>1, <4>3, <1>t
        <5> QED BY <2>1, <2>5, <3>1, <3>3, <3>4, <5>1, <5>2
      <4> QED BY <4>2, <4>3
    <3>5. CASE pc["restart"] # "asleep"
      <4>1. pc'["restart"] = pc["restart"]
        BY <3>2, <3>5
      <4>2. pc["restart"] = "start" => tick + 1 <= later + hangs
        BY <2>2, <2>3, <3>1, <3>5, <1>t
      <4>3. pc["restart"] = "reset" =>
              /\ tick + 1 >= wake["restart"]
              /\ tick + 1 <= RestartTicks + longest + later + hangs
        BY <2>2, <2>3, <3>1, <3>5, <1>t
      <4> QED BY <2>1, <2>5, <3>1, <3>3, <3>5, <4>1, <4>2, <4>3
    <3> QED BY <3>4, <3>5
  <2> QED BY <2>4, <2>5
<1>7. ASSUME NEW l \in Loads, SetLoad(l) PROVE RestartDue'
  BY <1>7 DEF SetLoad, tasks
<1>8. ASSUME NEW p \in Hangs, Hang(p) PROVE RestartDue'
  BY <1>8, <1>t, <1>h DEF Hang, tasks
<1>9. CASE UNCHANGED vars
  BY <1>9 DEF vars, tasks, world
<1> QED BY <1>1, <1>2, <1>3, <1>4, <1>5, <1>6, <1>7, <1>8, <1>9 DEF Next, Step

\* For every period the system is restarted by its task after the ticks the
\* task asks for and not before, and is never up for longer by more than two
\* bursts and an interval of the watchdog.  For the period of the code these
\* ticks are fewer than the period has (RestartsEveryPeriod).
THEOREM RestartWhenDue == Spec => []RestartsWhenDue
<1>1. TypeOK /\ WatchInv /\ RestartDue => RestartsWhenDue
  <2> SUFFICES ASSUME TypeOK, WatchInv, RestartDue PROVE RestartsWhenDue
    OBVIOUS
  <2>1. /\ tick \in Nat /\ busy \in Nat /\ longest \in Nat /\ busy <= longest
        /\ hungFor \in Nat /\ wake["restart"] \in Nat
        /\ pc["restart"] \in {"start", "asleep", "reset"}
        /\ RestartTicks \in Nat /\ WdtTicks \in Nat
    BY Sets, PeriodTypes DEF TypeOK, Tasks, Places
  <2>2. hungFor <= WdtTicks
    BY <2>1 DEF TypeOK, WatchInv, HangSeen
  <2>3. Uptime <= RestartTicks + 2 * longest + WdtTicks
    <3>1. CASE pc["restart"] = "asleep"
      BY <2>1, <2>2, <3>1 DEF RestartDue, Uptime
    <3>2. CASE pc["restart"] # "asleep"
      <4>1. Uptime \in Nat /\ Uptime <= RestartTicks + longest + busy + hungFor
        BY <2>1, <3>2 DEF RestartDue, Uptime
      <4> QED BY <2>1, <2>2, <4>1
    <3> QED BY <3>1, <3>2
  <2> QED BY <2>3 DEF RestartDue, RestartsWhenDue
<1> QED BY <1>1, WatchInit, WatchNext, RestartInit, RestartNext,
           LifetimeTypeCorrect, PTL DEF Spec
=============================================================================
