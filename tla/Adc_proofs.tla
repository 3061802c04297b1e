---------------------------- MODULE Adc_proofs ----------------------------
(***************************************************************************)
(* Proofs about Adc: types, that the mutex never outlives the read of the  *)
(* task that holds it, that two readers with a prompt converter exclude    *)
(* each other, and that the readers implement the service of the mutex.    *)
(***************************************************************************)
EXTENDS Adc, TLAPS

\* The longest wait is a number no shorter than each of the two.
LEMMA LongestWaitType ==
    /\ LongestWait \in Nat
    /\ ADC_MUTEX_WAIT_TIME_MS <= LongestWait
    /\ ADC_TIMOUT_MS <= LongestWait
BY AdcAssumption DEF LongestWait, AdcAssumption

\* The types hold initially.
LEMMA AdcTypeInit == Init => TypeOK
<1>1. 0 \in 0..LongestWait /\ 0 \in 0..ReadsPerPeriod
  BY LongestWaitType, AdcAssumption DEF AdcAssumption
<1>2. Init => /\ timer \in [Tasks -> 0..LongestWait]
              /\ reads \in [Tasks -> 0..ReadsPerPeriod]
  BY <1>1 DEF Init
<1>3. Init => /\ pc \in [Tasks -> {"idle", "take", "busy", "start", "convert",
                                    "give"}]
              /\ result \in [Tasks -> {"none", "own", "stale", "failed"}]
              /\ memory \in [Ports -> Tasks \cup {None}]
  BY DEF Init
<1> QED BY <1>2, <1>3 DEF Init, TypeOK

\* Going on to a place keeps the types of the places and of the timers.
LEMMA GotoType ==
    ASSUME NEW t \in Tasks, TypeOK,
           NEW place \in {"idle", "take", "busy", "start", "convert", "give"},
           Goto(t, place)
    PROVE  /\ pc' \in [Tasks -> {"idle", "take", "busy", "start", "convert",
                                 "give"}]
           /\ timer' \in [Tasks -> 0..LongestWait]
<1>1. 0 \in 0..LongestWait
  BY LongestWaitType
<1> QED BY <1>1 DEF TypeOK, Goto

\* Every step of a read keeps the types.
LEMMA AdcTypeStep ==
    ASSUME TypeOK, NEW t \in Tasks, Step(t)
    PROVE  TypeOK'
<1> USE DEF TypeOK
<1>0. halted' \in BOOLEAN /\ slowest' = slowest /\ Conversions' = Conversions
  <2>1. slowest' = slowest
    BY DEF Step, Request, Take, TakeTimeout, FindFree, StartConversion, Collect,
           ReadTimeout, Give, hardware
  <2> QED BY <2>1 DEF Step, Conversions
<1>1. CASE Request(t)
  <2>1. reads' \in [Tasks -> 0..ReadsPerPeriod]
    BY <1>1, AdcAssumption DEF Request, AdcAssumption
  <2> QED BY <1>0, <1>1, <2>1, GotoType DEF Request, hardware
<1>2. CASE Take(t)
  BY <1>0, <1>2, GotoType DEF Take, hardware
<1>3. CASE TakeTimeout(t)
  BY <1>0, <1>3, GotoType DEF TakeTimeout, hardware
<1>4. CASE FindFree(t)
  BY <1>0, <1>4, GotoType DEF FindFree, hardware
<1>5. CASE StartConversion(t)
  <2>1. [by |-> t, port |-> port[t], age |-> 0] \in Conversions
    BY AdcAssumption DEF Conversions, AdcAssumption
  <2> QED BY <1>0, <1>5, <2>1, GotoType DEF StartConversion
<1>6. CASE Collect(t)
  BY <1>0, <1>6, GotoType DEF Collect
<1>7. CASE ReadTimeout(t)
  BY <1>0, <1>7, GotoType DEF ReadTimeout, hardware
<1>8. CASE Give(t)
  <2>1. adc' \in Conversions \cup {NoConversion}
    <3>1. CASE adc.by = t
      BY <1>8, <3>1, NamesAssumption
         DEF Give, Conversions, NoConversion, NamesAssumption
    <3>2. CASE adc.by # t
      BY <1>8, <3>2 DEF Give
    <3> QED BY <3>1, <3>2
  <2>2. memory' \in [Ports -> Tasks \cup {None}]
    BY <1>8 DEF Give
  <2> QED BY <1>0, <1>8, <2>1, <2>2, GotoType DEF Give
<1> QED BY <1>1, <1>2, <1>3, <1>4, <1>5, <1>6, <1>7, <1>8 DEF Step

\* Every step keeps the types.
LEMMA AdcTypeNext == TypeOK /\ [Next]_vars => TypeOK'
<1> SUFFICES ASSUME TypeOK, [Next]_vars PROVE TypeOK'
  OBVIOUS
<1>0. ASSUME slowest' = slowest PROVE Conversions' = Conversions
  BY <1>0 DEF Conversions
<1>1. CASE Convert
  <2>1. adc' = NoConversion
    BY <1>1 DEF Convert
  <2>2. adc.by \in Tasks \cup {None} /\ adc.port \in Ports
    BY <1>1 DEF Convert, TypeOK, Busy, Conversions
  <2>3. memory' \in [Ports -> Tasks \cup {None}] /\ ifg' \subseteq Ports
    BY <1>1, <2>2 DEF Convert, TypeOK
  <2> QED BY <1>0, <1>1, <2>1, <2>3 DEF Convert, TypeOK, taskVars
<1>2. CASE Tick
  <2>1. timer' \in [Tasks -> 0..LongestWait]
    <3> SUFFICES ASSUME NEW t \in Tasks
                 PROVE  (IF Waiting(t) THEN timer[t] + 1 ELSE timer[t])
                          \in 0..LongestWait
      BY <1>2 DEF Tick
    <3>1. timer[t] \in 0..LongestWait
      BY DEF TypeOK
    <3>2. CASE Waiting(t)
      BY <3>1, <3>2, LongestWaitType, AdcAssumption DEF Waiting, AdcAssumption
    <3> QED BY <3>1, <3>2
  <2>2. reads' \in [Tasks -> 0..ReadsPerPeriod]
    BY <1>2, AdcAssumption DEF Tick, TypeOK, AdcAssumption
  <2>3. adc' \in Conversions \cup {NoConversion}
    <3>1. CASE Busy
      <4>1. adc \in Conversions /\ slowest \in Nat /\ adc.age < slowest
        BY <1>2, <3>1, AdcAssumption DEF Tick, TypeOK, Busy, AdcAssumption
      <4>2. [adc EXCEPT !.age = @ + 1] \in Conversions
        BY <4>1 DEF Conversions
      <4> QED BY <1>0, <1>2, <3>1, <4>2 DEF Tick
    <3>2. CASE ~Busy
      BY <1>0, <1>2, <3>2 DEF Tick, Busy, TypeOK
    <3> QED BY <3>1, <3>2
  <2> QED BY <1>0, <1>2, <2>1, <2>2, <2>3 DEF Tick, TypeOK
<1>3. CASE \E t \in Tasks : Step(t)
  BY <1>3, AdcTypeStep
<1>4. CASE \E t \in Tasks : GiveAsserts(t)
  BY <1>0, <1>4 DEF GiveAsserts, TypeOK, taskVars, hardware
<1>5. CASE UNCHANGED vars
  BY <1>0, <1>5 DEF TypeOK, vars, taskVars, hardware
<1>6. CASE AssertLoop
  BY <1>5, <1>6 DEF AssertLoop
<1> QED BY <1>1, <1>2, <1>3, <1>4, <1>5, <1>6 DEF Next

\* Type correctness: in particular no task waits longer than its timeout, at
\* the mutex (adc_mutex_take) or at the ADC (adc_read), for any timeouts.
THEOREM AdcTypeCorrect == Spec => []TypeOK
<1> QED BY AdcTypeInit, AdcTypeNext, PTL DEF Spec

\* A read of a task moves the mutex only between the task and nobody.
LEMMA HeldStep ==
    ASSUME TypeOK, HeldByReader, NEW t \in Tasks, Step(t)
    PROVE  HeldByReader'
<1> USE DEF TypeOK, HeldByReader, Reading, Goto
<1>1. CASE Request(t)
  BY <1>1 DEF Request
<1>2. CASE Take(t)
  BY <1>2 DEF Take
<1>3. CASE TakeTimeout(t)
  BY <1>3 DEF TakeTimeout
<1>4. CASE FindFree(t)
  BY <1>4 DEF FindFree
<1>5. CASE StartConversion(t)
  BY <1>5 DEF StartConversion
<1>6. CASE Collect(t)
  BY <1>6 DEF Collect
<1>7. CASE ReadTimeout(t)
  BY <1>7 DEF ReadTimeout
<1>8. CASE Give(t)
  BY <1>8 DEF Give
<1> QED BY <1>1, <1>2, <1>3, <1>4, <1>5, <1>6, <1>7, <1>8 DEF Step

\* The mutex is only ever held by a task between its take and its give, for
\* any number of readers, ports and timeouts, and for any converter: a failed
\* or late read never leaves it taken (adc_mutex_give after every read).
THEOREM MutexHeldByReader == Spec => []HeldByReader
<1>1. Init => HeldByReader
  BY DEF Init, HeldByReader
<1>2. TypeOK /\ HeldByReader /\ [Next]_vars => HeldByReader'
  <2> SUFFICES ASSUME TypeOK, HeldByReader, [Next]_vars PROVE HeldByReader'
    OBVIOUS
  <2>1. CASE Convert
    BY <2>1 DEF Convert, HeldByReader, Reading, taskVars
  <2>2. CASE Tick
    BY <2>2 DEF Tick, HeldByReader, Reading
  <2>3. CASE \E t \in Tasks : Step(t)
    BY <2>3, HeldStep
  <2>4. CASE \E t \in Tasks : GiveAsserts(t)
    BY <2>4 DEF GiveAsserts, HeldByReader, Reading, taskVars
  <2>5. CASE UNCHANGED vars
    BY <2>5 DEF HeldByReader, Reading, vars, taskVars
  <2>6. CASE AssertLoop
    BY <2>5, <2>6 DEF AssertLoop
  <2> QED BY <2>1, <2>2, <2>3, <2>4, <2>5, <2>6 DEF Next
<1> QED BY <1>1, <1>2, AdcTypeCorrect, PTL DEF Spec
-----------------------------------------------------------------------------
(* Two readers and a prompt converter.                                     *)

\* The readers of the firmware: two tasks (ReadSensors and the MPPT task), with
\* a timeout at the mutex no longer than the one at the ADC.
TwoReaders ==
    /\ ADC_MUTEX_WAIT_TIME_MS <= ADC_TIMOUT_MS
    /\ \A t, u, v \in Tasks : t = u \/ t = v \/ u = v

\* The task that reads is the one that has the mutex.
Apart == \A t \in Tasks : Reading(t) <=> holder = t

\* A conversion under way is the holder's, begun when its wait began; ...
ConversionOwned ==
    Busy => /\ holder # None /\ pc[holder] = "convert"
            /\ adc.by = holder /\ adc.port = port[holder]
            /\ adc.age = timer[holder]
            /\ ifg = {}

\* ... and so is one that has just ended.
FlagOwned ==
    ifg # {} => /\ ~Busy
                /\ holder # None /\ pc[holder] = "convert"
                /\ ifg = {port[holder]}
                /\ memory[port[holder]] = holder
                /\ timer[holder] <= slowest

\* A reader in its second loop has one of them, one in its first loop has not
\* waited.
LoopsShort ==
    \A t \in Tasks : /\ pc[t] = "convert" => Busy \/ ifg # {}
                     /\ pc[t] = "busy" => timer[t] = 0

\* An upper bound of the time a task has had the mutex since it last slept.
Ended(u) == IF pc[u] = "idle" THEN reads[u] ELSE reads[u] - 1

UnderWay(u) == IF pc[u] = "convert" THEN timer[u]
               ELSE IF pc[u] = "give" THEN slowest ELSE 0

Spent(u) == slowest * Ended(u) + UnderWay(u)

\* A task waits for the mutex only while the other has it.
WaitCovered ==
    /\ \A t \in Tasks : pc[t] # "idle" => reads[t] >= 1
    /\ \A t, u \in Tasks : pc[t] = "take" /\ t # u => timer[t] <= Spent(u)

ReadsSound == ~halted /\ \A t \in Tasks : result[t] # "stale"

ExclusionInv ==
    /\ Apart /\ ConversionOwned /\ FlagOwned /\ LoopsShort
    /\ WaitCovered /\ ReadsSound

\* Times add up.
LEMMA Times ==
    ASSUME NEW s \in Nat
    PROVE  /\ \A r \in Nat : s * r \in Nat
           /\ \A r \in Nat : s * (r + 1) = s * r + s
           /\ \A r, q \in Nat : r <= q => s * r <= s * q
<1>1. \A r \in Nat : s * r \in Nat /\ s * (r + 1) = s * r + s
  OBVIOUS
<1>2. ASSUME NEW r \in Nat, NEW q \in Nat, r <= q PROVE s * r <= s * q
  <2>1. q - r \in Nat /\ q = r + (q - r)
    BY <1>2
  <2>2. s * q = s * r + s * (q - r) /\ s * (q - r) \in Nat /\ s * r \in Nat
    BY <2>1
  <2> QED BY <2>2
<1> QED BY <1>1, <1>2

Exclusion == TypeOK /\ ExclusionInv

\* What is known of the numbers.
LEMMA Numbers ==
    ASSUME Exclusion, Prompt, TwoReaders
    PROVE  /\ slowest \in Nat /\ slowest < ADC_MUTEX_WAIT_TIME_MS
           /\ slowest < ADC_TIMOUT_MS /\ ADC_TIMOUT_MS \in Nat \ {0}
           /\ timer \in [Tasks -> Nat] /\ reads \in [Tasks -> Nat]
           /\ \A t \in Tasks : reads[t] <= ReadsPerPeriod
           /\ None \notin Tasks
<1>1. /\ slowest \in Nat /\ ReadsPerPeriod \in Nat \ {0}
      /\ ADC_MUTEX_WAIT_TIME_MS \in Nat \ {0} /\ ADC_TIMOUT_MS \in Nat \ {0}
  BY AdcAssumption DEF Exclusion, TypeOK, AdcAssumption
<1>2. slowest * 1 <= slowest * ReadsPerPeriod /\ slowest * 1 = slowest
      /\ slowest * ReadsPerPeriod \in Nat
  BY <1>1, Times
<1>3. slowest < ADC_MUTEX_WAIT_TIME_MS /\ slowest < ADC_TIMOUT_MS
  BY <1>1, <1>2 DEF Prompt, TwoReaders
<1>4. timer \in [Tasks -> Nat] /\ reads \in [Tasks -> Nat]
      /\ \A t \in Tasks : reads[t] <= ReadsPerPeriod
  BY <1>1, LongestWaitType DEF Exclusion, TypeOK
<1> QED BY <1>1, <1>3, <1>4, NamesAssumption DEF NamesAssumption

\* A conversion, and a wait for it, is no longer than the slowest.
LEMMA ConvertTime ==
    ASSUME Exclusion, Prompt, TwoReaders, NEW t \in Tasks, pc[t] = "convert"
    PROVE  /\ holder = t /\ timer[t] <= slowest
           /\ Busy => ifg = {} /\ adc.age = timer[t] /\ adc.by = t
                      /\ adc.port = port[t] /\ adc.age <= slowest
           /\ ~Busy => ifg = {port[t]} /\ memory[port[t]] = t
<1>1. holder = t
  BY DEF Exclusion, ExclusionInv, Apart, Reading
<1>2. CASE Busy
  <2>1. adc \in Conversions /\ slowest \in Nat
    BY <1>2, Numbers DEF Exclusion, TypeOK, Busy
  <2> QED BY <1>1, <1>2, <2>1
             DEF Exclusion, ExclusionInv, ConversionOwned, Conversions
<1>3. CASE ~Busy
  BY <1>1, <1>3 DEF Exclusion, ExclusionInv, LoopsShort, FlagOwned
<1> QED BY <1>1, <1>2, <1>3

\* What a task has spent is never more than its reads may take.
LEMMA SpentBound ==
    ASSUME Exclusion, Prompt, TwoReaders, NEW u \in Tasks
    PROVE  Spent(u) \in Nat /\ Spent(u) < ADC_MUTEX_WAIT_TIME_MS
<1>0. /\ slowest \in Nat /\ reads[u] \in Nat /\ reads[u] <= ReadsPerPeriod
      /\ timer[u] \in Nat
      /\ pc[u] # "idle" => reads[u] >= 1
  BY Numbers DEF Exclusion, ExclusionInv, WaitCovered
<1>1. UnderWay(u) \in Nat /\ UnderWay(u) <= slowest
      /\ (pc[u] = "idle" => UnderWay(u) = 0)
  BY <1>0, ConvertTime DEF UnderWay
<1>2. slowest * ReadsPerPeriod \in Nat
      /\ slowest * ReadsPerPeriod < ADC_MUTEX_WAIT_TIME_MS
      /\ ADC_MUTEX_WAIT_TIME_MS \in Nat /\ ReadsPerPeriod \in Nat
  BY <1>0, Times, AdcAssumption DEF Prompt, AdcAssumption
<1>3. CASE pc[u] = "idle"
  <2>1. slowest * reads[u] \in Nat
        /\ slowest * reads[u] <= slowest * ReadsPerPeriod
    BY <1>0, <1>2, Times
  <2>2. Spent(u) = slowest * reads[u]
    BY <1>1, <1>3, <2>1 DEF Spent, Ended
  <2> QED BY <1>2, <2>1, <2>2
<1>4. CASE pc[u] # "idle"
  <2> DEFINE r == reads[u] - 1
  <2>1. r \in Nat /\ r + 1 <= ReadsPerPeriod
    BY <1>0, <1>2, <1>4
  <2>2. slowest * r \in Nat
        /\ slowest * r + slowest <= slowest * ReadsPerPeriod
    BY <1>0, <1>2, <2>1, Times
  <2>3. Spent(u) = slowest * r + UnderWay(u)
    BY <1>4 DEF Spent, Ended
  <2> HIDE DEF r
  <2> QED BY <1>0, <1>1, <1>2, <2>2, <2>3
<1> QED BY <1>3, <1>4

\* No wait for the mutex, and no wait for the ADC, comes to its timeout.
LEMMA NoTimeout ==
    ASSUME Exclusion, Prompt, TwoReaders, NEW t \in Tasks
    PROVE  ~TakeTimeout(t) /\ ~ReadTimeout(t) /\ ~GiveAsserts(t)
<1>1. ASSUME TakeTimeout(t) PROVE FALSE
  <2>1. pc[t] = "take" /\ holder \in Tasks /\ holder # t
        /\ timer[t] = ADC_MUTEX_WAIT_TIME_MS
    BY <1>1 DEF TakeTimeout, Exclusion, TypeOK, ExclusionInv, Apart, Reading
  <2>2. timer[t] <= Spent(holder)
    BY <2>1 DEF Exclusion, ExclusionInv, WaitCovered
  <2>3. Spent(holder) \in Nat /\ Spent(holder) < ADC_MUTEX_WAIT_TIME_MS
    BY <2>1, SpentBound
  <2>4. ADC_MUTEX_WAIT_TIME_MS \in Nat
    BY AdcAssumption DEF AdcAssumption
  <2> QED BY <2>1, <2>2, <2>3, <2>4
<1>2. ASSUME ReadTimeout(t) PROVE FALSE
  <2>1. timer[t] <= slowest /\ timer[t] = ADC_TIMOUT_MS
    <3>1. CASE pc[t] = "convert"
      BY <1>2, <3>1, ConvertTime DEF ReadTimeout
    <3>2. CASE pc[t] = "busy"
      BY <1>2, <3>2, Numbers
         DEF ReadTimeout, Exclusion, ExclusionInv, LoopsShort
    <3> QED BY <1>2, <3>1, <3>2 DEF ReadTimeout
  <2> QED BY <2>1, Numbers
<1>3. ASSUME GiveAsserts(t) PROVE FALSE
  BY <1>3 DEF GiveAsserts, Exclusion, ExclusionInv, Apart, Reading
<1> QED BY <1>1, <1>2, <1>3

\* A step of one reader leaves the others where they are.
LEMMA OthersStay ==
    ASSUME TypeOK, NEW x \in Tasks, Step(x), NEW u \in Tasks, u # x
    PROVE  pc'[u] = pc[u] /\ timer'[u] = timer[u] /\ reads'[u] = reads[u]
           /\ port'[u] = port[u] /\ result'[u] = result[u]
<1> USE DEF TypeOK, Goto
<1>1. CASE Request(x)
  BY <1>1 DEF Request
<1>2. CASE Take(x) \/ TakeTimeout(x) \/ FindFree(x)
  BY <1>2 DEF Take, TakeTimeout, FindFree
<1>3. CASE StartConversion(x) \/ Collect(x) \/ ReadTimeout(x) \/ Give(x)
  BY <1>3 DEF StartConversion, Collect, ReadTimeout, Give
<1> QED BY <1>1, <1>2, <1>3 DEF Step

\* What a step of a read does to the reader's own account.
LEMMA SpentGrows ==
    ASSUME Exclusion, Prompt, TwoReaders, NEW x \in Tasks, Step(x)
    PROVE  /\ \A u \in Tasks : Spent(u)' >= Spent(u)
           /\ pc'[x] # "idle" => reads'[x] >= 1
           /\ pc'[x] = "take" => timer'[x] = 0
<1>0. /\ slowest \in Nat /\ slowest' = slowest
      /\ reads[x] \in Nat /\ timer[x] \in Nat
      /\ pc[x] # "idle" => reads[x] >= 1
      /\ \A u \in Tasks : Spent(u) \in Nat
  <2>1. slowest' = slowest
    BY DEF Step, Request, Take, TakeTimeout, FindFree, StartConversion, Collect,
           ReadTimeout, Give, hardware
  <2> QED BY <2>1, Numbers, SpentBound DEF Exclusion, ExclusionInv, WaitCovered
<1>1. ASSUME NEW u \in Tasks, u # x PROVE Spent(u)' >= Spent(u)
  <2>1. Spent(u)' = Spent(u)
    BY <1>0, <1>1, OthersStay DEF Exclusion, Spent, Ended, UnderWay
  <2> QED BY <1>0, <2>1
<1>2. /\ reads' \in [Tasks -> Nat] /\ pc' = [pc EXCEPT ![x] = pc'[x]]
      /\ pc \in [Tasks -> {"idle", "take", "busy", "start", "convert", "give"}]
      /\ timer'[x] = 0
  BY DEF Exclusion, TypeOK, Step, Request, Take, TakeTimeout, FindFree,
         StartConversion, Collect, ReadTimeout, Give, Goto
<1>3. CASE Request(x)
  <2>1. pc[x] = "idle" /\ pc'[x] = "take" /\ reads'[x] = reads[x] + 1
    BY <1>3 DEF Request, Goto, Exclusion, TypeOK
  <2>2. Spent(x)' = Spent(x)
    BY <1>0, <2>1 DEF Spent, Ended, UnderWay
  <2> QED BY <1>0, <1>1, <1>2, <2>1, <2>2
<1>4. CASE Take(x) \/ FindFree(x) \/ StartConversion(x)
  <2>1. /\ pc[x] \in {"take", "busy", "start"} /\ reads'[x] = reads[x]
        /\ pc'[x] \in {"busy", "start", "convert"}
    BY <1>4 DEF Take, FindFree, StartConversion, Goto, Exclusion, TypeOK
  <2>2. Spent(x)' = Spent(x)
    BY <1>0, <1>2, <2>1 DEF Spent, Ended, UnderWay
  <2> QED BY <1>0, <1>1, <1>2, <2>1, <2>2
<1>5. CASE Collect(x)
  <2>1. pc[x] = "convert" /\ reads'[x] = reads[x] /\ pc'[x] = "give"
    BY <1>5 DEF Collect, Goto, Exclusion, TypeOK
  <2>2. timer[x] <= slowest
    BY <2>1, ConvertTime
  <2> DEFINE m == slowest * (reads[x] - 1)
  <2>3. Spent(x)' = m + slowest /\ Spent(x) = m + timer[x] /\ m \in Nat
    <3>1. reads[x] - 1 \in Nat
      BY <1>0, <2>1
    <3> QED BY <1>0, <2>1, <3>1, Times DEF Spent, Ended, UnderWay
  <2> HIDE DEF m
  <2>4. Spent(x)' >= Spent(x)
    BY <1>0, <2>2, <2>3
  <2> QED BY <1>0, <1>1, <2>1, <2>4
<1>6. CASE Give(x)
  <2>1. pc[x] = "give" /\ reads'[x] = reads[x] /\ pc'[x] = "idle"
    BY <1>6 DEF Give, Goto, Exclusion, TypeOK
  <2> DEFINE r == reads[x] - 1
  <2>2. r \in Nat /\ reads[x] = r + 1
    BY <1>0, <2>1
  <2>3. slowest * (r + 1) = slowest * r + slowest /\ slowest * r \in Nat
    BY <1>0, <2>2, Times
  <2>4. Spent(x)' = slowest * (r + 1) + 0 /\ Spent(x) = slowest * r + slowest
    BY <1>0, <2>1, <2>2 DEF Spent, Ended, UnderWay
  <2> HIDE DEF r
  <2>5. Spent(x)' = Spent(x)
    BY <1>0, <2>3, <2>4
  <2> QED BY <1>0, <1>1, <2>1, <2>5
<1> QED BY <1>3, <1>4, <1>5, <1>6, NoTimeout DEF Step

\* So the other's wait is covered after it.
LEMMA StepCovered ==
    ASSUME Exclusion, Prompt, TwoReaders, NEW x \in Tasks, Step(x)
    PROVE  WaitCovered'
<1>1. ASSUME NEW t \in Tasks, pc'[t] # "idle" PROVE reads'[t] >= 1
  BY <1>1, SpentGrows, OthersStay DEF Exclusion, ExclusionInv, WaitCovered
<1>2. ASSUME NEW t \in Tasks, NEW u \in Tasks, pc'[t] = "take", t # u
      PROVE  timer'[t] <= Spent(u)'
  <2>1. Spent(u) \in Nat /\ Spent(u)' >= Spent(u) /\ timer[t] \in Nat
    BY SpentGrows, SpentBound, Numbers
  <2>2. timer'[t] <= Spent(u)
    <3>1. CASE t = x
      BY <1>2, <2>1, <3>1, SpentGrows
    <3>2. CASE t # x
      BY <1>2, <3>2, OthersStay DEF Exclusion, ExclusionInv, WaitCovered
    <3> QED BY <3>1, <3>2
  <2>3. Spent(u)' \in Nat /\ timer'[t] \in Nat
    <3>1. TypeOK'
      BY AdcTypeStep DEF Exclusion
    <3>2. slowest' \in Nat /\ reads'[u] \in Nat /\ timer'[u] \in Nat
          /\ timer'[t] \in Nat
      BY <3>1, LongestWaitType, AdcAssumption DEF TypeOK, AdcAssumption
    <3>3. Ended(u)' \in Nat
      BY <1>1, <3>2 DEF Ended
    <3> QED BY <3>2, <3>3, Times DEF Spent, UnderWay
  <2> QED BY <2>1, <2>2, <2>3
<1> QED BY <1>1, <1>2 DEF WaitCovered

\* The steps of a read keep the rest.
LEMMA StepExclusion ==
    ASSUME Exclusion, Prompt, TwoReaders, NEW x \in Tasks, Step(x)
    PROVE  ExclusionInv'
<1> USE DEF Exclusion, TypeOK, ExclusionInv
<1>0. WaitCovered' /\ ~halted' /\ x # None
  BY StepCovered, NamesAssumption DEF Step, ReadsSound, NamesAssumption
<1>1. \A t \in Tasks : Reading(t) <=> holder = t
  BY DEF Apart
<1>2. /\ Busy => holder \in Tasks /\ pc[holder] = "convert"
      /\ ifg # {} => holder \in Tasks /\ pc[holder] = "convert" /\ ~Busy
  BY DEF ConversionOwned, FlagOwned
<1> DEFINE Places(p, q) == pc[x] = p /\ pc' = [pc EXCEPT ![x] = q]
                           /\ timer' = [timer EXCEPT ![x] = 0]
<1>3. CASE Request(x)
  <2>1. Places("idle", "take") /\ UNCHANGED <<holder, result, hardware>>
        /\ \A t \in Tasks : t # x => port'[t] = port[t]
    BY <1>3 DEF Request, Goto
  <2>2. holder # x
    BY <1>1, <2>1 DEF Reading
  <2>3. Apart' /\ LoopsShort' /\ ReadsSound'
    BY <1>0, <1>1, <2>1
       DEF Apart, Reading, LoopsShort, ReadsSound, Busy, hardware
  <2>4. ConversionOwned' /\ FlagOwned'
    BY <1>2, <2>1, <2>2 DEF ConversionOwned, FlagOwned, Busy, hardware
  <2> QED BY <1>0, <2>3, <2>4
<1>4. CASE Take(x)
  <2>1. Places("take", "busy") /\ UNCHANGED <<port, result, hardware>>
        /\ holder = None /\ holder' = x
    BY <1>4 DEF Take, Goto
  <2>2. ~Busy /\ ifg = {}
    BY <1>2, <2>1, NamesAssumption DEF NamesAssumption
  <2>3. \A t \in Tasks : ~Reading(t)
    BY <1>1, <2>1, NamesAssumption DEF NamesAssumption
  <2>4. Apart' /\ LoopsShort' /\ ReadsSound'
    BY <1>0, <2>1, <2>2, <2>3
       DEF Apart, Reading, LoopsShort, ReadsSound, Busy, hardware
  <2>5. ConversionOwned' /\ FlagOwned'
    BY <2>1, <2>2 DEF ConversionOwned, FlagOwned, Busy, hardware
  <2> QED BY <1>0, <2>4, <2>5
<1>5. CASE FindFree(x)
  <2>1. Places("busy", "start") /\ UNCHANGED <<holder, port, result, hardware>>
    BY <1>5 DEF FindFree, Goto
  <2>2. holder = x /\ ~Busy /\ ifg = {}
    BY <1>1, <1>2, <2>1 DEF Reading
  <2>3. Apart' /\ LoopsShort' /\ ReadsSound'
    BY <1>0, <1>1, <2>1, <2>2
       DEF Apart, Reading, LoopsShort, ReadsSound, Busy, hardware
  <2>4. ConversionOwned' /\ FlagOwned'
    BY <2>1, <2>2 DEF ConversionOwned, FlagOwned, Busy, hardware
  <2> QED BY <1>0, <2>3, <2>4
<1>6. CASE StartConversion(x)
  <2>1. Places("start", "convert") /\ UNCHANGED <<holder, port, result, ifg>>
        /\ adc' = [by |-> x, port |-> port[x], age |-> 0]
    BY <1>6 DEF StartConversion, Goto
  <2>2. holder = x /\ ~Busy /\ ifg = {}
    BY <1>1, <1>2, <2>1 DEF Reading
  <2>3. Busy'
    BY <1>0, <2>1 DEF Busy, NoConversion
  <2>4. Apart' /\ LoopsShort' /\ ReadsSound'
    BY <1>0, <1>1, <2>1, <2>2, <2>3
       DEF Apart, Reading, LoopsShort, ReadsSound
  <2>5. ConversionOwned' /\ FlagOwned'
    BY <1>0, <2>1, <2>2, <2>3 DEF ConversionOwned, FlagOwned
  <2> QED BY <1>0, <2>4, <2>5
<1>7. CASE Collect(x)
  <2>1. Places("convert", "give") /\ UNCHANGED <<holder, adc>> /\ ifg' = {}
        /\ port[x] \in ifg
        /\ result' = [result EXCEPT ![x] = IF memory[port[x]] = x THEN "own"
                                           ELSE "stale"]
    BY <1>7 DEF Collect, Goto
  <2>2. holder = x /\ ~Busy /\ memory[port[x]] = x
    BY <1>1, <1>2, <2>1, ConvertTime DEF Reading
  <2>3. Apart' /\ LoopsShort'
    BY <1>1, <2>1, <2>2 DEF Apart, Reading, LoopsShort
  <2>4. ReadsSound'
    BY <1>0, <2>1, <2>2 DEF ReadsSound
  <2>5. ConversionOwned' /\ FlagOwned'
    BY <2>1, <2>2 DEF ConversionOwned, FlagOwned, Busy
  <2> QED BY <1>0, <2>3, <2>4, <2>5
<1>8. CASE Give(x)
  <2>1. Places("give", "idle") /\ UNCHANGED <<port, result, ifg>>
        /\ holder' = None
    BY <1>8 DEF Give, Goto
  <2>2. holder = x /\ ~Busy /\ ifg = {}
    BY <1>1, <1>2, <2>1 DEF Reading
  <2>3. adc' = adc
    BY <1>0, <1>8, <2>2 DEF Give, Busy, NoConversion
  <2>4. Apart' /\ LoopsShort' /\ ReadsSound'
    BY <1>0, <1>1, <2>1, <2>2, NamesAssumption
       DEF Apart, Reading, LoopsShort, ReadsSound, NamesAssumption
  <2>5. ConversionOwned' /\ FlagOwned'
    BY <2>1, <2>2, <2>3 DEF ConversionOwned, FlagOwned, Busy
  <2> QED BY <1>0, <2>4, <2>5
<1> QED BY <1>3, <1>4, <1>5, <1>6, <1>7, <1>8, NoTimeout DEF Step

\* So does the end of a conversion, ...
LEMMA ConvertExclusion ==
    ASSUME Exclusion, Prompt, TwoReaders, Convert
    PROVE  ExclusionInv'
<1> USE DEF Exclusion, TypeOK, ExclusionInv
<1>1. /\ Busy /\ adc' = NoConversion /\ ifg' = ifg \cup {adc.port}
      /\ memory' = [memory EXCEPT ![adc.port] = adc.by]
      /\ UNCHANGED <<holder, pc, port, timer, reads, result, halted, slowest>>
  BY DEF Convert, taskVars
<1>2. /\ holder \in Tasks /\ pc[holder] = "convert"
      /\ adc.by = holder /\ adc.port = port[holder] /\ ifg = {}
      /\ timer[holder] <= slowest
  <2>1. holder \in Tasks /\ pc[holder] = "convert"
    BY <1>1 DEF ConversionOwned
  <2> QED BY <1>1, <2>1, ConvertTime
<1>3. ~Busy' /\ ifg' = {port[holder]} /\ memory'[port[holder]] = holder
  BY <1>1, <1>2 DEF Busy
<1>4. Apart' /\ ReadsSound' /\ LoopsShort'
  BY <1>1, <1>3 DEF Apart, Reading, ReadsSound, LoopsShort
<1>5. ConversionOwned' /\ FlagOwned'
  BY <1>1, <1>2, <1>3, NamesAssumption
     DEF ConversionOwned, FlagOwned, NamesAssumption
<1>6. WaitCovered'
  BY <1>1 DEF WaitCovered, Spent, Ended, UnderWay
<1> QED BY <1>4, <1>5, <1>6

\* ... and the passing of time: if a task waits for the mutex the other has a
\* conversion under way.
LEMMA TickExclusion ==
    ASSUME Exclusion, Prompt, TwoReaders, Tick
    PROVE  ExclusionInv'
<1> USE DEF Exclusion, TypeOK, ExclusionInv
<1>0. /\ \A t \in Tasks : pc[t] = "idle" \/ Waiting(t)
      /\ timer' = [t \in Tasks |-> IF Waiting(t) THEN timer[t] + 1 ELSE timer[t]]
      /\ reads' = [t \in Tasks |-> IF pc[t] = "idle" THEN 0 ELSE reads[t]]
      /\ adc' = IF Busy THEN [adc EXCEPT !.age = @ + 1] ELSE adc
      /\ UNCHANGED <<holder, pc, port, result, ifg, memory, halted, slowest>>
      /\ Busy => adc.age < slowest
  BY DEF Tick
<1>1. \A t \in Tasks : Reading(t) <=> holder = t
  BY DEF Apart
<1>2. \A t \in Tasks : Reading(t) =>
          pc[t] = "convert" /\ Waiting(t) /\ Busy /\ ifg = {}
  <2> SUFFICES ASSUME NEW t \in Tasks, Reading(t)
               PROVE  pc[t] = "convert" /\ Waiting(t) /\ Busy /\ ifg = {}
    OBVIOUS
  <2>1. Waiting(t) /\ holder = t
    BY <1>0, <1>1 DEF Reading
  <2>2. pc[t] = "convert" /\ port[t] \notin ifg
    BY <2>1 DEF Waiting, Reading, ConversionOwned
  <2> QED BY <2>1, <2>2, ConvertTime
<1>3. Busy' <=> Busy
  BY <1>0, Numbers DEF Busy, NoConversion, Conversions
<1>4. Apart' /\ ReadsSound'
  BY <1>0 DEF Apart, Reading, ReadsSound
<1>5. LoopsShort'
  BY <1>0, <1>2, <1>3 DEF LoopsShort, Reading
<1>6. FlagOwned'
  <2>1. ifg = {}
    BY <1>1, <1>2 DEF FlagOwned
  <2> QED BY <1>0, <2>1 DEF FlagOwned
<1>7. ConversionOwned'
  <2> SUFFICES ASSUME Busy PROVE ConversionOwned'
    BY <1>3 DEF ConversionOwned
  <2>1. /\ holder \in Tasks /\ holder # None /\ pc[holder] = "convert"
        /\ Waiting(holder) /\ adc.by = holder /\ adc.port = port[holder]
        /\ adc.age = timer[holder] /\ ifg = {}
    BY <1>1, <1>2 DEF ConversionOwned
  <2>2. adc'.by = adc.by /\ adc'.port = adc.port /\ adc'.age = adc.age + 1
    BY <1>0 DEF Busy, Conversions
  <2> QED BY <1>0, <2>1, <2>2 DEF ConversionOwned
<1>8. WaitCovered'
  <2>1. \A t \in Tasks : pc'[t] # "idle" => reads'[t] >= 1
    BY <1>0 DEF WaitCovered
  <2>2. ASSUME NEW t \in Tasks, NEW u \in Tasks, pc'[t] = "take", t # u
        PROVE  timer'[t] <= Spent(u)'
    <3>1. holder \in Tasks /\ holder # t
      BY <1>0, <1>1, <2>2 DEF Waiting, Reading
    <3>2. holder = u
      BY <2>2, <3>1 DEF TwoReaders
    <3>3. pc[u] = "convert" /\ Waiting(u) /\ Waiting(t)
      BY <1>0, <1>1, <1>2, <2>2, <3>2
    <3>4. timer'[t] = timer[t] + 1 /\ timer'[u] = timer[u] + 1
          /\ reads'[u] = reads[u]
      BY <1>0, <3>3
    <3> DEFINE m == slowest * (reads[u] - 1)
    <3>5. Spent(u)' = m + (timer[u] + 1) /\ Spent(u) = m + timer[u]
      BY <1>0, <3>3, <3>4 DEF Spent, Ended, UnderWay
    <3>6. timer[t] <= Spent(u)
      BY <1>0, <2>2 DEF WaitCovered
    <3>7. timer[t] \in Nat /\ timer[u] \in Nat /\ m \in Nat
      <4>1. slowest \in Nat /\ reads[u] - 1 \in Nat
        BY <3>3, Numbers DEF WaitCovered
      <4> QED BY <4>1, Numbers, Times
    <3> HIDE DEF m
    <3> QED BY <3>4, <3>5, <3>6, <3>7
  <2> QED BY <2>1, <2>2 DEF WaitCovered
<1> QED BY <1>4, <1>5, <1>6, <1>7, <1>8

\* With a prompt converter the two readers exclude each other, and their waits
\* are as short as they are thought to be.
LEMMA ExclusionInvariant == TwoReaders /\ Spec => [](Prompt => ExclusionInv)
<1>1. TwoReaders /\ Init => (Prompt => ExclusionInv)
  <2> SUFFICES ASSUME Init PROVE ExclusionInv
    OBVIOUS
  <2>1. slowest \in Nat /\ \A t \in Tasks : reads[t] = 0 /\ pc[t] = "idle"
    BY AdcAssumption DEF Init, AdcAssumption
  <2> QED BY <2>1, NamesAssumption
     DEF Init, ExclusionInv, Apart, Reading, ConversionOwned, FlagOwned, Busy,
         LoopsShort, WaitCovered, ReadsSound, NamesAssumption
<1>2. TwoReaders /\ TypeOK /\ (Prompt => ExclusionInv) /\ [Next]_vars
          => (Prompt => ExclusionInv)'
  <2> SUFFICES ASSUME TwoReaders, TypeOK, Prompt => ExclusionInv, [Next]_vars,
                      Prompt'
               PROVE  ExclusionInv'
    OBVIOUS
  <2>0. slowest' = slowest
    BY DEF Next, Convert, Tick, AssertLoop, GiveAsserts, Step, Request, Take,
           TakeTimeout, FindFree, StartConversion, Collect, ReadTimeout, Give,
           hardware, vars
  <2>1. Prompt /\ Exclusion
    BY <2>0 DEF Prompt, Exclusion
  <2>2. CASE UNCHANGED vars
    BY <2>1, <2>2
       DEF vars, taskVars, hardware, Exclusion, ExclusionInv, Apart, Reading,
           ConversionOwned, FlagOwned, Busy, LoopsShort, WaitCovered, Spent,
           Ended, UnderWay, ReadsSound
  <2> QED BY <2>1, <2>2, StepExclusion, ConvertExclusion, TickExclusion, NoTimeout
          DEF Next, AssertLoop
<1>3. TwoReaders => TwoReaders'
  BY DEF TwoReaders
<1> QED BY <1>1, <1>2, <1>3, AdcTypeCorrect, PTL DEF Spec

\* Two readers never use the ADC together if all that one may read in a row is
\* shorter than the other's wait for the mutex.
THEOREM ReadersExclusive == TwoReaders /\ Spec => []Exclusive
<1>1. (Prompt => ExclusionInv) => Exclusive
  BY DEF ExclusionInv, Apart, Exclusive
<1> QED BY <1>1, ExclusionInvariant, PTL

\* And each read that returns a result returns that of its own conversion.
THEOREM ReadsOwnResult == TwoReaders /\ Spec => []OwnResult
<1>1. (Prompt => ExclusionInv) => OwnResult
  BY DEF ExclusionInv, ReadsSound, OwnResult
<1> QED BY <1>1, ExclusionInvariant, PTL

\* No assertion of the kernel fails, although no reader heeds its timeout.
THEOREM AssertionsHold == TwoReaders /\ Spec => []NeverHalts
<1>1. (Prompt => ExclusionInv) => NeverHalts
  BY DEF ExclusionInv, ReadsSound, NeverHalts
<1> QED BY <1>1, ExclusionInvariant, PTL
-----------------------------------------------------------------------------
(* The service of the mutex.                                               *)

\* Each step of Adc is a step of the service, or changes nothing of it.
LEMMA AdcServiceNext ==
    TypeOK /\ HeldByReader /\ [Next]_vars => [Mutex!Next]_<<holder, Status>>
<1> SUFFICES ASSUME TypeOK, HeldByReader, [Next]_vars,
                    ~ UNCHANGED <<holder, Status>>
             PROVE  Mutex!Next
  OBVIOUS
<1>0. /\ pc \in [Tasks -> {"idle", "take", "busy", "start", "convert", "give"}]
      /\ None \notin Tasks
  BY NamesAssumption DEF TypeOK, NamesAssumption
<1>1. ASSUME holder' = holder, pc' = pc PROVE FALSE
  BY <1>1 DEF Status, StatusOf
<1>2. ASSUME NEW t \in Tasks, NEW p, Goto(t, p), holder' = holder,
             StatusOf(t)' = StatusOf(t)
      PROVE  FALSE
  <2>1. Status' = Status
    BY <1>0, <1>2 DEF Status, StatusOf, Goto
  <2> QED BY <1>2, <2>1
<1>3. ASSUME NEW t \in Tasks, Step(t) PROVE Mutex!Next
  <2>1. CASE Request(t)
    <3>1. Status' = [Status EXCEPT ![t] = "asking"] /\ Status[t] = "out"
      BY <1>0, <2>1 DEF Request, Goto, Status, StatusOf
    <3>2. Mutex!Ask(t)
      BY <2>1, <3>1 DEF Request, Mutex!Ask, Mutex!Become
    <3> QED BY <3>2 DEF Mutex!Next
  <2>2. CASE Take(t)
    <3>1. Status' = [Status EXCEPT ![t] = "in"] /\ Status[t] = "asking"
      BY <1>0, <2>2 DEF Take, Goto, Status, StatusOf
    <3>2. Mutex!Grant(t)
      BY <2>2, <3>1 DEF Take, Mutex!Grant, Mutex!Become
    <3> QED BY <3>2 DEF Mutex!Next
  <2>3. CASE TakeTimeout(t)
    <3>1. holder \notin {None, t} /\ holder' = holder
      BY <2>3 DEF TakeTimeout, HeldByReader, Reading
    <3>2. Status' = [Status EXCEPT ![t] = "refused"] /\ Status[t] = "asking"
      BY <1>0, <2>3, <3>1 DEF TakeTimeout, Goto, Status, StatusOf
    <3>3. Mutex!Refuse(t)
      BY <3>1, <3>2 DEF Mutex!Refuse, Mutex!Become
    <3> QED BY <3>3 DEF Mutex!Next
  <2>4. CASE FindFree(t)
    BY <1>0, <1>2, <2>4 DEF FindFree, Goto, StatusOf
  <2>5. CASE StartConversion(t)
    BY <1>0, <1>2, <2>5 DEF StartConversion, Goto, StatusOf
  <2>6. CASE Collect(t)
    BY <1>0, <1>2, <2>6 DEF Collect, Goto, StatusOf
  <2>7. CASE ReadTimeout(t)
    BY <1>0, <1>2, <2>7 DEF ReadTimeout, Goto, StatusOf
  <2>8. CASE Give(t)
    <3>1. Status' = [Status EXCEPT ![t] = "out"]
      BY <1>0, <2>8 DEF Give, Goto, Status, StatusOf
    <3>2. Status[t] = IF holder = t THEN "in" ELSE "refused"
      BY <2>8 DEF Give, Status, StatusOf
    <3>3. CASE holder = t
      <4>1. Mutex!Give(t)
        BY <2>8, <3>1, <3>2, <3>3 DEF Give, Mutex!Give, Mutex!Become
      <4> QED BY <4>1 DEF Mutex!Next
    <3>4. CASE holder = None
      <4>1. Mutex!GiveFree(t)
        BY <1>0, <2>8, <3>1, <3>2, <3>4
           DEF Give, Mutex!GiveFree, Mutex!Become
      <4> QED BY <4>1 DEF Mutex!Next
    <3> QED BY <2>8, <3>3, <3>4 DEF Give
  <2> QED BY <1>3, <2>1, <2>2, <2>3, <2>4, <2>5, <2>6, <2>7, <2>8 DEF Step
<1>4. CASE Convert
  BY <1>1, <1>4 DEF Convert, taskVars
<1>5. CASE Tick
  BY <1>1, <1>5 DEF Tick
<1>6. ASSUME NEW t \in Tasks, GiveAsserts(t) PROVE FALSE
  BY <1>1, <1>6 DEF GiveAsserts, taskVars
<1>7. CASE UNCHANGED vars
  BY <1>1, <1>7 DEF vars, taskVars
<1>8. CASE AssertLoop
  BY <1>7, <1>8 DEF AssertLoop
<1> QED BY <1>3, <1>4, <1>5, <1>6, <1>7, <1>8 DEF Next

\* What Adc takes of the mutex is the service that the kernel's implements
\* (theorem MutexImplemented), whatever the timeouts and however slow the
\* converter: reads that time out or go on without the mutex neither free it
\* for another task nor take it from one.
THEOREM AdcImplementsMutex == Spec => ImplementsMutex
<1>1. Init => Mutex!Init
  BY DEF Init, Mutex!Init, Status, StatusOf
<1> QED BY <1>1, AdcServiceNext, AdcTypeCorrect, MutexHeldByReader, PTL
        DEF Spec, ImplementsMutex, Mutex!Spec
=============================================================================
