----------------------------- MODULE Rtd_proofs -----------------------------
(***************************************************************************)
(* Proofs about Rtd: types, and that a read no other task interrupts       *)
(* returns the value of its channel, for any tasks, priorities, channels   *)
(* and delays.                                                             *)
(***************************************************************************)
EXTENDS Rtd, TLAPS

\* A step of a read keeps the types of what every step changes.
LEMMA AtType ==
    ASSUME TypeOK, NEW t \in Tasks, NEW here \in Places, NEW next \in Places,
           At(t, here, next)
    PROVE  pc' \in [Tasks -> Places] /\ alone' \in [Tasks -> BOOLEAN]
BY DEF TypeOK, At

\* Every step of a read keeps the types.
LEMMA ReadType ==
    ASSUME TypeOK, NEW t \in Tasks, Read(t)
    PROVE  TypeOK'
<1>0. /\ 0 \in 0..ConversionDelay /\ 0 \in 0..SlowestConversion
      /\ "idle" \in Places /\ "mux" \in Places /\ "idac" \in Places
      /\ "sync" \in Places /\ "sleep" \in Places /\ "wait" \in Places
  BY RtdAssumption DEF RtdAssumption, Places
<1>1. CASE WakeUp(t)
  <2>1. pc' \in [Tasks -> Places] /\ alone' \in [Tasks -> BOOLEAN]
    BY <1>0, <1>1, AtType DEF WakeUp
  <2> QED BY <1>1, <2>1 DEF WakeUp, TypeOK
<1>2. CASE WriteMux(t)
  BY <1>0, <1>2, AtType DEF WriteMux, TypeOK
<1>3. CASE WriteIdac(t)
  BY <1>0, <1>3, AtType DEF WriteIdac, TypeOK
<1>4. CASE Sync(t)
  BY <1>0, <1>4, AtType DEF Sync, TypeOK
<1>5. CASE Sleep(t)
  BY <1>0, <1>5, AtType DEF Sleep, TypeOK
<1>6. CASE ReadData(t)
  <2>1. last' \in [mux : Channels, idac : Channels, readers : SUBSET Tasks]
    BY <1>6 DEF ReadData, Collect, TypeOK
  <2> QED BY <1>0, <1>6, <2>1, AtType DEF ReadData, Collect, TypeOK
<1> QED BY <1>1, <1>2, <1>3, <1>4, <1>5, <1>6 DEF Read

\* Every step keeps the types.
LEMMA RtdTypeNext == TypeOK /\ [Next]_vars => TypeOK'
<1> SUFFICES ASSUME TypeOK, [Next]_vars PROVE TypeOK'
  OBVIOUS
<1>1. CASE Convert
  <2>1. last' \in [mux : Channels, idac : Channels, readers : SUBSET Tasks]
    BY <1>1 DEF Convert, TypeOK
  <2>2. age' \in 0..SlowestConversion
    BY <1>1, RtdAssumption DEF Convert, RtdAssumption
  <2> QED BY <1>1, <2>1, <2>2 DEF Convert, TypeOK, taskVars
<1>2. CASE Tick
  <2>1. timer' \in [Tasks -> 0..ConversionDelay]
    <3> SUFFICES ASSUME NEW t \in Tasks
                 PROVE  (IF pc[t] = "wait" THEN timer[t] + 1 ELSE timer[t])
                          \in 0..ConversionDelay
      BY <1>2 DEF Tick
    <3>1. timer[t] \in 0..ConversionDelay
      BY DEF TypeOK
    <3>2. pc[t] = "wait" => timer[t] < ConversionDelay
      BY <1>2 DEF Tick, Blocked
    <3> QED BY <3>1, <3>2, RtdAssumption DEF RtdAssumption
  <2>2. age' \in 0..SlowestConversion
    BY <1>2, RtdAssumption DEF Tick, TypeOK, RtdAssumption
  <2> QED BY <1>2, <2>1, <2>2 DEF Tick, TypeOK
<1>3. CASE \E t \in Tasks : Read(t)
  BY <1>3, ReadType
<1>4. CASE UNCHANGED vars
  BY <1>4 DEF TypeOK, vars, taskVars, device
<1> QED BY <1>1, <1>2, <1>3, <1>4 DEF Next

\* Type correctness: in particular no task waits longer than the delay of
\* ads1248_delay.
THEOREM RtdTypeCorrect == Spec => []TypeOK
<1>1. Init => TypeOK
  <2>1. /\ 0 \in 0..ConversionDelay /\ 0 \in 0..SlowestConversion
        /\ "idle" \in Places
    BY RtdAssumption DEF RtdAssumption, Places
  <2>2. Init => /\ pc \in [Tasks -> Places]
                /\ timer \in [Tasks -> 0..ConversionDelay]
                /\ result \in [Tasks -> {None, "own", "other"}]
                /\ alone \in [Tasks -> BOOLEAN]
    BY <2>1 DEF Init
  <2>3. Init => last \in [mux : Channels, idac : Channels,
                          readers : SUBSET Tasks]
    BY DEF Init
  <2> QED BY <2>1, <2>2, <2>3 DEF Init, TypeOK
<1> QED BY <1>1, RtdTypeNext, PTL DEF Spec

-----------------------------------------------------------------------------
\* Where a read that has been alone so far has brought the converter.
Alone(t) == alone[t] /\ pc[t] # "idle"

Quiet(t) == \A o \in Tasks \ {t} : pc[o] = "idle"

Selected(t) ==
    /\ pc[t] \in {"idac", "sync", "sleep", "wait"} => mux = channel[t]
    /\ pc[t] \in {"sync", "sleep", "wait"} => idac = channel[t]

Begun(t) ==
    pc[t] \in {"sleep", "wait"} =>
        IF converting THEN t \in readers ELSE Own(t)

\* The conversion ends before the wait does.
InTime(t) == pc[t] = "wait" /\ converting => timer[t] <= age

ReadInv(t) ==
    /\ Alone(t) => /\ Quiet(t) /\ Selected(t) /\ Begun(t) /\ InTime(t)
                   /\ pc[t] # "wait" => ~asleep
    /\ result[t] # None /\ alone[t] => result[t] = "own"

RtdInv == \A t \in Tasks : ReadInv(t)

\* A step of another task's read ends every claim on a read under way.
LEMMA OthersInv ==
    ASSUME TypeOK, RtdInv, NEW t \in Tasks, NEW here, NEW next,
           At(t, here, next), NEW u \in Tasks, u # t, result'[u] = result[u]
    PROVE  ReadInv(u)'
<1>1. ~Alone(u)'
  BY DEF At, Alone, TypeOK
<1>2. alone'[u] => alone[u]
  BY DEF At, TypeOK
<1> QED BY <1>1, <1>2 DEF RtdInv, ReadInv

\* A step of the read of t that leaves it alone finds it alone, unless it is
\* the first.
LEMMA AtAlone ==
    ASSUME TypeOK, RtdInv, NEW t \in Tasks, NEW here \in Places,
           NEW next \in Places, At(t, here, next), alone'[t]
    PROVE  /\ Quiet(t)' /\ pc[t] = here /\ pc'[t] = next
           /\ here # "idle" => Alone(t)
BY DEF At, Alone, Quiet, TypeOK

\* Each step of a read keeps the invariant for the task that takes it.
LEMMA OwnInv ==
    ASSUME TypeOK, TypeOK', RtdInv, NEW t \in Tasks, Read(t)
    PROVE  ReadInv(t)'
<1>0. {"idle", "mux", "idac", "sync", "sleep", "wait"} = Places
  BY DEF Places
<1>1. CASE WakeUp(t)
  <2>1. At(t, "idle", "mux") /\ result'[t] = None /\ ~asleep'
    BY <1>1 DEF WakeUp, TypeOK
  <2>2. pc'[t] = "mux"
    BY <2>1 DEF At, TypeOK
  <2>3. Alone(t)' => Quiet(t)'
    BY <1>0, <2>1, AtAlone DEF Alone
  <2> QED BY <2>1, <2>2, <2>3 DEF ReadInv, Selected, Begun, InTime
<1>2. CASE WriteMux(t)
  <2> SUFFICES ASSUME alone'[t] PROVE ReadInv(t)'
    BY DEF ReadInv, Alone
  <2>1. At(t, "mux", "idac")
    BY <1>2 DEF WriteMux
  <2>2. Quiet(t)' /\ Alone(t) /\ pc[t] = "mux" /\ pc'[t] = "idac"
    BY <1>0, <2>1, AtAlone
  <2>3. ReadInv(t)
    BY DEF RtdInv
  <2>4. mux' = channel'[t] /\ ~asleep'
    BY <1>2, <2>2, <2>3 DEF WriteMux, Deaf, ReadInv
  <2>5. result'[t] = result[t] /\ alone[t]
    BY <1>2, <2>2 DEF WriteMux, Alone
  <2> QED BY <2>2, <2>3, <2>4, <2>5 DEF ReadInv, Selected, Begun, InTime
<1>3. CASE WriteIdac(t)
  <2> SUFFICES ASSUME alone'[t] PROVE ReadInv(t)'
    BY DEF ReadInv, Alone
  <2>1. At(t, "idac", "sync")
    BY <1>3 DEF WriteIdac
  <2>2. Quiet(t)' /\ Alone(t) /\ pc[t] = "idac" /\ pc'[t] = "sync"
    BY <1>0, <2>1, AtAlone
  <2>3. ReadInv(t)
    BY DEF RtdInv
  <2>4. mux' = channel'[t] /\ idac' = channel'[t] /\ ~asleep'
    BY <1>3, <2>2, <2>3 DEF WriteIdac, Deaf, ReadInv, Selected
  <2>5. result'[t] = result[t] /\ alone[t]
    BY <1>3, <2>2 DEF WriteIdac, Alone
  <2> QED BY <2>2, <2>3, <2>4, <2>5 DEF ReadInv, Selected, Begun, InTime
<1>4. CASE Sync(t)
  <2> SUFFICES ASSUME alone'[t] PROVE ReadInv(t)'
    BY DEF ReadInv, Alone
  <2>1. At(t, "sync", "sleep")
    BY <1>4 DEF Sync
  <2>2. Quiet(t)' /\ Alone(t) /\ pc[t] = "sync" /\ pc'[t] = "sleep"
    BY <1>0, <2>1, AtAlone
  <2>3. ReadInv(t)
    BY DEF RtdInv
  <2>4. mux' = channel'[t] /\ idac' = channel'[t] /\ ~asleep' /\ ~Deaf
    BY <1>4, <2>2, <2>3 DEF Sync, Deaf, ReadInv, Selected
  <2>5. converting' /\ t \in readers'
    BY <1>4, <2>2, <2>4 DEF Sync
  <2>6. result'[t] = result[t] /\ alone[t]
    BY <1>4, <2>2 DEF Sync, Alone
  <2> QED BY <2>2, <2>3, <2>4, <2>5, <2>6
             DEF ReadInv, Selected, Begun, InTime
<1>5. CASE Sleep(t)
  <2> SUFFICES ASSUME alone'[t] PROVE ReadInv(t)'
    BY DEF ReadInv, Alone
  <2>1. At(t, "sleep", "wait")
    BY <1>5 DEF Sleep
  <2>2. Quiet(t)' /\ Alone(t) /\ pc[t] = "sleep" /\ pc'[t] = "wait"
    BY <1>0, <2>1, AtAlone
  <2>3. ReadInv(t)
    BY DEF RtdInv
  <2>4. Selected(t)' /\ Begun(t)'
    BY <1>5, <2>2, <2>3 DEF Sleep, ReadInv, Selected, Begun, Own
  <2>5. timer'[t] <= age'
    BY <1>5, RtdAssumption DEF Sleep, TypeOK, RtdAssumption
  <2>6. result'[t] = result[t] /\ alone[t]
    BY <1>5, <2>2 DEF Sleep, Alone
  <2> QED BY <2>2, <2>3, <2>4, <2>5, <2>6 DEF ReadInv, InTime
<1>6. CASE ReadData(t)
  <2> SUFFICES ASSUME alone'[t] PROVE ReadInv(t)'
    BY DEF ReadInv, Alone
  <2>1. At(t, "wait", "idle") /\ timer[t] = ConversionDelay
    BY <1>6 DEF ReadData
  <2>2. Alone(t) /\ pc[t] = "wait" /\ pc'[t] = "idle"
    BY <1>0, <2>1, AtAlone
  <2>3. ReadInv(t)
    BY DEF RtdInv
  <2>4. ~converting
    BY <2>1, <2>2, <2>3, RtdAssumption
       DEF ReadInv, InTime, TypeOK, RtdAssumption
  <2>5. result'[t] = "own"
    BY <1>6, <2>2, <2>3, <2>4 DEF ReadData, Collect, ReadInv, Begun, TypeOK
  <2> QED BY <2>2, <2>5 DEF ReadInv, Alone
<1> QED BY <1>1, <1>2, <1>3, <1>4, <1>5, <1>6 DEF Read

\* The invariant is kept by every step.
LEMMA RtdInvNext == TypeOK /\ TypeOK' /\ RtdInv /\ [Next]_vars => RtdInv'
<1> SUFFICES ASSUME TypeOK, TypeOK', RtdInv, [Next]_vars, NEW u \in Tasks
             PROVE  ReadInv(u)'
  BY DEF RtdInv
<1>0. ReadInv(u)
  BY DEF RtdInv
<1>1. CASE Convert
  <2>1. UNCHANGED <<pc, channel, timer, result, alone, mux, idac, asleep>>
    BY <1>1 DEF Convert, taskVars
  <2>2. Alone(u) => Begun(u)'
    BY <1>0, <1>1, <2>1 DEF Convert, ReadInv, Selected, Begun, Own
  <2>3. InTime(u)'
    BY <1>1 DEF Convert, InTime
  <2> QED BY <1>0, <2>1, <2>2, <2>3 DEF ReadInv, Alone, Quiet, Selected
<1>2. CASE Tick
  <2>1. UNCHANGED <<pc, channel, result, alone, mux, idac, asleep, converting,
                    readers, last>>
    BY <1>2 DEF Tick
  <2>2. Alone(u) => InTime(u)'
    BY <1>0, <1>2, <2>1, RtdAssumption
       DEF Tick, ReadInv, InTime, TypeOK, RtdAssumption
  <2> QED BY <1>0, <2>1, <2>2 DEF ReadInv, Alone, Quiet, Selected, Begun, Own
<1>3. ASSUME NEW t \in Tasks, Read(t) PROVE ReadInv(u)'
  <2>1. CASE t = u
    BY <1>3, <2>1, OwnInv
  <2>2. CASE t # u
    <3>1. result'[u] = result[u]
      BY <1>3, <2>2 DEF Read, WakeUp, WriteMux, WriteIdac, Sync, Sleep,
                        ReadData, Collect, TypeOK
    <3>2. \E here, next : At(t, here, next)
      BY <1>3 DEF Read, WakeUp, WriteMux, WriteIdac, Sync, Sleep, ReadData
    <3> QED BY <2>2, <3>1, <3>2, OthersInv
  <2> QED BY <2>1, <2>2
<1>4. CASE UNCHANGED vars
  BY <1>0, <1>4 DEF ReadInv, Alone, Quiet, Selected, Begun, InTime, Own, vars,
                    taskVars, device
<1> QED BY <1>1, <1>2, <1>3, <1>4 DEF Next

\* A read of an RTD that no other task interrupts returns the value of its own
\* channel (ads1248_read_data), whatever overlapping reads left in the
\* converter before, if a conversion is shorter than the delay.
THEOREM AloneReadsOwnChannel == Spec => []AloneReadsOwn
<1>1. Init => RtdInv
  BY DEF Init, RtdInv, ReadInv, Alone
<1>2. RtdInv => AloneReadsOwn
  BY DEF RtdInv, ReadInv, AloneReadsOwn
<1> QED BY <1>1, <1>2, RtdTypeCorrect, RtdInvNext, PTL DEF Spec
=============================================================================
