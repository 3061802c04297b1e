------------------------- MODULE KernelMutex_proofs -------------------------
(***************************************************************************)
(* Proofs about KernelMutex and SysLog, for any tasks, priorities, waits   *)
(* and delays: types, priority inheritance, the implementation of the      *)
(* mutex's service, who runs, the assertion of the last attempt, the time  *)
(* of a take, and whole lines in the log.                                  *)
(***************************************************************************)
EXTENDS SysLog, TLAPS

USE DEF Places, Counting

\* What a switch of tasks can choose, and what it does not touch.
LEMMA SwitchType == SwitchContext => current' \in Tasks \cup {None}
BY DEF SwitchContext

LEMMA YieldType ==
    ASSUME TypeOK, NEW b \in BOOLEAN, YieldIf(b)
    PROVE  current' \in Tasks \cup {None}
BY SwitchType DEF YieldIf, TypeOK

\* The priorities are numbers.
LEMMA PrioritiesNat == Priorities \subseteq Nat \ {0}
BY KernelAssumption DEF KernelAssumption, Priorities

LEMMA BaseType == \A t \in Tasks : Base[t] \in Priorities
BY DEF Priorities

-----------------------------------------------------------------------------
(* Types.                                                                  *)

LEMMA TakeType ==
    ASSUME TypeOK, NEW t \in Tasks, TakeStep(t)
    PROVE  TypeOK'
<1>0. 0 \in 0 .. MaxWait + MaxDelay /\ MaxWait \in 0 .. MaxWait + MaxDelay
  BY KernelAssumption DEF KernelAssumption
<1>1. CASE TryTake(t)
  BY <1>0, <1>1 DEF TryTake, Acquire, Goto, Running, TypeOK
<1>2. CASE CheckTimeOut(t)
  <2>1. pc' \in [Tasks -> Places]
    BY <1>2 DEF CheckTimeOut, Goto, TypeOK
  <2>2. prio' \in [Tasks -> Priorities]
    BY <1>2 DEF CheckTimeOut, RaiseHolder, TypeOK
  <2>3. inherited' \in [Tasks -> BOOLEAN]
    BY <1>2 DEF CheckTimeOut, Inherits, TypeOK
  <2>4. state' \in [Tasks -> {"ready", "delayed", "waiting"}]
    BY <1>2 DEF CheckTimeOut, TypeOK
  <2>5. current' \in Tasks \cup {None}
    BY <1>2, SwitchType DEF CheckTimeOut, TypeOK
  <2> QED BY <1>2, <2>1, <2>2, <2>3, <2>4, <2>5 DEF CheckTimeOut, TypeOK
<1>3. CASE Expire(t)
  BY <1>3 DEF Expire, Goto, TypeOK
<1>4. CASE Disinherit(t)
  BY <1>4 DEF Disinherit, Goto, TypeOK
<1>5. CASE LastTry(t)
  BY <1>5 DEF LastTry, Acquire, Goto, TypeOK
<1> QED BY <1>1, <1>2, <1>3, <1>4, <1>5 DEF TakeStep

LEMMA GiveType ==
    ASSUME TypeOK, NEW t \in Tasks, Give(t)
    PROVE  TypeOK'
<1>1. CASE GiveOwn(t)
  <2>1. pc' \in [Tasks -> Places] /\ holder' = None /\ halted' = halted
    BY <1>1 DEF GiveOwn, Goto, TypeOK
  <2>2. prio' \in [Tasks -> Priorities]
    BY <1>1, BaseType DEF GiveOwn, TypeOK
  <2>3. state' \in [Tasks -> {"ready", "delayed", "waiting"}]
    BY <1>1 DEF GiveOwn, TypeOK
  <2>4. current' \in Tasks \cup {None}
    BY <1>1, SwitchType DEF GiveOwn, YieldIf, TypeOK
  <2> QED BY <2>1, <2>2, <2>3, <2>4 DEF Give, TypeOK
<1>2. CASE GiveForeign(t)
  BY <1>2 DEF Give, GiveForeign, TypeOK
<1>3. CASE GiveFree(t)
  BY <1>3 DEF Give, GiveFree, Goto, TypeOK
<1> QED BY <1>1, <1>2, <1>3 DEF Give

LEMMA TypeNext == TypeOK /\ [Next]_vars => TypeOK'
<1> SUFFICES ASSUME TypeOK, [Next]_vars PROVE TypeOK'
  OBVIOUS
<1>1. CASE Tick
  <2>1. left' \in [Tasks -> 0 .. MaxWait + MaxDelay]
    <3> SUFFICES ASSUME NEW t \in Tasks
                 PROVE  (IF left[t] > 0 THEN left[t] - 1 ELSE 0)
                          \in 0 .. MaxWait + MaxDelay
      BY <1>1 DEF Tick
    <3> QED BY KernelAssumption DEF KernelAssumption, TypeOK
  <2>2. state' \in [Tasks -> {"ready", "delayed", "waiting"}]
    BY <1>1 DEF Tick, TypeOK
  <2>3. current' \in Tasks \cup {None}
    BY <1>1, SwitchType DEF Tick, YieldIf, TypeOK
  <2> QED BY <1>1, <2>1, <2>2, <2>3 DEF Tick, TypeOK
<1>2. ASSUME NEW t \in Tasks, Delay(t) PROVE TypeOK'
  <2>1. left' \in [Tasks -> 0 .. MaxWait + MaxDelay]
    BY <1>2, KernelAssumption DEF Delay, TypeOK, KernelAssumption
  <2> QED BY <1>2, <2>1, SwitchType DEF Delay, TypeOK
<1>3. ASSUME NEW t \in Tasks, Call(t) PROVE TypeOK'
  BY <1>3 DEF Call, Goto, TypeOK
<1>4. CASE UNCHANGED vars
  BY <1>4 DEF vars, TypeOK
<1> QED BY <1>1, <1>2, <1>3, <1>4, TakeType, GiveType DEF Next, TaskStep

\* Every variable of the mutex and of the scheduler keeps its type, for any
\* tasks, priorities and timeouts.
THEOREM KernelTypeCorrect == Spec => []TypeOK
<1>1. Init => TypeOK
  BY KernelAssumption, BaseType, 0 \in 0 .. MaxWait + MaxDelay
     DEF KernelAssumption, Init, TypeOK
<1> QED BY <1>1, TypeNext, PTL DEF Spec
-----------------------------------------------------------------------------
(* Who holds the mutex, and who may run.                                   *)

\* The task that is in is the holder; a task waits only between two attempts;
\* the task that runs is ready.
Coherent ==
    /\ \A t \in Tasks : pc[t] = "in" <=> holder = t
    /\ \A t \in Tasks : state[t] = "waiting" => pc[t] = "retry"
    /\ \A t \in Tasks : current = t => state[t] = "ready"

\* A switch of tasks brings a ready task, and no ready task is above it.
LEMMA SwitchReady ==
    ASSUME SwitchContext
    PROVE  /\ \A t \in Tasks : current' = t => state'[t] = "ready"
           /\ \A r \in Tasks : state'[r] = "ready" =>
                 current' \in Tasks /\ prio'[r] <= prio'[current']
BY KernelAssumption DEF SwitchContext, KernelAssumption

LEMMA YieldReady ==
    ASSUME Coherent, NEW b \in BOOLEAN, YieldIf(b),
           \A t \in Tasks : state[t] = "ready" => state'[t] = "ready"
    PROVE  \A t \in Tasks : current' = t => state'[t] = "ready"
BY SwitchReady DEF YieldIf, Coherent

LEMMA TakeCoherent ==
    ASSUME TypeOK, Coherent, NEW t \in Tasks, TakeStep(t)
    PROVE  Coherent'
<1>0. state[t] = "ready" /\ None \notin Tasks
  BY KernelAssumption DEF KernelAssumption, TakeStep, TryTake, CheckTimeOut,
     Expire, Disinherit, LastTry, Running, Coherent
<1>1. CASE TryTake(t)
  BY <1>0, <1>1 DEF TryTake, Acquire, Goto, TypeOK, Coherent
<1>2. CASE CheckTimeOut(t)
  <2>1. pc[t] = "check" /\ pc' \in [Tasks -> Places]
        /\ holder' = holder /\ pc'[t] # "in"
        /\ \A u \in Tasks \ {t} : pc'[u] = pc[u]
    BY <1>2 DEF CheckTimeOut, Goto, TypeOK
  <2>2. \A u \in Tasks : pc'[u] = "in" <=> holder' = u
    BY <2>1 DEF Coherent
  <2>3. \A u \in Tasks : state'[u] = "waiting" => pc'[u] = "retry"
    BY <1>0, <1>2 DEF CheckTimeOut, Goto, TypeOK, Coherent
  <2>4. \A u \in Tasks : current' = u => state'[u] = "ready"
    BY <1>2, SwitchReady DEF CheckTimeOut, Coherent
  <2> QED BY <2>2, <2>3, <2>4 DEF Coherent
<1>3. CASE Expire(t)
  BY <1>0, <1>3 DEF Expire, Goto, TypeOK, Coherent
<1>4. CASE Disinherit(t)
  BY <1>0, <1>4 DEF Disinherit, Goto, TypeOK, Coherent
<1>5. CASE LastTry(t)
  BY <1>0, <1>5 DEF LastTry, Acquire, Goto, TypeOK, Coherent
<1> QED BY <1>1, <1>2, <1>3, <1>4, <1>5 DEF TakeStep

LEMMA GiveCoherent ==
    ASSUME TypeOK, Coherent, NEW t \in Tasks, Give(t)
    PROVE  Coherent'
<1>0. state[t] = "ready" /\ None \notin Tasks
  BY KernelAssumption DEF KernelAssumption, Give, Running, Coherent
<1>1. CASE GiveOwn(t)
  <2>1. \A u \in Tasks : state[u] = "ready" => state'[u] = "ready"
    BY <1>1 DEF GiveOwn, TypeOK
  <2>2. \A u \in Tasks : current' = u => state'[u] = "ready"
    BY <1>1, <2>1, SwitchReady DEF GiveOwn, YieldIf, Coherent
  <2>3. \A u \in Tasks : state'[u] = "waiting" => state[u] = "waiting"
    BY <1>1 DEF GiveOwn, TypeOK
  <2>4. \A u \in Tasks : pc'[u] = IF u = t THEN "out" ELSE pc[u]
    BY <1>1 DEF GiveOwn, Goto, TypeOK
  <2> QED BY <1>0, <1>1, <2>2, <2>3, <2>4 DEF GiveOwn, Coherent
<1>2. CASE GiveForeign(t)
  BY <1>2 DEF Give, GiveForeign, Coherent
<1>3. CASE GiveFree(t)
  BY <1>0, <1>3 DEF Give, GiveFree, Goto, TypeOK, Coherent
<1> QED BY <1>1, <1>2, <1>3 DEF Give

LEMMA CoherentNext == TypeOK /\ Coherent /\ [Next]_vars => Coherent'
<1> SUFFICES ASSUME TypeOK, Coherent, [Next]_vars PROVE Coherent'
  OBVIOUS
<1>1. CASE Tick
  <2>1. \A t \in Tasks : state'[t] = state[t] \/ state'[t] = "ready"
    BY <1>1 DEF Tick, TypeOK
  <2>2. \A t \in Tasks : current' = t => state'[t] = "ready"
    BY <1>1, <2>1, SwitchReady DEF Tick, YieldIf, Coherent
  <2> QED BY <1>1, <2>1, <2>2 DEF Tick, Coherent
<1>2. ASSUME NEW t \in Tasks, Delay(t) PROVE Coherent'
  BY <1>2, SwitchReady DEF Delay, Coherent, TypeOK
<1>3. ASSUME NEW t \in Tasks, Call(t) PROVE Coherent'
  BY <1>3 DEF Call, Goto, Running, TypeOK, Coherent
<1>4. CASE UNCHANGED vars
  BY <1>4 DEF vars, Coherent
<1> QED BY <1>1, <1>2, <1>3, <1>4, TakeCoherent, GiveCoherent DEF Next, TaskStep

LEMMA KernelCoherent == Spec => []Coherent
<1>1. Init => Coherent
  BY KernelAssumption DEF KernelAssumption, Init, Coherent
<1> QED BY <1>1, CoherentNext, KernelTypeCorrect, PTL DEF Spec
-----------------------------------------------------------------------------
(* The service of the mutex.                                               *)

\* Each step of the kernel is a step of the service, or changes nothing of it.
LEMMA ServiceNext ==
    TypeOK /\ Coherent /\ [Next]_vars =>
        [Service!Next]_<<holder, Status>>
<1> SUFFICES ASSUME TypeOK, Coherent, [Next]_vars,
                    ~ UNCHANGED <<holder, Status>>
             PROVE  Service!Next
  OBVIOUS
<1>0. /\ None \notin Tasks
      /\ pc \in [Tasks -> Places]
      /\ Status = [t \in Tasks |-> StatusOf(pc[t])]
      /\ Status' = [t \in Tasks |-> StatusOf(pc'[t])]
  BY KernelAssumption DEF KernelAssumption, TypeOK, Status
<1>1. ASSUME NEW t \in Tasks, NEW p \in Places, Goto(t, p)
      PROVE  Status' = [Status EXCEPT ![t] = StatusOf(p)]
  BY <1>0, <1>1 DEF Goto
<1>2. ASSUME NEW t \in Tasks, Call(t) PROVE Service!Ask(t)
  <2>1. pc[t] = "out" /\ Goto(t, "call") /\ holder' = holder
    BY <1>2 DEF Call
  <2> QED BY <1>0, <1>1, <2>1 DEF Service!Ask, Service!Become, StatusOf
<1>3. ASSUME NEW t \in Tasks, Acquire(t),
             pc[t] \in {"call", "retry", "last"}
      PROVE  Service!Grant(t)
  BY <1>0, <1>1, <1>3 DEF Acquire, Service!Grant, Service!Become, StatusOf
<1>4. ASSUME NEW t \in Tasks, NEW p \in {"failing", "refused"}, Goto(t, p),
             holder # None, holder' = holder, pc[t] \in {"expired", "last"}
      PROVE  Service!Refuse(t)
  <2>1. holder # t
    BY <1>4 DEF Coherent
  <2>2. Status[t] = "asking" /\ StatusOf(p) = "refused"
    BY <1>0, <1>4 DEF StatusOf
  <2>3. Status' = [Status EXCEPT ![t] = "refused"]
    BY <1>1, <1>4, <2>2
  <2> QED BY <1>4, <2>1, <2>2, <2>3 DEF Service!Refuse, Service!Become
<1>5. ASSUME NEW t \in Tasks, NEW p \in Places, Goto(t, p),
             StatusOf(p) = StatusOf(pc[t]), holder' = holder
      PROVE  FALSE
  <2>1. Status' = [Status EXCEPT ![t] = StatusOf(p)]
    BY <1>1, <1>5
  <2>2. Status[t] = StatusOf(p)
    BY <1>0, <1>5
  <2>3. Status' = Status
    BY <1>0, <2>1, <2>2
  <2> QED BY <1>5, <2>3
<1>6. ASSUME NEW t \in Tasks, TakeStep(t) PROVE Service!Next
  <2>1. CASE TryTake(t)
    BY <1>3, <1>5, <2>1 DEF TryTake, Service!Next, StatusOf
  <2>2. CASE CheckTimeOut(t)
    BY <1>5, <2>2 DEF CheckTimeOut, StatusOf
  <2>3. CASE Expire(t)
    BY <1>4, <1>5, <2>3 DEF Expire, Service!Next, StatusOf
  <2>4. CASE Disinherit(t)
    BY <1>5, <2>4 DEF Disinherit, StatusOf
  <2>5. CASE LastTry(t)
    <3>1. CASE UNCHANGED <<holder, pc>>
      BY <1>0, <3>1
    <3> QED BY <1>3, <1>4, <2>5, <3>1 DEF LastTry, Service!Next, StatusOf
  <2> QED BY <1>6, <2>1, <2>2, <2>3, <2>4, <2>5 DEF TakeStep
<1>7. ASSUME NEW t \in Tasks, Give(t) PROVE Service!Next
  <2>1. CASE GiveOwn(t)
    <3>1. pc[t] = "in"
      BY <2>1 DEF GiveOwn, Coherent
    <3>2. Service!Give(t)
      BY <1>0, <1>1, <2>1, <3>1 DEF GiveOwn, Service!Give, Service!Become, StatusOf
    <3> QED BY <3>2 DEF Service!Next
  <2>2. CASE GiveForeign(t)
    BY <1>0, <2>2 DEF GiveForeign
  <2>3. CASE GiveFree(t)
    <3>1. pc[t] = "refused"
      BY <1>0, <1>7, <2>3 DEF Give, GiveFree, Coherent
    <3>2. Service!GiveFree(t)
      BY <1>0, <1>1, <2>3, <3>1
         DEF GiveFree, Service!GiveFree, Service!Become, StatusOf
    <3> QED BY <3>2 DEF Service!Next
  <2> QED BY <1>7, <2>1, <2>2, <2>3 DEF Give
<1>8. CASE Tick
  BY <1>0, <1>8 DEF Tick
<1>9. ASSUME NEW t \in Tasks, Delay(t) PROVE FALSE
  BY <1>0, <1>9 DEF Delay
<1>10. CASE UNCHANGED vars
  BY <1>0, <1>10 DEF vars
<1> QED BY <1>2, <1>6, <1>7, <1>8, <1>9, <1>10 DEF Next, TaskStep, Service!Next

\* The kernel's mutex, with its waits, timeouts and priorities, implements the
\* service its users rely on: exclusion, grants of a free mutex only, refusals
\* only while another task is in.
THEOREM MutexImplemented == Spec => ImplementsMutex
<1>1. Init => Service!Init
  BY DEF Init, Service!Init, Status, StatusOf
<1> QED BY <1>1, ServiceNext, KernelTypeCorrect, KernelCoherent, PTL
        DEF Spec, ImplementsMutex, Service!Spec
-----------------------------------------------------------------------------
(* Priority inheritance.                                                   *)

\* A priority is never below the base.
NotLowered == \A t \in Tasks : Base[t] <= prio[t]

\* A wait above the holder's own priority is marked as one that raised it.
WaitsMarked ==
    holder # None =>
        \A w \in Waiters : Base[holder] < prio[w] => inherited[w]

\* While the mutex is free, whoever runs is above those that still wait, ...
RunnerAbove ==
    holder = None =>
        \A w \in Waiters : current \in Tasks /\ prio[w] <= prio[current]

\* ... for the one that was woken is ready.
WokenReady ==
    holder = None /\ Waiters # {} =>
        \E r \in Tasks :
            /\ state[r] = "ready"
            /\ pc[r] = "retry"
            /\ \A w \in Waiters : prio[w] <= prio[r]

BoostInv ==
    /\ NotLowered
    /\ WaitsMarked
    /\ RunnerAbove
    /\ WokenReady
    /\ HolderBoosted
    /\ BoostJustified

LEMMA PrioNat ==
    ASSUME TypeOK
    PROVE  prio \in [Tasks -> Nat] /\ Base \in [Tasks -> Nat] /\ None \notin Tasks
BY PrioritiesNat, KernelAssumption DEF TypeOK, KernelAssumption

\* While the mutex is free, and for all but the holder, no priority is raised.
LEMMA OwnPriority ==
    ASSUME BoostInv, NEW t \in Tasks, holder # t
    PROVE  prio[t] = Base[t]
BY DEF BoostInv, BoostJustified

\* The task that takes a free mutex is above all that wait.
LEMMA AcquireBoost ==
    ASSUME TypeOK, Coherent, BoostInv, NEW t \in Tasks, Acquire(t), current = t,
           pc[t] \in {"call", "retry", "last"},
           UNCHANGED <<current, state, prio, inherited>>
    PROVE  BoostInv'
<1>0. holder = None /\ holder' = t /\ t # None /\ prio[t] = Base[t]
  BY PrioNat, OwnPriority DEF Acquire
<1>1. \A u \in Tasks : prio[u] = Base[u]
  BY <1>0, OwnPriority, PrioNat
<1>2. Waiters' = Waiters /\ Waiters \subseteq Tasks
  BY DEF Waiters
<1>3. \A w \in Waiters : prio[w] <= prio[t]
  BY <1>0 DEF BoostInv, RunnerAbove
<1>4. NotLowered' /\ BoostJustified'
  BY <1>1 DEF BoostInv, NotLowered, BoostJustified
<1>5. WaitsMarked' /\ HolderBoosted'
  BY <1>0, <1>2, <1>3, PrioNat DEF WaitsMarked, HolderBoosted
<1>6. RunnerAbove' /\ WokenReady'
  BY <1>0 DEF RunnerAbove, WokenReady
<1> QED BY <1>4, <1>5, <1>6 DEF BoostInv

\* Steps that move one task on in its call, but not out of its wait, and leave
\* the rest alone.
LEMMA MoveBoost ==
    ASSUME TypeOK, Coherent, BoostInv, NEW t \in Tasks, NEW p \in Places,
           Goto(t, p), UNCHANGED <<current, state, prio, holder>>,
           pc[t] # "retry" \/ holder # None,
           \A u \in Tasks \ {t} : inherited'[u] = inherited[u],
           inherited'[t] = inherited[t] \/ state[t] # "waiting",
           \/ ~inherited[t]
           \/ pc[t] \in {"out"}
           \/ /\ inherited'[t] = inherited[t]
              /\ p \in Counting \cup {"expired", "failing", "last"}
    PROVE  BoostInv'
<1>0. Waiters' = Waiters
  BY DEF Waiters
<1>1. \A u \in Tasks : pc'[u] = IF u = t THEN p ELSE pc[u]
  BY DEF Goto, TypeOK
<1>2. BoostJustified'
  <2> SUFFICES ASSUME NEW u \in Tasks, prio[u] # Base[u]
               PROVE  /\ holder = u
                      /\ \E w \in Tasks :
                            /\ inherited'[w]
                            /\ prio[w] = prio[u]
                            /\ pc'[w] \in Counting \cup {"expired", "failing", "last"}
    BY DEF BoostJustified
  <2>1. PICK w \in Tasks :
              /\ inherited[w]
              /\ prio[w] = prio[u]
              /\ pc[w] \in Counting \cup {"expired", "failing", "last"}
    BY DEF BoostInv, BoostJustified
  <2>2. inherited'[w] /\ pc'[w] \in Counting \cup {"expired", "failing", "last"}
    BY <1>1, <2>1
  <2> QED BY <2>1, <2>2 DEF BoostInv, BoostJustified
<1>3. NotLowered' /\ HolderBoosted' /\ RunnerAbove'
  BY <1>0 DEF BoostInv, NotLowered, HolderBoosted, RunnerAbove
<1>4. WaitsMarked'
  BY <1>0 DEF BoostInv, WaitsMarked, Waiters
<1>5. WokenReady'
  BY <1>0, <1>1 DEF BoostInv, WokenReady
<1> QED BY <1>2, <1>3, <1>4, <1>5 DEF BoostInv

\* A wait raises the holder, and is marked if it does.
LEMMA WaitBoost ==
    ASSUME TypeOK, Coherent, BoostInv, NEW t \in Tasks, CheckTimeOut(t),
           left[t] > 0, holder # None
    PROVE  BoostInv'
<1>0. /\ pc[t] = "check" /\ Goto(t, "retry") /\ holder' = holder
      /\ inherited' = [inherited EXCEPT ![t] = Inherits(t)]
      /\ RaiseHolder(t)
      /\ state' = [state EXCEPT ![t] = "waiting"]
  BY DEF CheckTimeOut, TypeOK
<1>1. holder \in Tasks /\ holder # t /\ pc[holder] = "in"
  BY <1>0 DEF TypeOK, Coherent
<1>2. /\ prio'[holder] = IF prio[holder] < prio[t] THEN prio[t] ELSE prio[holder]
      /\ \A u \in Tasks \ {holder} : prio'[u] = prio[u] /\ prio[u] = Base[u]
  BY <1>0, <1>1, OwnPriority DEF RaiseHolder, TypeOK
<1>3. Waiters' = Waiters \cup {t} /\ holder \notin Waiters'
  BY <1>0, <1>1 DEF Waiters, TypeOK, Coherent
<1>4. /\ inherited'[t] <=> Base[holder] < prio[t]
      /\ \A u \in Tasks \ {t} : inherited'[u] = inherited[u]
  BY <1>0, <1>1 DEF Inherits, TypeOK
<1>5. NotLowered'
  BY <1>1, <1>2, PrioNat DEF BoostInv, NotLowered
<1>6. WaitsMarked'
  BY <1>0, <1>1, <1>2, <1>3, <1>4 DEF BoostInv, WaitsMarked, Waiters
<1>7. HolderBoosted'
  BY <1>0, <1>1, <1>2, <1>3, PrioNat DEF BoostInv, HolderBoosted, Waiters
<1>8. BoostJustified'
  <2> SUFFICES ASSUME prio'[holder] # Base[holder]
               PROVE  \E w \in Tasks :
                         /\ inherited'[w]
                         /\ prio'[w] = prio'[holder]
                         /\ pc'[w] \in Counting \cup {"expired", "failing", "last"}
    BY <1>0, <1>2 DEF BoostJustified
  <2>1. pc'[t] = "retry" /\ \A u \in Tasks \ {t} : pc'[u] = pc[u]
    BY <1>0 DEF Goto, TypeOK
  <2>2. CASE prio[holder] < prio[t]
    <3>1. Base[holder] < prio[t]
      BY <1>1, <2>2, PrioNat DEF BoostInv, NotLowered
    <3>2. inherited'[t]
      BY <1>4, <3>1
    <3> QED BY <1>1, <1>2, <2>1, <2>2, <3>2
  <2>3. CASE ~ (prio[holder] < prio[t])
    <3>1. PICK w \in Tasks :
              /\ inherited[w]
              /\ prio[w] = prio[holder]
              /\ pc[w] \in Counting \cup {"expired", "failing", "last"}
      BY <1>1, <1>2, <2>3 DEF BoostInv, BoostJustified
    <3>2. w # holder
      BY <1>1, <3>1
    <3>3. Base[holder] < prio[holder]
      BY <1>1, <1>2, <2>3, PrioNat DEF BoostInv, NotLowered
    <3>4. inherited'[w]
      BY <1>4, <3>1, <3>3
    <3> QED BY <1>1, <1>2, <2>1, <2>3, <3>1, <3>2, <3>4
  <2> QED BY <2>2, <2>3
<1>9. RunnerAbove' /\ WokenReady'
  BY <1>0 DEF RunnerAbove, WokenReady
<1> QED BY <1>5, <1>6, <1>7, <1>8, <1>9 DEF BoostInv

\* A wait that has timed out is taken back, and the waits of others are not.
LEMMA DisinheritBoost ==
    ASSUME TypeOK, Coherent, BoostInv, NEW t \in Tasks, Disinherit(t),
           holder # None
    PROVE  BoostInv'
<1>1. PICK p \in Priorities :
          PriorityToUse(p) /\ prio' = [prio EXCEPT ![holder] = p]
  BY DEF Disinherit
<1>2. /\ holder \in Tasks /\ pc[holder] = "in" /\ p \in Nat
      /\ holder' = holder /\ inherited' = inherited
      /\ \A u \in Tasks \ {t} : pc'[u] = pc[u]
  BY PrioritiesNat DEF Disinherit, Goto, TypeOK, Coherent
<1>3. prio'[holder] = p /\ \A u \in Tasks \ {holder} : prio'[u] = prio[u]
  BY <1>1, <1>2 DEF TypeOK
<1>4. /\ Waiters' = Waiters /\ Waiters \subseteq Tasks
      /\ \A w \in Waiters : w # holder /\ w # t /\ pc[w] = "retry"
  BY <1>2 DEF Disinherit, Waiters, Coherent
<1>5. NotLowered'
  BY <1>1, <1>2, <1>3 DEF PriorityToUse, BoostInv, NotLowered
<1>6. WaitsMarked'
  BY <1>2, <1>3, <1>4 DEF BoostInv, WaitsMarked
<1>7. HolderBoosted'
  BY <1>1, <1>2, <1>3, <1>4, PrioNat DEF PriorityToUse, HolderBoosted
<1>8. BoostJustified'
  <2> SUFFICES ASSUME p # Base[holder]
               PROVE  \E w \in Tasks :
                         /\ inherited[w]
                         /\ prio'[w] = p
                         /\ pc'[w] \in Counting
    BY <1>2, <1>3, OwnPriority DEF BoostJustified
  <2>1. PICK w \in Waiters : prio[w] = p
    BY <1>1 DEF PriorityToUse
  <2>2. Base[holder] < prio[w]
    BY <1>1, <1>2, <2>1, PrioNat DEF PriorityToUse
  <2>3. inherited[w]
    BY <2>2 DEF BoostInv, WaitsMarked
  <2> QED BY <1>2, <1>3, <1>4, <2>1, <2>3
<1>9. RunnerAbove' /\ WokenReady'
  BY <1>2 DEF RunnerAbove, WokenReady
<1> QED BY <1>5, <1>6, <1>7, <1>8, <1>9 DEF BoostInv

LEMMA TakeBoost ==
    ASSUME TypeOK, Coherent, BoostInv, NEW t \in Tasks, TakeStep(t)
    PROVE  BoostInv'
<1>0. current = t /\ state[t] # "waiting"
  BY DEF TakeStep, TryTake, CheckTimeOut, Expire, Disinherit, LastTry, Running,
     Coherent
<1>1. CASE TryTake(t)
  BY <1>0, <1>1, AcquireBoost, MoveBoost DEF TryTake
<1>2. CASE CheckTimeOut(t)
  <2>1. CASE left[t] > 0 /\ holder # None
    BY <1>2, <2>1, WaitBoost
  <2>2. CASE ~ (left[t] > 0 /\ holder # None)
    BY <1>0, <1>2, <2>2, MoveBoost DEF CheckTimeOut
  <2> QED BY <2>1, <2>2
<1>3. CASE Expire(t)
  BY <1>0, <1>3, MoveBoost DEF Expire
<1>4. CASE Disinherit(t)
  <2>1. CASE holder # None
    BY <1>4, <2>1, DisinheritBoost
  <2>2. CASE holder = None
    <3>1. UNCHANGED <<current, state, prio, holder, inherited>>
      BY <1>4, <2>2 DEF Disinherit
    <3>2. \A u \in Tasks : pc'[u] = IF u = t THEN "refused" ELSE pc[u]
      BY <1>4 DEF Disinherit, Goto, TypeOK
    <3>3. \A u \in Tasks : prio[u] = Base[u]
      BY <2>2, OwnPriority, PrioNat
    <3>4. BoostJustified'
      BY <3>1, <3>3 DEF BoostJustified
    <3>5. Waiters' = Waiters /\ pc[t] = "failing"
      BY <1>4, <3>1 DEF Disinherit, Waiters
    <3>6. NotLowered' /\ WaitsMarked' /\ RunnerAbove' /\ HolderBoosted'
      BY <3>1, <3>5
         DEF BoostInv, NotLowered, WaitsMarked, RunnerAbove, HolderBoosted
    <3>7. WokenReady'
      BY <3>1, <3>2, <3>5 DEF BoostInv, WokenReady
    <3> QED BY <3>4, <3>6, <3>7 DEF BoostInv
  <2> QED BY <2>1, <2>2
<1>5. CASE LastTry(t)
  <2>1. CASE UNCHANGED <<holder, pc>>
    BY <1>5, <2>1 DEF LastTry, BoostInv, NotLowered, WaitsMarked, RunnerAbove,
       WokenReady, HolderBoosted, BoostJustified, Waiters
  <2> QED BY <1>0, <1>5, <2>1, AcquireBoost, MoveBoost DEF LastTry
<1> QED BY <1>1, <1>2, <1>3, <1>4, <1>5 DEF TakeStep

\* The holder takes off what it inherited, and the highest of those that wait
\* is woken.
LEMMA GiveBoost ==
    ASSUME TypeOK, Coherent, BoostInv, NEW t \in Tasks, Give(t)
    PROVE  BoostInv'
<1>0. current = t /\ state[t] = "ready" /\ t # None
  BY PrioNat DEF Give, Running, Coherent
<1>1. CASE GiveOwn(t)
  <2>1. /\ holder = t /\ holder' = None /\ Goto(t, "out")
        /\ prio' = [prio EXCEPT ![t] = Base[t]]
    BY <1>1 DEF GiveOwn
  <2>2. \A u \in Tasks : prio'[u] = Base[u]
    BY <2>1, OwnPriority DEF TypeOK
  <2>3. NotLowered' /\ BoostJustified' /\ WaitsMarked' /\ HolderBoosted'
    BY <2>1, <2>2, PrioNat
       DEF NotLowered, BoostJustified, WaitsMarked, HolderBoosted
  <2>4. CASE Waiters = {} /\ UNCHANGED state
    <3>1. Waiters' = {}
      BY <2>4 DEF Waiters
    <3> QED BY <2>3, <3>1 DEF BoostInv, RunnerAbove, WokenReady
  <2>5. ASSUME NEW w \in Waiters,
               \A v \in Waiters : prio[v] <= prio[w],
               state' = [state EXCEPT ![w] = "ready"],
               YieldIf(prio[w] > Base[t])
        PROVE  BoostInv'
    <3>1. /\ w \in Tasks /\ w # t /\ pc[w] = "retry" /\ state'[w] = "ready"
          /\ pc'[w] = "retry" /\ prio'[w] = prio[w] /\ prio'[t] = Base[t]
      BY <1>0, <2>1, <2>5 DEF Waiters, Coherent, Goto, TypeOK
    <3>2. Waiters' \subseteq Waiters /\ t \notin Waiters
      BY <1>0, <2>5 DEF Waiters, TypeOK
    <3>3. \A v \in Waiters' : prio'[v] <= prio'[w]
      BY <2>1, <2>5, <3>1, <3>2 DEF TypeOK, Waiters
    <3>4. prio' \in [Tasks -> Nat] /\ Waiters' \subseteq Tasks
      BY <2>1, PrioNat DEF Waiters
    <3>5. current' \in Tasks /\ prio'[w] <= prio'[current']
      <4>1. CASE prio[w] > Base[t]
        BY <2>5, <3>1, <4>1, SwitchReady DEF YieldIf
      <4>2. CASE ~ (prio[w] > Base[t])
        <5>1. current' = t
          BY <1>0, <2>5, <4>2 DEF YieldIf
        <5> QED BY <3>1, <4>2, <5>1, PrioNat
      <4> QED BY <4>1, <4>2
    <3>6. RunnerAbove'
      BY <3>3, <3>4, <3>5, <3>1 DEF RunnerAbove
    <3>7. WokenReady'
      BY <3>1, <3>3 DEF WokenReady
    <3> QED BY <2>3, <3>6, <3>7 DEF BoostInv
  <2> QED BY <1>1, <2>4, <2>5, <2>1, PrioNat DEF GiveOwn, TypeOK
<1>2. CASE GiveForeign(t)
  BY <1>2 DEF Give, GiveForeign, BoostInv, NotLowered, WaitsMarked, RunnerAbove,
     WokenReady, HolderBoosted, BoostJustified, Waiters
<1>3. CASE GiveFree(t)
  <2>1. /\ holder = None /\ Goto(t, "out") /\ pc[t] \in {"in", "refused"}
        /\ UNCHANGED <<current, state, prio, holder, inherited>>
    BY <1>3 DEF Give, GiveFree
  <2>2. \A u \in Tasks : prio[u] = Base[u]
    BY <2>1, OwnPriority, PrioNat
  <2>3. Waiters' = Waiters
    BY <2>1 DEF Waiters
  <2>4. \A u \in Tasks \ {t} : pc'[u] = pc[u]
    BY <2>1 DEF Goto, TypeOK
  <2>5. BoostJustified'
    BY <2>1, <2>2 DEF BoostJustified
  <2>6. NotLowered' /\ WaitsMarked' /\ RunnerAbove' /\ HolderBoosted'
    BY <2>1, <2>3
       DEF BoostInv, NotLowered, WaitsMarked, RunnerAbove, HolderBoosted
  <2>7. WokenReady'
    BY <2>1, <2>3, <2>4 DEF BoostInv, WokenReady
  <2> QED BY <2>5, <2>6, <2>7 DEF BoostInv
<1> QED BY <1>1, <1>2, <1>3 DEF Give

\* Steps that wake tasks, put the running one to sleep, and switch.
LEMMA SwitchBoost ==
    ASSUME TypeOK, Coherent, BoostInv,
           UNCHANGED <<prio, holder, pc, inherited>>,
           Waiters' \subseteq Waiters,
           \A r \in Tasks : state[r] = "ready" /\ pc[r] = "retry" =>
               state'[r] = "ready",
           SwitchContext \/ UNCHANGED current
    PROVE  BoostInv'
<1>1. NotLowered' /\ WaitsMarked' /\ HolderBoosted' /\ BoostJustified'
  BY DEF BoostInv, NotLowered, WaitsMarked, HolderBoosted, BoostJustified
<1>2. WokenReady'
  BY DEF BoostInv, WokenReady
<1>3. RunnerAbove'
  <2> SUFFICES ASSUME holder = None, NEW w \in Waiters'
               PROVE  current' \in Tasks /\ prio[w] <= prio[current']
    BY DEF RunnerAbove
  <2>1. CASE UNCHANGED current
    BY <2>1 DEF BoostInv, RunnerAbove
  <2>2. CASE SwitchContext
    <3>1. PICK r \in Tasks :
              /\ state[r] = "ready"
              /\ pc[r] = "retry"
              /\ \A v \in Waiters : prio[v] <= prio[r]
      BY DEF BoostInv, WokenReady
    <3>2. current' \in Tasks /\ prio[r] <= prio[current']
      BY <2>2, <3>1, SwitchReady
    <3>3. w \in Tasks /\ prio[w] <= prio[r]
      BY <3>1 DEF Waiters
    <3> QED BY <3>2, <3>3, PrioNat
  <2> QED BY <2>1, <2>2
<1> QED BY <1>1, <1>2, <1>3 DEF BoostInv

LEMMA BoostNext == TypeOK /\ Coherent /\ BoostInv /\ [Next]_vars => BoostInv'
<1> SUFFICES ASSUME TypeOK, Coherent, BoostInv, [Next]_vars PROVE BoostInv'
  OBVIOUS
<1>1. CASE Tick
  BY <1>1, SwitchBoost DEF Tick, YieldIf, Waiters, TypeOK
<1>2. ASSUME NEW t \in Tasks, Delay(t) PROVE BoostInv'
  BY <1>2, SwitchBoost DEF Delay, Running, Waiters, TypeOK
<1>3. ASSUME NEW t \in Tasks, Call(t) PROVE BoostInv'
  <2>1. state[t] # "waiting" /\ "call" \in Places
    BY <1>3 DEF Call, Running, Coherent
  <2>2. \A u \in Tasks \ {t} : inherited'[u] = inherited[u]
    BY <1>3 DEF Call, TypeOK
  <2> QED BY <1>3, <2>1, <2>2, MoveBoost DEF Call
<1>4. CASE UNCHANGED vars
  BY <1>4 DEF vars, BoostInv, NotLowered, WaitsMarked, RunnerAbove,
     WokenReady, HolderBoosted, BoostJustified, Waiters
<1> QED BY <1>1, <1>2, <1>3, <1>4, TakeBoost, GiveBoost DEF Next, TaskStep

LEMMA KernelBoost == Spec => []BoostInv
<1>1. Init => BoostInv
  BY KernelAssumption DEF KernelAssumption, Init, BoostInv, NotLowered,
     WaitsMarked, RunnerAbove, WokenReady, HolderBoosted, BoostJustified, Waiters
<1> QED BY <1>1, BoostNext, KernelTypeCorrect, KernelCoherent, PTL DEF Spec

\* No task waits for a holder of lower priority, whatever waits have timed out.
THEOREM NoInversion == Spec => []HolderBoosted
BY KernelBoost, PTL DEF BoostInv

\* No task keeps a priority that nobody who waits has lent to it.
THEOREM NoLostBoost == Spec => []BoostJustified
BY KernelBoost, PTL DEF BoostInv

\* No wake-up is lost: while the mutex is free and tasks wait for it, one that
\* is not below any of them is ready for its next attempt.
THEOREM NoLostWakeUp == Spec => []WokenReady
BY KernelBoost, PTL DEF BoostInv
-----------------------------------------------------------------------------
(* Who runs.                                                               *)

\* After a switch no ready task is above the one that runs.
LEMMA SwitchTop ==
    ASSUME SwitchContext, None \notin Tasks, prio' \in [Tasks -> Nat]
    PROVE  Top'
<1>1. CASE \A t \in Tasks : state'[t] # "ready"
  BY <1>1 DEF Top
<1>2. ASSUME NEW c \in Tasks, current' = c,
             \A u \in Tasks : state'[u] = "ready" => prio'[u] <= prio'[c]
      PROVE  Top'
  <2>1. PriorityOf(current)' = prio'[c]
    BY <1>2 DEF PriorityOf
  <2> QED BY <1>2, <2>1 DEF Top
<1> QED BY <1>1, <1>2 DEF SwitchContext

\* Nor after a step that leaves the lists, the priorities and the runner alone.
LEMMA KeptTop ==
    ASSUME Top, UNCHANGED <<current, state, prio>>
    PROVE  Top'
BY DEF Top, PriorityOf

\* The tick switches if what it wakes is not below the task that runs.
LEMMA TickTop == ASSUME TypeOK, Top, Tick PROVE Top'
<1>1. /\ prio' = prio
      /\ state' = [t \in Tasks |-> IF t \in Woken THEN "ready" ELSE state[t]]
  BY DEF Tick
<1>2. CASE SwitchContext
  BY <1>1, <1>2, SwitchTop, PrioNat
<1>3. ASSUME ~ \E t \in Woken : prio[t] >= PriorityOf(current),
             UNCHANGED current
      PROVE  Top'
  <2>1. ASSUME NEW t \in Tasks, state'[t] = "ready"
        PROVE  prio'[t] <= PriorityOf(current)
    <3>1. prio[t] \in Nat /\ PriorityOf(current) \in Nat
      BY PrioNat DEF PriorityOf, TypeOK
    <3>2. CASE t \in Woken
      BY <1>1, <1>3, <3>1, <3>2
    <3>3. CASE t \notin Woken
      BY <1>1, <2>1, <3>3 DEF Top
    <3> QED BY <3>2, <3>3
  <2>2. PriorityOf(current)' = PriorityOf(current)
    BY <1>1, <1>3 DEF PriorityOf
  <2> QED BY <2>1, <2>2 DEF Top
<1> QED BY <1>2, <1>3 DEF Tick, YieldIf

\* A wait that is taken back only lowers the holder, which does not run.
LEMMA DisinheritTop ==
    ASSUME TypeOK, Coherent, BoostInv, Top, NEW t \in Tasks, Disinherit(t)
    PROVE  Top'
<1>1. CASE holder = None
  BY <1>1, KeptTop DEF Disinherit
<1>2. CASE holder # None
  <2>1. PICK p \in Priorities :
            PriorityToUse(p) /\ prio' = [prio EXCEPT ![holder] = p]
    BY <1>2 DEF Disinherit
  <2>2. /\ current = t /\ holder \in Tasks /\ holder # t /\ p \in Nat
        /\ UNCHANGED <<current, state>>
    BY <1>2, PrioritiesNat DEF Disinherit, Running, TypeOK, Coherent
  <2>3. p <= prio[holder]
    BY <1>2, <2>1, <2>2, PrioNat
    DEF PriorityToUse, BoostInv, NotLowered, HolderBoosted, Waiters
  <2>4. /\ prio'[holder] = p /\ \A u \in Tasks \ {holder} : prio'[u] = prio[u]
        /\ PriorityOf(current)' = PriorityOf(current)
        /\ PriorityOf(current) = prio[t]
    BY <2>1, <2>2, PrioNat DEF PriorityOf, TypeOK
  <2>5. ASSUME NEW u \in Tasks, state'[u] = "ready"
        PROVE  prio'[u] <= PriorityOf(current)
    <3>1. prio[u] <= prio[t] /\ prio[u] \in Nat /\ prio[t] \in Nat
      BY <2>2, <2>4, <2>5, PrioNat DEF Top
    <3> QED BY <2>2, <2>3, <2>4, <3>1, PrioNat
  <2> QED BY <2>2, <2>4, <2>5 DEF Top
<1> QED BY <1>1, <1>2

\* The giver yields to whom it was raised for, unless it wakes a task that is
\* not above it.
LEMMA GiveTop ==
    ASSUME TypeOK, Coherent, BoostInv, Top, NEW t \in Tasks, Give(t),
           ~ GiveBelow(t)
    PROVE  Top'
<1>1. CASE GiveForeign(t) \/ GiveFree(t)
  BY <1>1, KeptTop DEF GiveForeign, GiveFree
<1>2. CASE GiveOwn(t)
  <2>1. /\ holder = t /\ holder' = None /\ current = t /\ state[t] = "ready"
        /\ prio' = [prio EXCEPT ![t] = Base[t]]
    BY <1>2 DEF GiveOwn, Give, Running, Coherent
  <2>2. \A u \in Tasks : prio'[u] = Base[u]
    BY <2>1, OwnPriority DEF TypeOK
  <2>3. prio' \in [Tasks -> Nat] /\ None \notin Tasks
    BY <2>1, PrioNat
  <2>4. CASE SwitchContext
    BY <2>3, <2>4, SwitchTop
  <2>5. ASSUME UNCHANGED <<current, state>>, prio[t] = Base[t] PROVE Top'
    BY <2>1, <2>5, KeptTop DEF TypeOK
  <2>6. ASSUME NEW w \in Waiters, state' = [state EXCEPT ![w] = "ready"],
               ~ (prio[w] > Base[t]), UNCHANGED current
        PROVE  Top'
    <3>1. /\ w \in Tasks \ {t} /\ prio[w] = Base[w] /\ prio[w] <= Base[t]
          /\ state'[w] = "ready"
      BY <2>1, <2>6, OwnPriority, PrioNat DEF Waiters, TypeOK
    <3>2. prio[t] = Base[t]
      BY <2>1, <2>6, <3>1 DEF GiveBelow
    <3>3. prio' = prio
      BY <2>1, <3>2 DEF TypeOK
    <3>4. PriorityOf(current)' = prio[t] /\ PriorityOf(current) = prio[t]
      BY <2>1, <2>3, <2>6, <3>3 DEF PriorityOf
    <3>5. ASSUME NEW u \in Tasks, state'[u] = "ready" PROVE prio'[u] <= prio[t]
      <4>1. CASE u = w
        BY <3>1, <3>2, <3>3, <4>1
      <4>2. CASE u # w
        <5>1. state[u] = "ready"
          BY <2>6, <3>5, <4>2 DEF TypeOK
        <5> QED BY <3>3, <3>4, <5>1 DEF Top
      <4> QED BY <4>1, <4>2
    <3> QED BY <3>4, <3>5 DEF Top
  <2> QED BY <1>2, <2>1, <2>4, <2>5, <2>6 DEF GiveOwn, YieldIf, TypeOK
<1> QED BY <1>1, <1>2 DEF Give

\* A step that changes the current task is a switch.
LEMMA ChangeSwitches ==
    ASSUME Next, current' # current
    PROVE  SwitchContext
<1>1. CASE Tick
  BY <1>1 DEF Tick, YieldIf
<1>2. ASSUME NEW t \in Tasks, TaskStep(t) PROVE SwitchContext
  <2>1. CASE Delay(t) \/ Call(t)
    BY <2>1 DEF Delay, Call
  <2>2. CASE TakeStep(t)
    BY <2>2 DEF TakeStep, TryTake, CheckTimeOut, Expire, Disinherit, LastTry
  <2>3. CASE Give(t)
    BY <2>3 DEF Give, GiveOwn, GiveForeign, GiveFree, YieldIf
  <2> QED BY <1>2, <2>1, <2>2, <2>3 DEF TaskStep
<1> QED BY <1>1, <1>2 DEF Next

\* A switch brings one of the highest to run, and no step but a give as in
\* GiveBelow leaves a ready task above it.
LEMMA TopNext ==
    ASSUME TypeOK, Coherent, BoostInv, [Next]_vars, Top \/ current' # current,
           ~ \E t \in Tasks : GiveBelow(t)
    PROVE  Top'
<1>0. prio' \in [Tasks -> Nat] /\ None \notin Tasks
  <2>1. TypeOK'
    BY TypeNext
  <2> QED BY <2>1, PrioritiesNat, PrioNat DEF TypeOK
<1>1. CASE current' # current
  BY <1>0, <1>1, ChangeSwitches, SwitchTop DEF vars
<1>2. CASE Top
  <2>1. CASE Tick
    BY <1>2, <2>1, TickTop
  <2>2. ASSUME NEW t \in Tasks, Delay(t) PROVE Top'
    BY <1>0, <2>2, SwitchTop DEF Delay
  <2>3. ASSUME NEW t \in Tasks, TakeStep(t) PROVE Top'
    <3>1. CASE TryTake(t) \/ Expire(t) \/ LastTry(t)
      BY <1>2, <3>1, KeptTop DEF TryTake, Expire, LastTry
    <3>2. CASE CheckTimeOut(t)
      BY <1>0, <1>2, <3>2, KeptTop, SwitchTop DEF CheckTimeOut
    <3> QED BY <1>2, <2>3, <3>1, <3>2, DisinheritTop DEF TakeStep
  <2>4. CASE (\E t \in Tasks : Call(t)) \/ UNCHANGED vars
    BY <1>2, <2>4, KeptTop DEF Call, vars
  <2>5. ASSUME NEW t \in Tasks, Give(t) PROVE Top'
    BY <1>2, <2>5, GiveTop
  <2> QED BY <2>1, <2>2, <2>3, <2>4, <2>5 DEF Next, TaskStep
<1> QED BY <1>1, <1>2

\* Whoever the processor is switched to is one of the highest ready tasks, for
\* any tasks and priorities, and stays so until a give as in GiveBelow.
THEOREM HighestRuns == Spec => TopRuns
<1>1. TypeOK /\ Coherent /\ BoostInv /\ [Next]_vars
        => [(Top \/ current' # current) /\ ~ (\E t \in Tasks : GiveBelow(t))
               => Top']_vars
  BY TopNext
<1> QED BY <1>1, KernelTypeCorrect, KernelCoherent, KernelBoost, PTL
        DEF Spec, TopRuns
-----------------------------------------------------------------------------
(* The assertion of the last attempt.                                      *)

\* A task that notes an inheritance is above another, ...
Inheritors == \A t \in Tasks : inherited[t] => \E h \in Tasks : Base[h] < Base[t]

\* ... and while one is in its last attempt, ready, none below it runs, or takes
\* what it found free.
LastAttempts ==
    \A t \in Tasks : pc[t] = "last" =>
        /\ state[t] = "ready"
        /\ current \in Tasks /\ Base[t] <= Base[current]
        /\ holder # None => Base[t] <= Base[holder]

LastInv == Inheritors /\ LastAttempts /\ InheritanceJustified

\* A wait that is noted is one for a task of lower base.
LEMMA InheritorsNext ==
    ASSUME TypeOK, Coherent, BoostInv, Inheritors, [Next]_vars
    PROVE  Inheritors'
<1>1. ASSUME NEW t \in Tasks, CheckTimeOut(t) PROVE Inheritors'
  <2>1. CASE UNCHANGED inherited
    BY <2>1 DEF Inheritors
  <2>2. CASE inherited' = [inherited EXCEPT ![t] = Inherits(t)]
    <3>1. Inherits(t) => holder \in Tasks /\ Base[holder] < Base[t]
      <4>1. pc[t] = "check"
        BY <1>1 DEF CheckTimeOut
      <4>2. holder # t
        BY <4>1 DEF Coherent
      <4> QED BY <4>2, OwnPriority DEF Inherits, TypeOK
    <3>2. \A u \in Tasks : inherited'[u] =>
              IF u = t THEN Inherits(t) ELSE inherited[u]
      BY <2>2 DEF TypeOK
    <3> QED BY <3>1, <3>2 DEF Inheritors
  <2> QED BY <1>1, <2>1, <2>2 DEF CheckTimeOut
<1>2. ASSUME NEW t \in Tasks, Call(t) PROVE Inheritors'
  BY <1>2 DEF Call, Inheritors, TypeOK
<1>3. CASE UNCHANGED inherited
  BY <1>3 DEF Inheritors
<1> QED
  BY <1>1, <1>2, <1>3
  DEF Next, TaskStep, TakeStep, Tick, Delay, TryTake, Expire, Disinherit,
      LastTry, Give, vars

\* A switch does not bring a task below one that is ready, not even if it is
\* the holder, whose own priority may be less than the one it has.
LEMMA SwitchLast ==
    ASSUME TypeOK', BoostInv', SwitchContext, NEW t \in Tasks,
           state'[t] = "ready", holder' # None => Base[t] <= Base[holder']
    PROVE  current' \in Tasks /\ Base[t] <= Base[current']
<1>1. /\ prio' \in [Tasks -> Nat] /\ Base \in [Tasks -> Nat]
      /\ None \notin Tasks /\ holder' \in Tasks \cup {None}
  BY PrioritiesNat, KernelAssumption DEF TypeOK
<1>2. current' \in Tasks /\ prio'[t] <= prio'[current']
  BY SwitchReady
<1>3. Base[t] <= prio'[t]
  BY DEF BoostInv, NotLowered
<1>4. CASE holder' = current'
  BY <1>1, <1>2, <1>4
<1>5. CASE holder' # current'
  <2>1. prio'[current'] = Base[current']
    BY <1>2, <1>5 DEF BoostInv, BoostJustified
  <2> QED BY <1>1, <1>2, <1>3, <2>1
<1> QED BY <1>4, <1>5

\* What keeps LastAttempts: who gets into a last attempt runs and finds the
\* mutex free, and who takes it then runs too.
LEMMA LastAttemptsNext ==
    ASSUME TypeOK, Coherent, BoostInv, LastAttempts, [Next]_vars
    PROVE  LastAttempts'
<1>0. TypeOK' /\ Coherent' /\ BoostInv'
  BY TypeNext, CoherentNext, BoostNext
<1>1. SUFFICES ASSUME NEW t \in Tasks, pc'[t] = "last"
               PROVE  /\ state'[t] = "ready"
                      /\ current' \in Tasks /\ Base[t] <= Base[current']
                      /\ holder' # None => Base[t] <= Base[holder']
  BY DEF LastAttempts
<1>2. Base \in [Tasks -> Nat] /\ None \notin Tasks
  BY PrioNat
<1>3. ASSUME pc[t] # "last"
      PROVE  current' = t /\ holder' = None
  BY <1>1, <1>3
  DEF Next, TaskStep, TakeStep, Tick, Delay, TryTake, CheckTimeOut, Expire,
      Disinherit, LastTry, Call, Give, GiveOwn, GiveForeign, GiveFree, Acquire,
      Goto, Running, vars, TypeOK
<1>4. ASSUME pc[t] = "last"
      PROVE  holder' # None => Base[t] <= Base[holder']
  <2>1. holder' \in {holder, None} \/ holder' = current
    BY DEF Next, TaskStep, TakeStep, Tick, Delay, TryTake, CheckTimeOut, Expire,
       Disinherit, LastTry, Call, Give, GiveOwn, GiveForeign, GiveFree, Acquire,
       Running, vars
  <2> QED BY <1>4, <2>1 DEF LastAttempts
<1>5. state'[t] = "ready"
  <2>1. CASE pc[t] # "last"
    BY <1>0, <1>3, <2>1 DEF Coherent
  <2>2. CASE pc[t] = "last"
    <3>1. state[t] = "ready"
      BY <2>2 DEF LastAttempts
    <3>2. CASE UNCHANGED state
      BY <3>1, <3>2
    <3>3. CASE Tick
      BY <3>1, <3>3 DEF Tick
    <3>4. ASSUME NEW u \in Tasks, Delay(u) PROVE state'[t] = "ready"
      BY <2>2, <3>1, <3>4 DEF Delay, TypeOK
    <3>5. ASSUME NEW u \in Tasks, CheckTimeOut(u) PROVE state'[t] = "ready"
      BY <2>2, <3>1, <3>5 DEF CheckTimeOut, TypeOK
    <3>6. ASSUME NEW u \in Tasks, Give(u) PROVE state'[t] = "ready"
      BY <3>1, <3>6 DEF Give, GiveOwn, GiveForeign, GiveFree, TypeOK
    <3> QED
      BY <3>2, <3>3, <3>4, <3>5, <3>6
      DEF Next, TaskStep, TakeStep, TryTake, Expire, Disinherit, LastTry, Call,
          vars
  <2> QED BY <2>1, <2>2
<1>6. CASE UNCHANGED current
  <2>1. CASE pc[t] = "last"
    BY <1>4, <1>5, <1>6, <2>1 DEF LastAttempts
  <2>2. CASE pc[t] # "last"
    BY <1>2, <1>3, <1>5, <2>2
  <2> QED BY <2>1, <2>2
<1>7. CASE SwitchContext
  <2>1. holder' # None => Base[t] <= Base[holder']
    BY <1>3, <1>4
  <2> QED BY <1>0, <1>5, <1>7, <2>1, SwitchLast
<1> QED
  BY <1>6, <1>7
  DEF Next, TaskStep, TakeStep, Tick, Delay, TryTake, CheckTimeOut, Expire,
      Disinherit, LastTry, Call, Give, GiveOwn, GiveForeign, GiveFree, YieldIf,
      vars

\* A last attempt that fails with an inheritance noted is one of three tasks.
LEMMA LastInvNext ==
    TypeOK /\ Coherent /\ BoostInv /\ LastInv /\ [Next]_vars => LastInv'
<1> SUFFICES ASSUME TypeOK, Coherent, BoostInv, LastInv, [Next]_vars
             PROVE  LastInv'
  OBVIOUS
<1>1. Inheritors' /\ LastAttempts'
  BY InheritorsNext, LastAttemptsNext DEF LastInv
<1>2. InheritanceJustified'
  <2>1. ASSUME NEW t \in Tasks, LastTry(t), holder # None, inherited[t]
        PROVE  InheritanceJustified'
    <3>1. pc[t] = "last" /\ holder \in Tasks /\ holder # t
      BY <2>1 DEF LastTry, Coherent, TypeOK
    <3>2. PICK h \in Tasks : Base[h] < Base[t]
      BY <2>1 DEF LastInv, Inheritors
    <3>3. Base[t] <= Base[holder]
      BY <2>1, <3>1 DEF LastInv, LastAttempts
    <3> QED BY <3>1, <3>2, <3>3 DEF InheritanceJustified
  <2>2. CASE halted' \in {halted, "giver"}
    BY <2>2 DEF LastInv, InheritanceJustified
  <2> QED
    BY <2>1, <2>2
    DEF Next, TaskStep, TakeStep, Tick, Delay, TryTake, CheckTimeOut, Expire,
        Disinherit, LastTry, Call, Give, GiveOwn, GiveForeign, GiveFree, Acquire,
        vars
<1> QED BY <1>1, <1>2 DEF LastInv

\* Two tasks alone never make the assertion of the last attempt fail.
THEOREM InheritanceAssertion == Spec => []InheritanceJustified
<1>1. Init => LastInv
  BY DEF Init, LastInv, Inheritors, LastAttempts, InheritanceJustified
<1> QED BY <1>1, LastInvNext, KernelTypeCorrect, KernelCoherent, KernelBoost, PTL
        DEF Spec, LastInv
-----------------------------------------------------------------------------
(* The time of a take.                                                     *)

\* A task that waits has time left, ...
WaitsTimed == \A t \in Tasks : state[t] = "waiting" => left[t] > 0

\* ... which runs down with every tick and is never set anew within a take,
\* however often the mutex is given to another; when it is over the task does
\* not go back to waiting (xTaskCheckForTimeOut).
TimeRunsDown ==
    [][\A t \in Tasks :
          /\ pc[t] \in Counting /\ pc'[t] \in Counting =>
                 /\ left'[t] <= left[t]
                 /\ Tick => left[t] = 0 \/ left'[t] = left[t] - 1
          /\ pc[t] \in {"expired", "last", "failing"} =>
                 pc'[t] \in {"expired", "last", "failing", "in", "refused"}]_vars

LEMMA TimedNext ==
    ASSUME TypeOK, Coherent, WaitsTimed, [Next]_vars
    PROVE  WaitsTimed'
<1>1. CASE Tick
  <2> SUFFICES ASSUME NEW t \in Tasks, state'[t] = "waiting"
               PROVE  left'[t] > 0
    BY DEF WaitsTimed
  <2>1. state[t] = "waiting" /\ t \notin Woken
    BY <1>1 DEF Tick, TypeOK
  <2>2. left[t] \in Nat /\ left[t] > 1
    BY <2>1 DEF Woken, TypeOK
  <2>3. left'[t] = left[t] - 1
    BY <1>1, <2>2 DEF Tick
  <2> QED BY <2>2, <2>3
<1>2. ASSUME NEW u \in Tasks, Delay(u) PROVE WaitsTimed'
  <2> SUFFICES ASSUME NEW t \in Tasks, state'[t] = "waiting"
               PROVE  left'[t] > 0
    BY DEF WaitsTimed
  <2>1. t # u /\ state[t] = "waiting" /\ left'[t] = left[t]
    BY <1>2 DEF Delay, TypeOK
  <2> QED BY <2>1 DEF WaitsTimed
<1>3. ASSUME NEW u \in Tasks, TryTake(u) PROVE WaitsTimed'
  <2>1. state[u] # "waiting" /\ UNCHANGED state
    BY <1>3 DEF TryTake, Running, Coherent
  <2>2. \A t \in Tasks \ {u} : left'[t] = left[t]
    BY <1>3 DEF TryTake, TypeOK
  <2> QED BY <2>1, <2>2 DEF WaitsTimed
<1>4. ASSUME NEW u \in Tasks, CheckTimeOut(u) PROVE WaitsTimed'
  BY <1>4 DEF CheckTimeOut, WaitsTimed, TypeOK
<1>5. ASSUME NEW u \in Tasks, Give(u) PROVE WaitsTimed'
  BY <1>5 DEF Give, GiveOwn, GiveForeign, GiveFree, WaitsTimed, TypeOK
<1>6. CASE UNCHANGED <<state, left>>
  BY <1>6 DEF WaitsTimed
<1> QED
  BY <1>1, <1>2, <1>3, <1>4, <1>5, <1>6
  DEF Next, TaskStep, TakeStep, Expire, Disinherit, LastTry, Call, vars

\* The waits of a take are over MaxWait ticks after its first failure.
THEOREM WaitsEnd == Spec => []WaitsTimed /\ TimeRunsDown
<1>1. Init => WaitsTimed
  BY DEF Init, WaitsTimed
<1>2. ASSUME TypeOK, Coherent, [Next]_vars, NEW t \in Tasks,
             pc[t] \in Counting, pc'[t] \in Counting
      PROVE  /\ left'[t] <= left[t]
             /\ Tick => left[t] = 0 \/ left'[t] = left[t] - 1
  <2>1. left \in [Tasks -> Nat] /\ left[t] \in Nat
    BY <1>2 DEF TypeOK
  <2>2. CASE Tick
    BY <2>1, <2>2 DEF Tick
  <2>3. ASSUME NEW u \in Tasks, Delay(u) PROVE left'[t] = left[t]
    <3>1. u # t
      BY <1>2, <2>3 DEF Delay, Counting
    <3> QED BY <2>1, <2>3, <3>1 DEF Delay
  <2>4. ASSUME NEW u \in Tasks, TryTake(u) PROVE left'[t] = left[t]
    <3>1. CASE pc[u] = "call"
      <4>1. u # t
        BY <1>2, <3>1 DEF Counting
      <4> QED BY <2>1, <2>4, <4>1 DEF TryTake
    <3>2. CASE pc[u] # "call"
      BY <2>4, <3>2 DEF TryTake
    <3> QED BY <3>1, <3>2
  <2>5. CASE ~Tick
    <3>1. left'[t] = left[t]
      BY <1>2, <2>3, <2>4, <2>5
      DEF Next, TaskStep, TakeStep, CheckTimeOut, Expire, Disinherit, LastTry,
          Call, Give, vars
    <3> QED BY <2>1, <2>5, <3>1
  <2> QED BY <2>2, <2>5
<1>3. ASSUME TypeOK, [Next]_vars, NEW t \in Tasks,
             pc[t] \in {"expired", "last", "failing"}
      PROVE  pc'[t] \in {"expired", "last", "failing", "in", "refused"}
  BY <1>3
  DEF Next, TaskStep, TakeStep, Tick, Delay, TryTake, CheckTimeOut, Expire,
      Disinherit, LastTry, Call, Give, GiveOwn, GiveForeign, GiveFree, Acquire,
      Goto, vars, TypeOK
<1>4. TypeOK /\ Coherent /\ [Next]_vars =>
        [\A t \in Tasks :
            /\ pc[t] \in Counting /\ pc'[t] \in Counting =>
                   /\ left'[t] <= left[t]
                   /\ Tick => left[t] = 0 \/ left'[t] = left[t] - 1
            /\ pc[t] \in {"expired", "last", "failing"} =>
                   pc'[t] \in {"expired", "last", "failing", "in", "refused"}]_vars
  BY <1>2, <1>3
<1> QED BY <1>1, <1>4, TimedNext, KernelTypeCorrect, KernelCoherent, PTL
        DEF Spec, TimeRunsDown
-----------------------------------------------------------------------------
(* The log.                                                                *)

\* The log takes and gives the mutex as any user of it: its steps are the
\* kernel's, or leave the kernel alone.
LEMMA LogStep == [LogNext]_<<vars, logVars>> => [Next]_vars
BY DEF LogNext, Rest, Begin, GiveLine, PrintText, Next, TaskStep

LEMMA LogKernel == LogSpec => Spec
BY LogStep, PTL DEF LogSpec, LogInit, Spec

\* What holds of the kernel's mutex holds under the log.
LEMMA LogInherits == LogSpec => [](TypeOK /\ Coherent)
BY LogKernel, KernelTypeCorrect, KernelCoherent, PTL

\* A task that holds the mutex has not ended its line, as long as what it
\* printed of it is on the last line.
LineOpen ==
    \/ \E q \in line : q.last
    \/ \A p \in line : p.locked => holder = p.by /\ ~ended[p.by]

LogInv == LogTypeOK /\ LineOpen /\ LinesWhole

LEMMA PrintInv ==
    ASSUME LogInv, Coherent, NEW t \in Tasks, NEW last \in BOOLEAN,
           PrintText(t, last)
    PROVE  LogInv'
<1> DEFINE piece == [by |-> t, locked |-> pc[t] = "in", last |-> last]
<1>0. /\ UNCHANGED vars
      /\ ended' = [ended EXCEPT ![t] = last]
      /\ line' = IF \E p \in line : p.last THEN {piece} ELSE line \cup {piece}
  BY DEF PrintText
<1>1. TypeOK' /\ holder' = holder
  BY <1>0 DEF LogInv, LogTypeOK, TypeOK, vars
<1>2. piece \in Pieces /\ piece.by = t /\ piece.last = last
      /\ (piece.locked => holder = t)
  BY DEF Pieces, Coherent
<1> HIDE DEF piece
<1>3. LogTypeOK'
  BY <1>0, <1>1, <1>2 DEF LogInv, LogTypeOK
<1>4. ended'[t] = last /\ \A u \in Tasks \ {t} : ended'[u] = ended[u]
  BY <1>0 DEF LogInv, LogTypeOK
<1>5. CASE \E p \in line : p.last
  BY <1>0, <1>1, <1>2, <1>3, <1>4, <1>5 DEF LogInv, LineOpen, LinesWhole
<1>6. CASE ~ \E p \in line : p.last
  <2>1. line' = line \cup {piece}
    BY <1>0, <1>6
  <2>2. \A p \in line : p.by \in Tasks /\ (p.locked => holder = p.by /\ ~ended[p.by])
    BY <1>6 DEF LogInv, LineOpen, LogTypeOK, Pieces
  <2>3. \A p \in line' : p.locked => holder = p.by
    BY <1>2, <2>1, <2>2
  <2>4. LinesWhole'
    BY <2>3 DEF LinesWhole
  <2>5. LineOpen'
    <3>1. CASE last
      BY <1>2, <2>1, <3>1 DEF LineOpen
    <3>2. CASE ~last
      BY <1>1, <1>2, <1>4, <2>1, <2>2, <3>2 DEF LineOpen
    <3> QED BY <3>1, <3>2
  <2> QED BY <1>3, <2>4, <2>5 DEF LogInv
<1> QED BY <1>5, <1>6

LEMMA LogInvNext ==
    LogInv /\ Coherent /\ [LogNext]_<<vars, logVars>> => LogInv'
<1> SUFFICES ASSUME LogInv, Coherent, [LogNext]_<<vars, logVars>>
             PROVE  LogInv'
  OBVIOUS
<1>0. TypeOK'
  BY LogStep, TypeNext DEF LogInv, LogTypeOK
<1>1. ASSUME UNCHANGED logVars, holder' = holder \/ holder = None
      PROVE  LogInv'
  <2>1. line' = line /\ ended' = ended
    BY <1>1 DEF logVars
  <2>2. LogTypeOK' /\ LinesWhole'
    BY <1>0, <2>1 DEF LogInv, LogTypeOK, LinesWhole
  <2>3. \A p \in line : p.by \in Tasks /\ p.by # None
    BY KernelAssumption DEF KernelAssumption, LogInv, LogTypeOK, Pieces
  <2>4. LineOpen'
    BY <1>1, <2>1, <2>3 DEF LogInv, LineOpen
  <2> QED BY <2>2, <2>4 DEF LogInv
<1>2. CASE Tick /\ UNCHANGED logVars
  BY <1>1, <1>2 DEF Tick
<1>3. ASSUME NEW t \in Tasks, Rest(t) \/ Begin(t), UNCHANGED logVars
      PROVE  LogInv'
  BY <1>1, <1>3 DEF Rest, Delay, Begin, Call, TakeStep, TryTake, Acquire,
     CheckTimeOut, Expire, Disinherit, LastTry
<1>4. ASSUME NEW t \in Tasks, GiveLine(t) PROVE LogInv'
  <2>1. /\ ended[t] /\ ended' = [ended EXCEPT ![t] = FALSE] /\ line' = line
        /\ holder' = holder \/ holder = t
    BY <1>4 DEF GiveLine, Give, GiveOwn, GiveForeign, GiveFree
  <2>2. LogTypeOK' /\ LinesWhole'
    BY <1>0, <2>1 DEF LogInv, LogTypeOK, LinesWhole
  <2>3. \A p \in line : p.by \in Tasks
    BY DEF LogInv, LogTypeOK, Pieces
  <2>4. \A u \in Tasks : ~ended[u] => ~ended'[u]
    BY <2>1 DEF LogInv, LogTypeOK
  <2>5. LineOpen'
    BY <2>1, <2>3, <2>4 DEF LogInv, LineOpen
  <2> QED BY <2>2, <2>5 DEF LogInv
<1>5. CASE UNCHANGED <<vars, logVars>>
  BY <1>1, <1>5 DEF vars
<1> QED BY <1>2, <1>3, <1>4, <1>5, PrintInv DEF LogNext

LEMMA LogInvariant == LogSpec => []LogInv
<1>1. LogInit => LogInv
  BY KernelAssumption, BaseType, 0 \in 0 .. MaxWait + MaxDelay
     DEF KernelAssumption, LogInit, Init, LogInv, LogTypeOK, TypeOK, LineOpen,
         LinesWhole
<1> QED BY <1>1, LogInvNext, LogInherits, PTL DEF LogSpec

\* The variables of the log keep their types.
THEOREM LogTypeCorrect == LogSpec => []LogTypeOK
BY LogInvariant, PTL DEF LogInv

\* What a task prints of a line while it holds the mutex of the log is never
\* mixed with what another prints while it holds it.
THEOREM LinesNotMixed == LogSpec => []LinesWhole
BY LogInvariant, PTL DEF LogInv
=============================================================================
