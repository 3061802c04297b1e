---------------------------- MODULE Mppt_proofs ----------------------------
(***************************************************************************)
(* Proofs about the MPPT device: the types of its state, the bound on the  *)
(* duty cycles it sets, for every panel and every sequence of              *)
(* telecommands, and the way of a lone channel to its maximum power point, *)
(* for panels that have one.                                               *)
(***************************************************************************)
EXTENDS Mppt, TLAPS

\* increase_duty_cycle keeps a duty cycle, and a legal one legal.
LEMMA IncreasedRange ==
    /\ \A d \in Duty : Increased(d) \in Duty
    /\ \A d \in Legal : Increased(d) \in Legal
BY MpptAssumption
DEF Increased, Duty, Legal, MPPT_DUTY_CYCLE_STEP, MPPT_MIN_DUTY_CYCLE

\* So does decrease_duty_cycle.
LEMMA DecreasedRange ==
    /\ \A d \in Duty : Decreased(d) \in Duty
    /\ \A d \in Legal : Decreased(d) \in Legal
BY MpptAssumption
DEF Decreased, Duty, Legal, MPPT_DUTY_CYCLE_STEP, MPPT_MIN_DUTY_CYCLE

\* And the step of mppt_algorithm, which is one of the two.
LEMMA PerturbedRange ==
    ASSUME NEW p, NEW prev
    PROVE  /\ \A d \in Duty : Perturbed(d, p, prev) \in Duty
           /\ \A d \in Legal : Perturbed(d, p, prev) \in Legal
BY IncreasedRange, DecreasedRange DEF Perturbed

\* The task serves one of its three channels next.
LEMMA NextChannelType ==
    ASSUME channel \in Channels, NextChannel
    PROVE  channel' \in Channels /\ mppt_mode' \in Modes \cup {-1}
BY DEF NextChannel, Channels

-----------------------------------------------------------------------------
\* Every variable keeps its type: no duty cycle leaves the 8 bits it has.
THEOREM MpptTypeCorrect == Spec => []TypeOK
<1>1. Init => TypeOK
  <2> SUFFICES ASSUME Init PROVE TypeOK
      OBVIOUS
  <2>1. MPPT_DUTY_CYCLE_INIT \in Duty /\ 0 \in Duty /\ 0 \in Nat
      BY MpptAssumption DEF Duty
  <2>2. \A c \in Channels : [power |-> 0, duty_cycle |-> 0]
                               \in [power : Nat, duty_cycle : Duty]
      BY <2>1
  <2>3. previous \in [Channels -> [power : Nat, duty_cycle : Duty]]
      BY <2>2 DEF Init
  <2> QED
      BY <2>1, <2>3, MpptAssumption DEF Init, TypeOK, Channels, Modes
<1>2. TypeOK /\ [Next]_vars => TypeOK'
  <2> SUFFICES ASSUME TypeOK, [Next]_vars PROVE TypeOK'
      OBVIOUS
  <2>1. CASE ReadMode
      BY <2>1 DEF ReadMode, TypeOK, device, Unserved
  <2>2. CASE RunAutomatic
    <3>1. PICK p \in Power(light, channel, output[channel]) :
             /\ duty_cycle' = Perturbed(duty_cycle, p, previous[channel])
             /\ previous' = [previous EXCEPT ![channel] =
                                [power |-> p, duty_cycle |-> duty_cycle]]
        BY <2>2 DEF RunAutomatic
    <3>2. duty_cycle' \in Duty
        BY <3>1, PerturbedRange DEF TypeOK
    <3>3. p \in Nat
        BY <3>1, MpptAssumption DEF TypeOK
    <3>4. previous' \in [Channels -> [power : Nat, duty_cycle : Duty]]
        BY <3>1, <3>3 DEF TypeOK
    <3>5. output' \in [Channels -> Duty]
        BY <2>2, <3>2 DEF RunAutomatic, TypeOK
    <3> QED
        BY <2>2, <3>2, <3>4, <3>5, NextChannelType
        DEF RunAutomatic, TypeOK, Unserved
  <2>3. CASE FailAutomatic
      BY <2>3, NextChannelType DEF FailAutomatic, TypeOK, device, Unserved
  <2>4. CASE RunManual
      BY <2>4, NextChannelType DEF RunManual, TypeOK, Unserved
  <2>5. CASE RunInvalid
      BY <2>5, NextChannelType DEF RunInvalid, TypeOK, device, Unserved
  <2>6. CASE Command
    <3>1. PICK c \in Channels :
             \/ \E m \in Modes : mode_reg' = [mode_reg EXCEPT ![c] = m]
                                 /\ UNCHANGED <<duty_reg, highest>>
             \/ \E d \in DutySettings :
                   /\ duty_reg' = [duty_reg EXCEPT ![c] = d]
                   /\ highest' = IF d > highest THEN d ELSE highest
                   /\ UNCHANGED mode_reg
        BY <2>6 DEF Command
    <3>2. /\ mode_reg' \in [Channels -> Modes] /\ duty_reg' \in [Channels -> Duty]
          /\ highest' \in Duty
        BY <3>1, MpptAssumption DEF TypeOK
    <3> QED
        BY <2>6, <3>2 DEF Command, TypeOK, device
  <2>7. CASE LightChange
      BY <2>7 DEF LightChange, TypeOK, device
  <2>8. CASE UNCHANGED vars
      BY <2>8 DEF vars, device, TypeOK
  <2> QED
      BY <2>1, <2>2, <2>3, <2>4, <2>5, <2>6, <2>7, <2>8 DEF Next, Task
<1> QED
    BY <1>1, <1>2, PTL DEF Spec

-----------------------------------------------------------------------------
\* The strengthening of OutputBounded: the configuration the channels share and
\* the registers a manual channel copies are bounded too, for any channel may be
\* the next to take its output from either.
BoundInv ==
    /\ duty_cycle <= Bound
    /\ \A c \in Channels : output[c] <= Bound /\ duty_reg[c] <= Bound

\* The bound is a number, and never falls.
LEMMA BoundRises ==
    ASSUME TypeOK, highest' \in Duty, highest <= highest'
    PROVE  /\ Bound \in Nat /\ Bound' \in Nat /\ MPPT_MAX_DUTY_CYCLE <= Bound
           /\ Bound <= Bound' /\ highest' <= Bound'
BY MpptAssumption DEF TypeOK, Bound, Duty

\* mppt_algorithm goes beyond neither the maximum nor where it stands.
LEMMA PerturbedBound ==
    ASSUME NEW d \in Duty, NEW b \in Nat, d <= b, MPPT_MAX_DUTY_CYCLE <= b,
           NEW p, NEW prev
    PROVE  Perturbed(d, p, prev) <= b
<1>1. Increased(d) <= b /\ Decreased(d) <= b
    BY MpptAssumption
    DEF Increased, Decreased, Duty, MPPT_DUTY_CYCLE_STEP, MPPT_MIN_DUTY_CYCLE
<1> QED
    BY <1>1 DEF Perturbed

\* No PWM runs above the maximum of mppt.h unless a telecommand has set at least
\* as much: for every panel, every sequence of modes and settings, every 8-bit
\* value of the registers, although mppt_set_duty_cycle does not look at what it
\* stores and the channels share it.
THEOREM DutyCycleBounded == Spec => []OutputBounded
<1>1. Init => BoundInv
    BY MpptAssumption DEF Init, BoundInv, Bound, Channels
<1>2. TypeOK /\ TypeOK' /\ BoundInv /\ [Next]_vars => BoundInv'
  <2> SUFFICES ASSUME TypeOK, TypeOK', BoundInv, [Next]_vars PROVE BoundInv'
      OBVIOUS
  <2>0. \A c \in Channels : output[c] \in Duty /\ duty_reg[c] \in Duty
      BY DEF TypeOK
  <2>1. highest \in Duty /\ highest' \in Duty /\ duty_cycle \in Duty
        /\ channel \in Channels /\ \A d \in Duty : d \in Nat
      BY DEF TypeOK, Duty
  <2>2. ASSUME UNCHANGED <<device, Unserved>> PROVE BoundInv'
      BY <2>2 DEF device, Unserved, BoundInv, Bound
  <2>3. CASE ReadMode \/ FailAutomatic \/ RunInvalid \/ UNCHANGED vars
      BY <2>2, <2>3 DEF ReadMode, FailAutomatic, RunInvalid, vars, Unserved
  <2>4. CASE RunAutomatic
    <3>1. highest' = highest /\ duty_reg' = duty_reg /\ Bound' = Bound
        BY <2>4 DEF RunAutomatic, Unserved, Bound
    <3>2. Bound \in Nat /\ MPPT_MAX_DUTY_CYCLE <= Bound
        BY <2>1, <3>1, BoundRises
    <3>3. duty_cycle' <= Bound
        BY <2>1, <2>4, <3>2, PerturbedBound DEF RunAutomatic, BoundInv
    <3>4. \A c \in Channels : output'[c] = IF c = channel THEN duty_cycle' ELSE output[c]
        BY <2>1, <2>4 DEF RunAutomatic, TypeOK
    <3> QED
        BY <3>1, <3>3, <3>4 DEF BoundInv
  <2>5. CASE RunManual
    <3>1. duty_reg' = duty_reg /\ Bound' = Bound /\ duty_cycle' = duty_reg[channel]
        BY <2>5 DEF RunManual, Unserved, Bound
    <3>2. \A c \in Channels : output'[c] = IF c = channel THEN duty_cycle' ELSE output[c]
        BY <2>1, <2>5 DEF RunManual, TypeOK
    <3> QED
        BY <2>1, <3>1, <3>2 DEF BoundInv
  <2>6. CASE Command
    <3>1. highest <= highest' /\ UNCHANGED device
        BY <2>1, <2>6, MpptAssumption DEF Command, Duty
    <3>2. /\ Bound \in Nat /\ Bound' \in Nat /\ Bound <= Bound'
          /\ highest' <= Bound'
        BY <2>1, <3>1, BoundRises
    <3>3. \A c \in Channels : duty_reg'[c] = duty_reg[c] \/ duty_reg'[c] <= highest'
        BY <2>1, <2>6, MpptAssumption DEF Command, TypeOK, Duty
    <3>4. \A c \in Channels : duty_reg'[c] <= Bound' /\ output'[c] <= Bound'
      <4> SUFFICES ASSUME NEW c \in Channels
                   PROVE  duty_reg'[c] <= Bound' /\ output'[c] <= Bound'
          OBVIOUS
      <4>1. duty_reg'[c] \in Nat /\ highest' \in Nat
          BY <2>1 DEF TypeOK
      <4>2. duty_reg[c] <= Bound /\ output[c] <= Bound
          BY DEF BoundInv
      <4>3. output'[c] = output[c] /\ output[c] \in Nat /\ duty_reg[c] \in Nat
          BY <2>0, <2>1, <3>1 DEF device
      <4>4. output'[c] <= Bound'
          BY <3>2, <4>2, <4>3
      <4>5. duty_reg'[c] <= Bound'
          BY <3>2, <3>3, <4>1, <4>2, <4>3
      <4> QED
          BY <4>4, <4>5
    <3>5. duty_cycle' <= Bound'
        BY <2>1, <3>1, <3>2 DEF BoundInv, device
    <3> QED
        BY <3>4, <3>5 DEF BoundInv
  <2>7. CASE LightChange
      BY <2>7 DEF LightChange, BoundInv, Bound, device
  <2> QED
      BY <2>3, <2>4, <2>5, <2>6, <2>7 DEF Next, Task
<1>3. BoundInv => OutputBounded
    BY DEF BoundInv, OutputBounded
<1> QED
    BY <1>1, <1>2, <1>3, MpptTypeCorrect, PTL DEF Spec

-----------------------------------------------------------------------------
(* A lone channel holds its course.                                          *)

\* The power rises with the duty cycle to the one at m, and falls behind it.
Hill(curve, m) ==
    \A d \in Legal : /\ d < m => curve[d] < curve[d + 1]
                     /\ d > m => curve[d] < curve[d - 1]

\* In every light, either the sensors of a channel fail or its panels have one
\* maximum power point.
OneMaximum ==
    \A l \in Lights, c \in Channels :
        \/ \A d \in Duty : Power(l, c, d) = {}
        \/ \E curve \in [Duty -> Nat], m \in Legal :
              Hill(curve, m) /\ \A d \in Duty : Power(l, c, d) = {curve[d]}

\* One step from d to n, or none at a limit.
Adjacent(n, d) ==
    \/ n - d \in {-1, 1}
    \/ n = d /\ d \in {MPPT_MIN_DUTY_CYCLE, MPPT_MAX_DUTY_CYCLE}

\* A step of mppt_algorithm is one step of the duty cycle, or none at a limit.
LEMMA PerturbedAdjacent ==
    ASSUME NEW d \in Legal, NEW p, NEW prev
    PROVE  /\ Perturbed(d, p, prev) \in Legal
           /\ Adjacent(Perturbed(d, p, prev), d)
  <1>1. d \in Int /\ MPPT_MAX_DUTY_CYCLE \in Int
        /\ 0 <= d /\ d <= MPPT_MAX_DUTY_CYCLE
    BY MpptAssumption DEF Legal, MPPT_MIN_DUTY_CYCLE
  <1>2. Adjacent(Increased(d), d) /\ Adjacent(Decreased(d), d)
    BY <1>1 DEF Adjacent, Increased, Decreased, MPPT_DUTY_CYCLE_STEP,
       MPPT_MIN_DUTY_CYCLE
  <1> QED BY <1>2, PerturbedRange DEF Perturbed

\* On a hill, a step from two adjacent measurements goes towards the top, unless
\* it has stopped at the minimum.
LEMMA PerturbedClimbs ==
    ASSUME NEW curve \in [Duty -> Nat], NEW m \in Legal, Hill(curve, m),
           NEW d \in Legal, NEW last \in Legal, Adjacent(d, last), NEW prev,
           prev.power = curve[last], prev.duty_cycle = last,
           NEW n, n = Perturbed(d, curve[d], prev)
    PROVE  \/ d = MPPT_MIN_DUTY_CYCLE /\ last = d /\ n = d
           \/ /\ d < m => n = d + 1
              /\ d > m => n = d - 1
              /\ d = m => n - m \in -1..1
  <1>1. /\ d \in 0..MPPT_MAX_DUTY_CYCLE /\ last \in 0..MPPT_MAX_DUTY_CYCLE
        /\ m \in 0..MPPT_MAX_DUTY_CYCLE
        /\ MPPT_MAX_DUTY_CYCLE \in 1..100 /\ Legal \subseteq Duty
    BY MpptAssumption DEF Legal, MPPT_MIN_DUTY_CYCLE, Duty
  <1>2. curve[d] \in Nat /\ curve[last] \in Nat
    BY <1>1
  <1>3. n \in {Increased(d), Decreased(d)}
    BY DEF Perturbed
  <1>4. /\ d < MPPT_MAX_DUTY_CYCLE => Increased(d) = d + 1
        /\ d = MPPT_MAX_DUTY_CYCLE => Increased(d) = d
        /\ d > 0 => Decreased(d) = d - 1
        /\ d = 0 => Decreased(d) = d
    BY <1>1 DEF Increased, Decreased, MPPT_DUTY_CYCLE_STEP, MPPT_MIN_DUTY_CYCLE
  <1>5. CASE d = m
    BY <1>1, <1>3, <1>4, <1>5
  <1>6. CASE d < m
    <2>1. CASE last = d
      <3>1. d = 0
        BY <1>1, <1>6, <2>1 DEF Adjacent, MPPT_MIN_DUTY_CYCLE
      <3>2. n = Decreased(d)
        BY <1>1, <2>1 DEF Perturbed
      <3> QED BY <1>1, <1>4, <2>1, <3>1, <3>2 DEF MPPT_MIN_DUTY_CYCLE
    <2>2. CASE last = d - 1
      <3>1. curve[last] < curve[d]
        <4>1. last < m /\ last + 1 = d
          BY <1>1, <1>6, <2>2
        <4> QED BY <4>1 DEF Hill
      <3>2. n = Increased(d)
        BY <1>1, <1>2, <2>2, <3>1 DEF Perturbed
      <3> QED BY <1>1, <1>4, <1>6, <3>2
    <2>3. CASE last = d + 1
      <3>1. curve[d] < curve[last]
        BY <1>6, <2>3 DEF Hill
      <3>2. n = Increased(d)
        BY <1>1, <1>2, <2>3, <3>1 DEF Perturbed
      <3> QED BY <1>1, <1>4, <1>6, <3>2
    <2> QED BY <1>1, <2>1, <2>2, <2>3 DEF Adjacent
  <1>7. CASE d > m
    <2>1. n = Decreased(d)
      <3>1. CASE last = d
        BY <1>1, <3>1 DEF Perturbed
      <3>2. CASE last = d - 1
        <4>1. curve[d] < curve[last]
          BY <1>7, <3>2 DEF Hill
        <4> QED BY <1>1, <1>2, <3>2, <4>1 DEF Perturbed
      <3>3. CASE last = d + 1
        <4>1. last > m /\ last - 1 = d
          BY <1>1, <1>7, <3>3
        <4>2. curve[last] < curve[d]
          BY <4>1 DEF Hill
        <4> QED BY <1>1, <1>2, <3>3, <4>2 DEF Perturbed
      <3> QED BY <1>1, <3>1, <3>2, <3>3 DEF Adjacent
    <2> QED BY <1>1, <1>4, <1>7, <2>1
  <1> QED BY <1>1, <1>5, <1>6, <1>7

\* The panels of a channel that runs alone give the most at the top of its hill
\* only.
LEMMA TopOnly ==
    ASSUME NEW c, NEW curve \in [Duty -> Nat], NEW m \in Legal, Hill(curve, m),
           \A d \in Duty : Power(light, c, d) = {curve[d]},
           NEW top \in MaximumPower(c)
    PROVE  top = m
  <1>1. /\ top \in 0..MPPT_MAX_DUTY_CYCLE /\ m \in 0..MPPT_MAX_DUTY_CYCLE
        /\ MPPT_MAX_DUTY_CYCLE \in 1..100 /\ Legal = 0..MPPT_MAX_DUTY_CYCLE
        /\ Legal \subseteq Duty
    BY MpptAssumption DEF MaximumPower, Legal, MPPT_MIN_DUTY_CYCLE, Duty
  <1>2. ASSUME NEW e \in Legal PROVE curve[top] >= curve[e]
    BY <1>1, <1>2 DEF MaximumPower
  <1>3. \A e \in Legal : curve[e] \in Nat
    BY <1>1
  <1>4. CASE top < m
    <2>1. top + 1 \in Legal /\ curve[top] < curve[top + 1]
      BY <1>1, <1>4 DEF Hill
    <2> QED BY <1>1, <1>2, <1>3, <2>1
  <1>5. CASE top > m
    <2>1. top - 1 \in Legal /\ curve[top] < curve[top - 1]
      BY <1>1, <1>5 DEF Hill
    <2> QED BY <1>1, <1>2, <1>3, <2>1
  <1> QED BY <1>1, <1>4, <1>5

\* A run of a steady channel brings it on course.
LEMMA ServedOnCourse ==
    ASSUME TypeOK, NEW c \in Channels, Steady(c), Alone(c)', light' = light,
           Served(c)
    PROVE  OnCourse(c)'
  <1>1. PICK p \in Power(light, c, output[c]) :
           /\ duty_cycle' = Perturbed(duty_cycle, p, previous[c])
           /\ previous' = [previous EXCEPT ![c] =
                              [power |-> p, duty_cycle |-> duty_cycle]]
    BY DEF Served, RunAutomatic
  <1>2. output' = [output EXCEPT ![c] = duty_cycle'] /\ mppt_mode' = -1
    BY DEF Served, RunAutomatic, NextChannel
  <1>3. duty_cycle \in Legal /\ output[c] = duty_cycle
    BY DEF Steady
  <1>4. duty_cycle' \in Legal /\ Adjacent(duty_cycle', duty_cycle)
    BY <1>1, <1>3, PerturbedAdjacent
  <1>5. output'[c] = duty_cycle'
    BY <1>2 DEF TypeOK
  <1>6. previous'[c].power = p /\ previous'[c].duty_cycle = duty_cycle
    BY <1>1 DEF TypeOK
  <1> QED BY <1>1, <1>2, <1>3, <1>4, <1>5, <1>6 DEF OnCourse, Steady, Adjacent

\* No other step moves the output of a steady channel, or what it remembers.
LEMMA OthersIdle ==
    ASSUME TypeOK, NEW c \in Channels, Steady(c), Alone(c)', light' = light,
           ~Served(c), [Next]_vars
    PROVE  /\ UNCHANGED device
           /\ mppt_mode' \in {-1, mode_reg'[channel']}
  <1>1. mode_reg'[channel] = mode_reg[channel] /\ channel \in Channels
    BY DEF Steady, Alone, TypeOK
  <1>2. channel # c => mode_reg[channel] = 2
    BY <1>1 DEF Steady, Alone
  <1>3. channel = c => mode_reg[channel] = MPPT_AUTOMATIC_MODE
    BY DEF Steady, Alone
  <1>4. mppt_mode \in {-1, mode_reg[channel]}
    BY DEF Steady
  <1>5. CASE ReadMode
    <2>1. mppt_mode' = mode_reg[channel] /\ channel' = channel
      BY <1>5 DEF ReadMode
    <2>2. UNCHANGED device
      BY <1>5 DEF ReadMode, Unserved
    <2> QED BY <1>1, <2>1, <2>2
  <1>6. CASE RunAutomatic
    <2>1. mppt_mode = MPPT_AUTOMATIC_MODE
      BY <1>6 DEF RunAutomatic
    <2>2. channel # c
      BY <1>6 DEF Served
    <2> QED BY <1>2, <1>4, <2>1, <2>2 DEF MPPT_AUTOMATIC_MODE
  <1>7. CASE FailAutomatic \/ RunInvalid
    BY <1>7 DEF FailAutomatic, RunInvalid, NextChannel
  <1>8. CASE RunManual
    <2>1. mppt_mode = MPPT_MANUAL_MODE
      BY <1>8 DEF RunManual
    <2> QED BY <1>2, <1>3, <1>4, <2>1 DEF MPPT_MANUAL_MODE, MPPT_AUTOMATIC_MODE
  <1>9. CASE Command \/ LightChange \/ UNCHANGED vars
    BY <1>1, <1>4, <1>9 DEF Command, LightChange, vars
  <1> QED BY <1>5, <1>6, <1>7, <1>8, <1>9 DEF Next, Task

\* With panels of one maximum power point, a channel that runs alone holds its
\* course: with fairness, the reason why TracksOrStops holds.
THEOREM CourseHeld == ASSUME OneMaximum PROVE Spec => HoldsCourse
  <1>1. ASSUME TypeOK, NEW c \in Channels, Steady(c), Alone(c)', light' = light,
               [Next]_vars
        PROVE  /\ OnCourse(c) \/ Served(c) => OnCourse(c)'
               /\ ~Served(c) => output'[c] = output[c]
               /\ OnCourse(c) /\ Served(c) =>
                     \/ Stopped(c) /\ Stopped(c)'
                     \/ \A m \in MaximumPower(c) : Approaches(c, m)
    <2>1. CASE ~Served(c)
      <3>1. UNCHANGED device /\ mppt_mode' \in {-1, mode_reg'[channel']}
        BY <1>1, <2>1, OthersIdle
      <3>2. OnCourse(c) => OnCourse(c)'
        BY <1>1, <3>1 DEF OnCourse, Steady, device
      <3> QED BY <2>1, <3>1, <3>2 DEF device
    <2>2. CASE Served(c)
      <3>1. OnCourse(c)'
        BY <1>1, <2>2, ServedOnCourse
      <3>2. ASSUME OnCourse(c)
            PROVE  \/ Stopped(c) /\ Stopped(c)'
                   \/ \A m \in MaximumPower(c) : Approaches(c, m)
        <4> DEFINE d == output[c]
                   last == previous[c].duty_cycle
        <4>1. PICK curve \in [Duty -> Nat], m \in Legal :
                 Hill(curve, m) /\ \A e \in Duty : Power(light, c, e) = {curve[e]}
          <5>1. light \in Lights /\ output[c] \in Duty /\ Lit(c)
            BY <1>1 DEF TypeOK, Steady, Alone
          <5> QED BY <5>1 DEF OneMaximum, Lit
        <4>2. /\ d = duty_cycle /\ d \in Legal /\ last \in Legal
              /\ Adjacent(d, last) /\ Legal \subseteq Duty
          BY <3>2, MpptAssumption
          DEF OnCourse, Steady, Adjacent, Legal, Duty, MPPT_MIN_DUTY_CYCLE
        <4>3. previous[c].power = curve[last]
          BY <3>2, <4>1, <4>2 DEF OnCourse
        <4>4. /\ duty_cycle' = Perturbed(d, curve[d], previous[c])
              /\ output' = [output EXCEPT ![c] = duty_cycle']
              /\ previous'[c].duty_cycle = d
          BY <1>1, <2>2, <4>1, <4>2 DEF Served, RunAutomatic, TypeOK
        <4>5. output'[c] = duty_cycle'
          BY <1>1, <4>4 DEF TypeOK
        <4> DEFINE n == Perturbed(d, curve[d], previous[c])
        <4>6. \/ d = MPPT_MIN_DUTY_CYCLE /\ last = d /\ n = d
              \/ /\ d < m => n = d + 1
                 /\ d > m => n = d - 1
                 /\ d = m => n - m \in -1..1
          BY <4>1, <4>2, <4>3, PerturbedClimbs
        <4>7. output'[c] = n
          BY <4>4, <4>5
        <4> HIDE DEF n
        <4>8. CASE d = MPPT_MIN_DUTY_CYCLE /\ last = d /\ n = d
          BY <4>4, <4>7, <4>8 DEF Stopped
        <4>9. CASE /\ d < m => n = d + 1
                   /\ d > m => n = d - 1
                   /\ d = m => n - m \in -1..1
          <5>1. d \in Int /\ m \in Int
            BY <4>2, MpptAssumption DEF Legal
          <5>2. Approaches(c, m)
            BY <4>7, <4>9, <5>1 DEF Approaches
          <5>3. \A top \in MaximumPower(c) : top = m
            BY <4>1, TopOnly
          <5> QED BY <5>2, <5>3
        <4> QED BY <4>6, <4>8, <4>9
      <3> QED BY <2>2, <3>1, <3>2
    <2> QED BY <2>1, <2>2
  <1>2. TypeOK /\ [Next]_vars
           => [\A c \in Channels : Steady(c) /\ Alone(c)' /\ light' = light =>
                  /\ OnCourse(c) \/ Served(c) => OnCourse(c)'
                  /\ ~Served(c) => output'[c] = output[c]
                  /\ OnCourse(c) /\ Served(c) =>
                        \/ Stopped(c) /\ Stopped(c)'
                        \/ \A m \in MaximumPower(c) : Approaches(c, m)]_vars
    BY <1>1
  <1> QED BY <1>2, MpptTypeCorrect, PTL DEF Spec, HoldsCourse

-----------------------------------------------------------------------------
(* A manual channel keeps its setting.                                     *)

\* Channel c is in manual mode, and the task has no other mode for it in hand.
Manual(c) ==
    /\ mode_reg[c] = MPPT_MANUAL_MODE
    /\ channel = c => mppt_mode \in {-1, MPPT_MANUAL_MODE}

\* As long as its mode register says so a channel stays manual, its PWM changes
\* to its own setting only, although the other channels change the duty cycle
\* of the configuration, and it has that when the task leaves it.
KeepsManual ==
    [][\A c \in Channels :
          Manual(c) /\ mode_reg'[c] = MPPT_MANUAL_MODE =>
              /\ Manual(c)'
              /\ output'[c] \in {output[c], duty_reg[c]}
              /\ channel = c /\ channel' # c => output'[c] = duty_reg[c]]_vars

\* With fairness, the reason why ManualApplied holds, for any panels, settings
\* and telecommands.
THEOREM ManualKept == Spec => KeepsManual
  <1>1. ASSUME TypeOK, [Next]_vars, NEW c \in Channels,
               Manual(c), mode_reg'[c] = MPPT_MANUAL_MODE
        PROVE  /\ Manual(c)'
               /\ output'[c] \in {output[c], duty_reg[c]}
               /\ channel = c /\ channel' # c => output'[c] = duty_reg[c]
    <2>1. CASE ReadMode
      BY <1>1, <2>1 DEF ReadMode, Unserved, device, Manual, TypeOK
    <2>2. ASSUME RunAutomatic \/ FailAutomatic \/ RunInvalid
          PROVE  channel # c
      BY <1>1, <2>2 DEF RunAutomatic, FailAutomatic, RunInvalid, Manual,
         MPPT_AUTOMATIC_MODE, MPPT_MANUAL_MODE
    <2>3. CASE RunAutomatic \/ FailAutomatic \/ RunInvalid
      <3>1. output'[c] = output[c]
        BY <1>1, <2>2, <2>3
        DEF RunAutomatic, FailAutomatic, RunInvalid, device, TypeOK
      <3>2. Manual(c)'
        BY <1>1, <2>3
        DEF RunAutomatic, FailAutomatic, RunInvalid, NextChannel, Manual
      <3> QED BY <2>2, <2>3, <3>1, <3>2
    <2>4. CASE RunManual
      <3>1. output'[c] = IF channel = c THEN duty_reg[c] ELSE output[c]
        BY <1>1, <2>4 DEF RunManual, TypeOK
      <3>2. Manual(c)'
        BY <1>1, <2>4 DEF RunManual, NextChannel, Manual
      <3> QED BY <3>1, <3>2
    <2>5. CASE Command \/ LightChange \/ UNCHANGED vars
      BY <1>1, <2>5 DEF Command, LightChange, vars, device, Manual
    <2> QED BY <1>1, <2>1, <2>3, <2>4, <2>5 DEF Next, Task
  <1>2. TypeOK /\ [Next]_vars =>
            [\A c \in Channels :
                Manual(c) /\ mode_reg'[c] = MPPT_MANUAL_MODE =>
                    /\ Manual(c)'
                    /\ output'[c] \in {output[c], duty_reg[c]}
                    /\ channel = c /\ channel' # c => output'[c] = duty_reg[c]]_vars
    BY <1>1
  <1> QED BY <1>2, MpptTypeCorrect, PTL DEF Spec, KeepsManual
=============================================================================
