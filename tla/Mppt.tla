-------------------------------- MODULE Mppt --------------------------------
(***************************************************************************)
(* The MPPT task (app/tasks/mppt_algorithm.c) and device                   *)
(* (devices/mppt/mppt.c): three control loops, one per pair of solar       *)
(* panels, each either following perturb-and-observe or set by             *)
(* telecommand.  One configuration mppt_config, and so one duty cycle,     *)
(* serves the three channels.                                              *)
(*                                                                         *)
(* The task runs the channels in turn.  The parameter server preempts it   *)
(* between any two reads of the parameter buffer; nothing else touches the *)
(* state of the device.  The panels are not part of the repository: the    *)
(* power read on a channel is a value of Power for the light and the duty  *)
(* cycle at which the PWM of that channel runs.                            *)
(***************************************************************************)
EXTENDS Integers

CONSTANTS
    MPPT_DUTY_CYCLE_INIT,
    MPPT_MAX_DUTY_CYCLE,
    DutySettings,       \* what a telecommand may write to a duty register
    Lights,             \* the conditions of light on the panels
    FirstLight,
    Power(_, _, _),     \* Power(light, channel, duty): possible measurements
    MaxCommands,        \* bound on the telecommands
    MaxLights           \* bound on the changes of light

Channels == 1..3

MPPT_MIN_DUTY_CYCLE  == 0
MPPT_DUTY_CYCLE_STEP == 1
MPPT_AUTOMATIC_MODE  == 0
MPPT_MANUAL_MODE     == 1

Duty == 0..255          \* uint8_t

ASSUME MpptAssumption ==
    /\ MPPT_MAX_DUTY_CYCLE \in 1..100
    /\ MPPT_DUTY_CYCLE_INIT \in 0..MPPT_MAX_DUTY_CYCLE
    /\ DutySettings \subseteq Duty
    /\ FirstLight \in Lights
    /\ \A l \in Lights, c \in Channels, d \in Duty : Power(l, c, d) \subseteq Nat
    /\ MaxCommands \in Nat /\ MaxLights \in Nat

\* 2 stands for the values that are no mode.
Modes == {MPPT_AUTOMATIC_MODE, MPPT_MANUAL_MODE, 2}

VARIABLES
    duty_cycle,     \* mppt_config.duty_cycle
    output,         \* per channel, the duty cycle the PWM was last set to
    previous,       \* per channel, previous_values: power and duty cycle
    mode_reg,       \* the mode registers of the parameter buffer
    duty_reg,       \* its duty cycle registers
    channel,        \* the channel the task serves
    mppt_mode,      \* the task's copy of its mode, -1 before it is read
    light, lights,  \* the light, and how often it changed
    commands,       \* telecommands so far
    highest         \* history: the highest value of a duty cycle register so far

device == <<duty_cycle, output, previous>>
vars == <<device, mode_reg, duty_reg, channel, mppt_mode, light, lights, commands,
          highest>>

\* mppt_init has set the three PWMs; the mode registers are automatic and the
\* duty cycle registers 50, which is MPPT_DUTY_CYCLE_INIT too.
Init ==
    /\ duty_cycle = MPPT_DUTY_CYCLE_INIT
    /\ output = [c \in Channels |-> MPPT_DUTY_CYCLE_INIT]
    /\ previous = [c \in Channels |-> [power |-> 0, duty_cycle |-> 0]]
    /\ mode_reg = [c \in Channels |-> MPPT_AUTOMATIC_MODE]
    /\ duty_reg = [c \in Channels |-> MPPT_DUTY_CYCLE_INIT]
    /\ channel = 1 /\ mppt_mode = -1
    /\ light = FirstLight /\ lights = 0
    /\ commands = 0 /\ highest = MPPT_DUTY_CYCLE_INIT

\* Mutants: the limits are not tested.
BugIncreased(d) == d + MPPT_DUTY_CYCLE_STEP
BugDecreased(d) == d - MPPT_DUTY_CYCLE_STEP

\* increase_duty_cycle, decrease_duty_cycle
Increased(d) == IF d >= MPPT_MAX_DUTY_CYCLE THEN MPPT_MAX_DUTY_CYCLE
                ELSE d + MPPT_DUTY_CYCLE_STEP
Decreased(d) == IF d = MPPT_MIN_DUTY_CYCLE THEN d ELSE d - MPPT_DUTY_CYCLE_STEP

\* Mutant: the power is not compared, the direction always reversed.
BugPerturbed(d, p, prev) ==
    IF d < prev.duty_cycle THEN Increased(d) ELSE Decreased(d)

\* The next duty cycle, for the present one d and the measured power p.
Perturbed(d, p, prev) ==
    IF \/ p > prev.power /\ d > prev.duty_cycle
       \/ p <= prev.power /\ d < prev.duty_cycle
    THEN Increased(d) ELSE Decreased(d)

NextChannel ==
    /\ channel' = IF channel = 3 THEN 1 ELSE channel + 1
    /\ mppt_mode' = -1

Unserved == <<mode_reg, duty_reg, light, lights, commands, highest>>

ReadMode ==
    /\ mppt_mode = -1
    /\ mppt_mode' = mode_reg[channel]
    /\ UNCHANGED <<device, channel, Unserved>>

\* mppt_algorithm: get_power, get_duty_cycle, the step, pwm_update and the
\* values kept for the next time.
RunAutomatic ==
    /\ mppt_mode = MPPT_AUTOMATIC_MODE
    /\ \E p \in Power(light, channel, output[channel]) :
          /\ duty_cycle' = Perturbed(duty_cycle, p, previous[channel])
          /\ previous' = [previous EXCEPT ![channel] =
                             [power |-> p, duty_cycle |-> duty_cycle]]
    /\ output' = [output EXCEPT ![channel] = duty_cycle']
    /\ NextChannel
    /\ UNCHANGED Unserved

\* A sensor of the channel fails: mppt_algorithm returns before it changes
\* anything.
FailAutomatic ==
    /\ mppt_mode = MPPT_AUTOMATIC_MODE
    /\ Power(light, channel, output[channel]) = {}
    /\ NextChannel
    /\ UNCHANGED <<device, Unserved>>

\* Mutant: the PWM is left alone when the configuration has the value already.
BugRunManual ==
    /\ mppt_mode = MPPT_MANUAL_MODE
    /\ duty_cycle' = duty_reg[channel]
    /\ output' = IF duty_reg[channel] = duty_cycle THEN output
                 ELSE [output EXCEPT ![channel] = duty_reg[channel]]
    /\ NextChannel
    /\ UNCHANGED <<previous, Unserved>>

\* mppt_set_duty_cycle with the duty cycle register, as it is: the value is
\* stored in the one configuration, whatever it is.
RunManual ==
    /\ mppt_mode = MPPT_MANUAL_MODE
    /\ duty_cycle' = duty_reg[channel]
    /\ output' = [output EXCEPT ![channel] = duty_reg[channel]]
    /\ NextChannel
    /\ UNCHANGED <<previous, Unserved>>

\* "Invalid mode!"
RunInvalid ==
    /\ mppt_mode \notin {-1, MPPT_AUTOMATIC_MODE, MPPT_MANUAL_MODE}
    /\ NextChannel
    /\ UNCHANGED <<device, Unserved>>

Task == ReadMode \/ RunAutomatic \/ FailAutomatic \/ RunManual \/ RunInvalid

\* A telecommand, executed by the parameter server.
Command ==
    /\ commands < MaxCommands
    /\ commands' = commands + 1
    /\ \E c \in Channels :
          \/ \E m \in Modes : mode_reg' = [mode_reg EXCEPT ![c] = m]
                              /\ UNCHANGED <<duty_reg, highest>>
          \/ \E d \in DutySettings :
                /\ duty_reg' = [duty_reg EXCEPT ![c] = d]
                /\ highest' = IF d > highest THEN d ELSE highest
                /\ UNCHANGED mode_reg
    /\ UNCHANGED <<device, channel, mppt_mode, light, lights>>

LightChange ==
    /\ lights < MaxLights
    /\ lights' = lights + 1
    /\ light' \in Lights \ {light}
    /\ UNCHANGED <<device, mode_reg, duty_reg, channel, mppt_mode, commands,
                   highest>>

Next == Task \/ Command \/ LightChange

Spec == Init /\ [][Next]_vars

\* The task is released every 300 ms, and only short tasks precede it.
FairSpec == Spec /\ WF_vars(Task)

-----------------------------------------------------------------------------
(* Properties.                                                             *)

\* Every variable has its type.
TypeOK ==
    /\ duty_cycle \in Duty /\ output \in [Channels -> Duty]
    /\ previous \in [Channels -> [power : Nat, duty_cycle : Duty]]
    /\ mode_reg \in [Channels -> Modes] /\ duty_reg \in [Channels -> Duty]
    /\ channel \in Channels /\ mppt_mode \in Modes \cup {-1}
    /\ light \in Lights /\ lights \in Nat /\ commands \in Nat
    /\ highest \in Duty

Legal == MPPT_MIN_DUTY_CYCLE..MPPT_MAX_DUTY_CYCLE

\* What may reach an output: the maximum, or more if a telecommand has set more.
Bound == IF highest > MPPT_MAX_DUTY_CYCLE THEN highest ELSE MPPT_MAX_DUTY_CYCLE

\* No PWM runs above the maximum of mppt.h, unless a telecommand has set at least
\* as much on some channel: however the channels hand the one duty cycle of
\* mppt_config to each other, the algorithm adds nothing to a setting beyond the
\* maximum, and the maximum itself is never passed without one.
OutputBounded == \A c \in Channels : output[c] <= Bound

\* A channel that is left in manual mode with one setting has that duty cycle
\* from some time on, although the other channels overwrite mppt_config
\* ("set manually via telecommands", doc/chapters/firmware.tex).
ManualApplied ==
    \A c \in Channels, v \in DutySettings :
        <>[](mode_reg[c] = MPPT_MANUAL_MODE /\ duty_reg[c] = v)
            => <>[](output[c] = v)

\* The duty cycles at which the panels of channel c give the most.
MaximumPower(c) ==
    {d \in Legal : \A e \in Legal :
        \A p \in Power(light, c, d), q \in Power(light, c, e) : p >= q}

\* Channel c runs within one step of one of them, the ripple of the method.
Tracks(c) == \E d \in MaximumPower(c) : output[c] - d \in -1..1

Lit(c) == Power(light, c, output[c]) # {}

\* Channel c has light and is the only one that is not in an invalid mode.
Alone(c) ==
    /\ mode_reg[c] = MPPT_AUTOMATIC_MODE /\ Lit(c)
    /\ \A o \in Channels \ {c} : mode_reg[o] = 2

\* A channel that runs alone in automatic mode finds the maximum power point
\* and stays there, whatever the duty cycle and the previous values the other
\* channels left and however the light changed before, unless it has stopped
\* at the duty cycle 0: with the previous one 0 too mppt_algorithm decreases
\* whatever the power, and the channel never leaves it.
TracksOrStops ==
    \A c \in Channels :
        <>[]Alone(c) => <>[](Tracks(c) \/ output[c] = MPPT_MIN_DUTY_CYCLE)

\* Channel c runs alone, and the configuration has the duty cycle of its PWM.
Steady(c) ==
    /\ Alone(c) /\ mppt_mode \in {-1, mode_reg[channel]}
    /\ output[c] = duty_cycle /\ output[c] \in Legal

\* Its previous values are those of the light it has, one step away, or at the
\* limit where there was no step to take.
OnCourse(c) ==
    LET last == previous[c].duty_cycle
    IN  /\ Steady(c) /\ last \in Legal
        /\ previous[c].power \in Power(light, c, last)
        /\ \/ output[c] - last \in {-1, 1}
           \/ output[c] = last /\ last \in {MPPT_MIN_DUTY_CYCLE, MPPT_MAX_DUTY_CYCLE}

Stopped(c) == output[c] = MPPT_MIN_DUTY_CYCLE /\ previous[c].duty_cycle = output[c]

Served(c) == channel = c /\ RunAutomatic

\* The step of channel c goes towards m, or not farther away than one from it.
Approaches(c, m) ==
    CASE output[c] < m -> output'[c] = output[c] + 1
      [] output[c] > m -> output'[c] = output[c] - 1
      [] OTHER         -> output'[c] - m \in -1..1

\* Once its output is the duty cycle of the configuration, one run brings a lone
\* channel on course, and it stays there as long as it is alone and the light is
\* the same; every later run goes towards the maximum power point, except that a
\* channel stopped at the duty cycle 0 stays stopped.  No other step moves it.
HoldsCourse ==
    [][\A c \in Channels : Steady(c) /\ Alone(c)' /\ light' = light =>
          /\ OnCourse(c) \/ Served(c) => OnCourse(c)'
          /\ ~Served(c) => output'[c] = output[c]
          /\ OnCourse(c) /\ Served(c) =>
                \/ Stopped(c) /\ Stopped(c)'
                \/ \A m \in MaximumPower(c) : Approaches(c, m)]_vars
=============================================================================
