------------------------------- MODULE Heater -------------------------------
(***************************************************************************)
(* The heater controller task (app/tasks/heater_controller.c) and the two  *)
(* devices that drive a heater: devices/heater/heater_on_off.c, a GPIO pin *)
(* and a thermostat, and devices/heater/heater.c, a PWM.                   *)
(*                                                                         *)
(* The two devices share the pins: GPIO_PIN_18 and GPIO_PIN_19 are the     *)
(* port pins P3.2 and P3.3 on which the TIMER_A1 ports PWM_PORT_1 and      *)
(* PWM_PORT_2 come out.  A pin follows the timer or its output latch, as   *)
(* the last call of the two drivers selected.                              *)
(*                                                                         *)
(* The parameter server preempts the task between two reads of the         *)
(* parameter buffer.  Temperatures and sensor failures are the             *)
(* environment's.                                                          *)
(***************************************************************************)
EXTENDS Integers

CONSTANTS
    Temperatures,   \* what an RTD may measure, in K
    DutySettings    \* what a telecommand may write to a duty cycle register

Channels == 0..1
Duty     == 0..255  \* uint8_t
Word     == 0..65535 \* uint16_t

HEATER_AUTOMATIC_MODE  == 0
HEATER_MANUAL_MODE     == 1
TEMP_LIMIT_MINIMUM     == 200
TEMP_LIMIT_MAXIMUM     == 305
HEATER_DUTY_CYCLE_INIT == 50
TIMER_PERIOD           == 32000 \* HEATER_PERIOD_INIT in cycles of the timer

ASSUME HeaterAssumption ==
    Temperatures \subseteq Nat /\ DutySettings \subseteq Duty

\* 2 stands for the values that are no mode.
Modes == {HEATER_AUTOMATIC_MODE, HEATER_MANUAL_MODE, 2}

NoReading == -1

VARIABLES
    last_mode,      \* the device that drives the channel: last_mode[2]
    status,         \* heater1_status, heater2_status
    pin,            \* what the pin of the channel follows: "gpio" or "pwm"
    latch,          \* its output latch
    compare,        \* the compare register of its timer, in cycles
    mode_reg,       \* the mode registers of the parameter buffer
    duty_reg,       \* its duty cycle registers
    pc,             \* "mode", "duty" or "control"
    channel,        \* the channel the task serves
    heater_mode,    \* its copies of the registers
    heater_dt_cycle,
    reading,        \* history: per channel, the temperature the last
                    \* automatic control acted on, or NoReading
    extreme,        \* history: per channel, the last limit a reading passed
    asked           \* history: per channel, its duty cycle register as the task
                    \* last found it in manual mode

drivers  == <<pin, latch, compare>>
buffer   == <<mode_reg, duty_reg>>
history  == <<reading, extreme, asked>>
vars == <<last_mode, status, drivers, buffer, pc, channel, heater_mode,
          heater_dt_cycle, history>>

\* vTaskStartup has called heater_on_off_init for both channels.
Init ==
    /\ last_mode = [c \in Channels |-> HEATER_AUTOMATIC_MODE]
    /\ status = [c \in Channels |-> FALSE]
    /\ pin = [c \in Channels |-> "gpio"]
    /\ latch = [c \in Channels |-> FALSE]
    /\ compare = [c \in Channels |-> 0]
    /\ mode_reg = [c \in Channels |-> HEATER_AUTOMATIC_MODE]
    /\ duty_reg = [c \in Channels |-> HEATER_DUTY_CYCLE_INIT]
    /\ pc = "mode" /\ channel = 0
    /\ heater_mode = 0 /\ heater_dt_cycle = 0
    /\ reading = [c \in Channels |-> NoReading]
    /\ extreme = [c \in Channels |-> "none"]
    /\ asked = [c \in Channels |-> 0]

-----------------------------------------------------------------------------
(* The drivers of a pin, as the state they leave for channel c.            *)

\* gpio_init as output and gpio_set_state to off: heater_on_off_init
SetGpioOff(c) ==
    /\ pin' = [pin EXCEPT ![c] = "gpio"]
    /\ latch' = [latch EXCEPT ![c] = FALSE]

\* pwm_update: the cycles of a duty cycle in %, in the uint16_t of the timer's
\* configuration, which 205 and more overflow.
Cycles(d) == (d * (TIMER_PERIOD \div 100)) % 65536

\* Mutant: the pin is set up by heater_init only, and stays stopped.
BugSetPwm(c, d) ==
    /\ compare' = [compare EXCEPT ![c] = Cycles(d)]
    /\ IF d = 0 THEN SetGpioOff(c)
       ELSE /\ pin' = [pin EXCEPT ![c] = IF last_mode[c] = HEATER_MANUAL_MODE
                                        THEN @ ELSE "pwm"]
            /\ UNCHANGED latch

\* heater_set_actuator: pwm_update, or pwm_stop for the duty cycle 0, which
\* zeroes the timer and then holds the pin low.
SetPwm(c, d) ==
    /\ compare' = [compare EXCEPT ![c] = Cycles(d)]
    /\ IF d = 0 THEN SetGpioOff(c)
       ELSE pin' = [pin EXCEPT ![c] = "pwm"] /\ UNCHANGED latch

\* The cycles of each period in which the heater is on: a compare register
\* beyond the period is never reached, and the pin stays on.
Drive(c) ==
    IF pin[c] = "gpio" THEN (IF latch[c] THEN TIMER_PERIOD ELSE 0)
    ELSE IF compare[c] > TIMER_PERIOD THEN TIMER_PERIOD ELSE compare[c]

-----------------------------------------------------------------------------
(* The task.                                                               *)

ReadMode ==
    /\ pc = "mode"
    /\ heater_mode' = mode_reg[channel] /\ pc' = "duty"
    /\ UNCHANGED <<last_mode, status, drivers, buffer, channel, heater_dt_cycle,
                   history>>

ReadDuty ==
    /\ pc = "duty"
    /\ heater_dt_cycle' = duty_reg[channel] /\ pc' = "control"
    /\ asked' = IF heater_mode = HEATER_MANUAL_MODE
                THEN [asked EXCEPT ![channel] = duty_reg[channel]] ELSE asked
    /\ UNCHANGED <<last_mode, status, drivers, buffer, channel, heater_mode,
                   reading, extreme>>

NextChannel ==
    /\ pc = "control"
    /\ pc' = "mode" /\ channel' = 1 - channel
    /\ UNCHANGED <<buffer, heater_mode, heater_dt_cycle>>

\* Mutant: the two limits are taken for one.
BugThermostat(t, on) == t < TEMP_LIMIT_MAXIMUM

\* heater_on_off_algorithm: on below the lower limit, off above the upper,
\* between them as before.
Thermostat(t, on) ==
    /\ t < TEMP_LIMIT_MAXIMUM
    /\ t <= TEMP_LIMIT_MINIMUM \/ on

\* Mutant: gpio_set_state is thought to be enough.
BugReclaim(c) == pin' = pin

\* heater_on_off_init when the channel was in manual mode; without it the pin
\* would go on following the timer.
Reclaim(c) ==
    pin' = IF last_mode[c] # HEATER_AUTOMATIC_MODE
           THEN [pin EXCEPT ![c] = "gpio"] ELSE pin

\* Automatic mode with a reading.
ControlAutomatic(t) ==
    /\ heater_mode = HEATER_AUTOMATIC_MODE
    /\ Reclaim(channel)
    /\ last_mode' = [last_mode EXCEPT ![channel] = HEATER_AUTOMATIC_MODE]
    /\ status' = [status EXCEPT ![channel] = Thermostat(t, @)]
    /\ latch' = [latch EXCEPT ![channel] = status'[channel]]
    /\ reading' = [reading EXCEPT ![channel] = t]
    /\ extreme' = [extreme EXCEPT ![channel] =
                      IF t >= TEMP_LIMIT_MAXIMUM THEN "hot"
                      ELSE IF t <= TEMP_LIMIT_MINIMUM THEN "cold" ELSE @]
    /\ NextChannel
    /\ UNCHANGED <<compare, asked>>

\* Automatic mode, and heater_on_off_get_sensor fails: the heater stays as it
\* is, or off when it has just been reclaimed.  (ads1248_write_cmd returns 0
\* whatever the bus did, so that this is not reached with that driver: a dead
\* RTD is a wrong reading, and those are in Temperatures.)
ControlBlind ==
    /\ heater_mode = HEATER_AUTOMATIC_MODE
    /\ IF last_mode[channel] # HEATER_AUTOMATIC_MODE
       THEN SetGpioOff(channel) ELSE UNCHANGED <<pin, latch>>
    /\ last_mode' = [last_mode EXCEPT ![channel] = HEATER_AUTOMATIC_MODE]
    /\ reading' = [reading EXCEPT ![channel] = NoReading]
    /\ NextChannel
    /\ UNCHANGED <<status, compare, extreme, asked>>

\* Manual mode: heater_init, whose 50 % last until heater_set_actuator
\* replaces them, and the duty cycle register.
ControlManual ==
    /\ heater_mode = HEATER_MANUAL_MODE
    /\ SetPwm(channel, heater_dt_cycle)
    /\ last_mode' = [last_mode EXCEPT ![channel] = HEATER_MANUAL_MODE]
    /\ reading' = [reading EXCEPT ![channel] = NoReading]
    /\ NextChannel
    /\ UNCHANGED <<status, extreme, asked>>

\* "Invalid mode!": the heater stays as it is.
ControlInvalid ==
    /\ heater_mode \notin {HEATER_AUTOMATIC_MODE, HEATER_MANUAL_MODE}
    /\ NextChannel
    /\ UNCHANGED <<last_mode, status, drivers, history>>

Task ==
    \/ ReadMode \/ ReadDuty
    \/ \E t \in Temperatures : ControlAutomatic(t)
    \/ ControlBlind \/ ControlManual \/ ControlInvalid

-----------------------------------------------------------------------------
\* Telecommands, executed by the parameter server.
CommandMode ==
    /\ \E c \in Channels, m \in Modes : mode_reg' = [mode_reg EXCEPT ![c] = m]
    /\ UNCHANGED <<last_mode, status, drivers, duty_reg, pc, channel,
                   heater_mode, heater_dt_cycle, history>>

CommandDuty ==
    /\ \E c \in Channels, d \in DutySettings :
          duty_reg' = [duty_reg EXCEPT ![c] = d]
    /\ UNCHANGED <<last_mode, status, drivers, mode_reg, pc, channel,
                   heater_mode, heater_dt_cycle, history>>

Next == Task \/ CommandMode \/ CommandDuty

Spec == Init /\ [][Next]_vars

-----------------------------------------------------------------------------
(* Properties.                                                             *)

\* Every variable has its type.
TypeOK ==
    /\ last_mode \in [Channels -> {HEATER_AUTOMATIC_MODE, HEATER_MANUAL_MODE}]
    /\ status \in [Channels -> BOOLEAN]
    /\ pin \in [Channels -> {"gpio", "pwm"}]
    /\ latch \in [Channels -> BOOLEAN] /\ compare \in [Channels -> Word]
    /\ mode_reg \in [Channels -> Modes] /\ duty_reg \in [Channels -> Duty]
    /\ pc \in {"mode", "duty", "control"} /\ channel \in Channels
    /\ heater_mode \in Modes /\ heater_dt_cycle \in Duty
    /\ reading \in [Channels -> Temperatures \cup {NoReading}]
    /\ extreme \in [Channels -> {"none", "hot", "cold"}]
    /\ asked \in [Channels -> Duty]

\* Once a temperature was measured in automatic mode the heater is fully on or
\* off as the limits of heater_on_off.h ask, between them by the limit passed
\* last; no duty cycle of a manual period survives on the pin
\* ("This algorithm switches the heaters on or off based on the set temperature
\* limits", doc/chapters/firmware.tex).
Regulated ==
    \A c \in Channels :
        reading[c] # NoReading =>
            Drive(c) = IF reading[c] >= TEMP_LIMIT_MAXIMUM THEN 0
                       ELSE IF reading[c] <= TEMP_LIMIT_MINIMUM THEN TIMER_PERIOD
                       ELSE IF extreme[c] = "cold" THEN TIMER_PERIOD ELSE 0

\* A heater in the hands of the automatic device is on only after a reading
\* below the lower limit that no reading above the upper one followed: neither
\* a failed sensor nor a change of mode turns it on.
OnOnlyAfterCold ==
    \A c \in Channels :
        last_mode[c] = HEATER_AUTOMATIC_MODE /\ Drive(c) > 0
            => extreme[c] = "cold"

\* The task holds a new setting of the channel that it has not applied yet.
Applying(c) ==
    pc = "control" /\ channel = c /\ heater_mode = HEATER_MANUAL_MODE

\* A heater in the hands of the PWM is on for the share of the time its register
\* asked for when the task last read it, whatever the pin was used for before
\* and whatever the other channel was set to: exactly up to 100 %, always on up
\* to 204 %, and from 205 % on for the share that is left of the 16 bits
\* (heater_set_actuator, pwm_update).
ManualDuty ==
    \A c \in Channels :
        last_mode[c] = HEATER_MANUAL_MODE /\ ~Applying(c) =>
            /\ asked[c] <= 100 => 100 * Drive(c) = asked[c] * TIMER_PERIOD
            /\ asked[c] \in 101..204 => Drive(c) = TIMER_PERIOD
            /\ asked[c] >= 205 => Drive(c) = asked[c] * 320 - 65536
=============================================================================
