--------------------------- MODULE Heater_proofs ---------------------------
(***************************************************************************)
(* Proofs about the heater controller, for every set of temperatures and   *)
(* of duty cycle settings.                                                 *)
(***************************************************************************)
EXTENDS Heater, TLAPS

\* What one channel owes to the device that drives it.  The pin belongs to the
\* automatic device when last_mode says so, its latch is then on only by the
\* thermostat, and the thermostat's memory is the limit passed last.
ChannelInv(c) ==
    /\ last_mode[c] = HEATER_AUTOMATIC_MODE =>
          pin[c] = "gpio" /\ (latch[c] => extreme[c] = "cold")
    /\ last_mode[c] = HEATER_MANUAL_MODE =>
          pin[c] = "pwm" \/ (~latch[c] /\ compare[c] = 0)
    /\ status[c] <=> extreme[c] = "cold"
    /\ reading[c] # NoReading =>
          /\ last_mode[c] = HEATER_AUTOMATIC_MODE
          /\ latch[c] <=> status[c]
          /\ reading[c] >= TEMP_LIMIT_MAXIMUM => extreme[c] = "hot"
          /\ reading[c] <= TEMP_LIMIT_MINIMUM => extreme[c] = "cold"

HeaterInv == TypeOK /\ \A c \in Channels : ChannelInv(c)

\* What the PWM of a channel owes to the setting: the task holds the setting it
\* read, and once applied it is in the compare register, on a pin that the timer
\* has unless the setting was 0.
SettingInv ==
    \A c \in Channels :
        /\ Applying(c) => heater_dt_cycle = asked[c]
        /\ last_mode[c] = HEATER_MANUAL_MODE /\ ~Applying(c) =>
              compare[c] = Cycles(asked[c]) /\ (pin[c] = "gpio" <=> asked[c] = 0)

\* The cycles of a duty cycle, before and after the overflow.
LEMMA CyclesValue ==
    ASSUME NEW d \in Duty
    PROVE  /\ Cycles(d) \in Word
           /\ d <= 204 => Cycles(d) = 320 * d
           /\ d >= 205 => Cycles(d) = 320 * d - 65536
<1>1. Cycles(d) = (320 * d) % 65536
    BY DEF Cycles, TIMER_PERIOD, Duty
<1>2. d <= 204 => (320 * d) % 65536 = 320 * d
    BY SMTT(30) DEF Duty
<1>3. d >= 205 => (320 * d) % 65536 = 320 * d - 65536
    BY SMTT(30) DEF Duty
<1>4. (320 * d) % 65536 \in Word
    BY DEF Duty, Word
<1> QED
    BY <1>1, <1>2, <1>3, <1>4

\* The thermostat answers with a Boolean.
LEMMA ThermostatType ==
    ASSUME NEW t \in Nat, NEW on \in BOOLEAN
    PROVE  Thermostat(t, on) \in BOOLEAN
BY DEF Thermostat

\* The state after reset satisfies the invariant.
LEMMA HeaterInit == Init => HeaterInv /\ SettingInv
<1>1. Init => HeaterInv
    BY DEF Init, HeaterInv, TypeOK, ChannelInv, Channels, Duty, Modes,
           HEATER_AUTOMATIC_MODE, HEATER_MANUAL_MODE, HEATER_DUTY_CYCLE_INIT,
           NoReading, Word
<1>2. Init => SettingInv
    BY DEF Init, SettingInv, Applying, HEATER_AUTOMATIC_MODE, HEATER_MANUAL_MODE
<1> QED
    BY <1>1, <1>2

\* The task goes on with the other channel.
LEMMA NextChannelType ==
    ASSUME TypeOK, NextChannel
    PROVE  /\ channel \in Channels /\ channel' \in Channels
           /\ pc' \in {"mode", "duty", "control"}
           /\ mode_reg' \in [Channels -> Modes] /\ duty_reg' \in [Channels -> Duty]
           /\ heater_mode' \in Modes /\ heater_dt_cycle' \in Duty
BY DEF TypeOK, NextChannel, Channels, buffer

\* heater_set_actuator changes the pin of its own channel only, and leaves it
\* with the timer, or low.
LEMMA SetPwmPin ==
    ASSUME TypeOK, NEW c \in Channels, NEW d \in Duty, SetPwm(c, d)
    PROVE  /\ pin' \in [Channels -> {"gpio", "pwm"}]
           /\ latch' \in [Channels -> BOOLEAN]
           /\ compare' \in [Channels -> Word]
           /\ pin'[c] = "pwm" \/ (~latch'[c] /\ compare'[c] = 0)
           /\ compare'[c] = Cycles(d) /\ (pin'[c] = "gpio" <=> d = 0)
           /\ \A o \in Channels \ {c} :
                 pin'[o] = pin[o] /\ latch'[o] = latch[o] /\ compare'[o] = compare[o]
<1>0. Cycles(d) \in Word /\ (d = 0 => Cycles(d) = 0)
    BY CyclesValue DEF Duty
<1>1. CASE d = 0
    BY <1>0, <1>1 DEF SetPwm, SetGpioOff, TypeOK
<1>2. CASE d # 0
    BY <1>0, <1>2 DEF SetPwm, TypeOK
<1> QED
    BY <1>1, <1>2

-----------------------------------------------------------------------------
\* A channel whose variables do not change keeps its part of the invariant.
LEMMA ChannelUnchanged ==
    ASSUME NEW c \in Channels, ChannelInv(c),
           last_mode'[c] = last_mode[c], status'[c] = status[c],
           pin'[c] = pin[c], latch'[c] = latch[c], compare'[c] = compare[c],
           reading'[c] = reading[c], extreme'[c] = extreme[c]
    PROVE  ChannelInv(c)'
BY DEF ChannelInv

\* A reading acted on in automatic mode.
LEMMA HeaterAutomatic ==
    ASSUME HeaterInv, NEW t \in Temperatures, ControlAutomatic(t)
    PROVE  HeaterInv'
<1>0. PICK c \in Channels : c = channel
    BY DEF HeaterInv, TypeOK
<1>1. TypeOK /\ ChannelInv(c) /\ c = channel /\ t \in Nat
    BY <1>0, HeaterAssumption DEF HeaterInv, TypeOK
<1>2. status' = [status EXCEPT ![c] = Thermostat(t, status[c])]
    BY <1>1 DEF ControlAutomatic
<1>3. status'[c] = Thermostat(t, status[c]) /\ status' \in [Channels -> BOOLEAN]
    BY <1>1, <1>2, ThermostatType DEF TypeOK
<1>4. latch' \in [Channels -> BOOLEAN] /\ latch'[c] = status'[c]
    BY <1>1, <1>3, Zenon DEF ControlAutomatic, TypeOK
<1>5. pin' \in [Channels -> {"gpio", "pwm"}] /\ pin'[c] = "gpio"
    BY <1>1 DEF ControlAutomatic, Reclaim, ChannelInv, TypeOK
<1>6. /\ last_mode' \in [Channels -> {HEATER_AUTOMATIC_MODE, HEATER_MANUAL_MODE}]
      /\ last_mode'[c] = HEATER_AUTOMATIC_MODE
    BY <1>1 DEF ControlAutomatic, TypeOK
<1>7. reading' \in [Channels -> Temperatures \cup {NoReading}] /\ reading'[c] = t
    BY <1>1 DEF ControlAutomatic, TypeOK
<1>8. /\ extreme' \in [Channels -> {"none", "hot", "cold"}]
      /\ extreme'[c] = IF t >= TEMP_LIMIT_MAXIMUM THEN "hot"
                       ELSE IF t <= TEMP_LIMIT_MINIMUM THEN "cold" ELSE extreme[c]
    BY <1>1 DEF ControlAutomatic, TypeOK
<1>9. TypeOK'
    BY <1>1, <1>3, <1>4, <1>5, <1>6, <1>7, <1>8, NextChannelType
    DEF ControlAutomatic, TypeOK
<1>10. ChannelInv(c)'
  <2>1. status'[c] <=> extreme'[c] = "cold"
      BY <1>1, <1>3, <1>8
      DEF Thermostat, ChannelInv, TEMP_LIMIT_MAXIMUM, TEMP_LIMIT_MINIMUM
  <2>2. /\ t >= TEMP_LIMIT_MAXIMUM => extreme'[c] = "hot"
        /\ t <= TEMP_LIMIT_MINIMUM => extreme'[c] = "cold"
      BY <1>1, <1>8 DEF TEMP_LIMIT_MAXIMUM, TEMP_LIMIT_MINIMUM
  <2> QED
      BY <1>4, <1>5, <1>6, <1>7, <2>1, <2>2
      DEF ChannelInv, HEATER_AUTOMATIC_MODE, HEATER_MANUAL_MODE
<1>11. ASSUME NEW o \in Channels \ {c} PROVE ChannelInv(o)'
    BY <1>1, ChannelUnchanged DEF ControlAutomatic, Reclaim, HeaterInv, TypeOK
<1> QED
    BY <1>9, <1>10, <1>11 DEF HeaterInv

\* A sensor that fails in automatic mode.
LEMMA HeaterBlind ==
    ASSUME HeaterInv, ControlBlind
    PROVE  HeaterInv'
<1>0. PICK c \in Channels : c = channel
    BY DEF HeaterInv, TypeOK
<1>1. TypeOK /\ ChannelInv(c) /\ c = channel
    BY <1>0 DEF HeaterInv, TypeOK
<1>2. /\ pin' \in [Channels -> {"gpio", "pwm"}] /\ latch' \in [Channels -> BOOLEAN]
      /\ pin'[c] = "gpio" /\ (latch'[c] => extreme[c] = "cold")
      /\ \A o \in Channels \ {c} : pin'[o] = pin[o] /\ latch'[o] = latch[o]
  <2>1. CASE last_mode[c] # HEATER_AUTOMATIC_MODE
      BY <1>1, <2>1 DEF ControlBlind, SetGpioOff, TypeOK
  <2>2. CASE last_mode[c] = HEATER_AUTOMATIC_MODE
      BY <1>1, <2>2 DEF ControlBlind, ChannelInv, TypeOK
  <2> QED
      BY <2>1, <2>2
<1>3. /\ last_mode' \in [Channels -> {HEATER_AUTOMATIC_MODE, HEATER_MANUAL_MODE}]
      /\ last_mode'[c] = HEATER_AUTOMATIC_MODE
      /\ reading' \in [Channels -> Temperatures \cup {NoReading}]
      /\ reading'[c] = NoReading
    BY <1>1 DEF ControlBlind, TypeOK
<1>4. TypeOK'
    BY <1>1, <1>2, <1>3, NextChannelType DEF ControlBlind, TypeOK
<1>5. ChannelInv(c)'
    BY <1>1, <1>2, <1>3
    DEF ControlBlind, ChannelInv, HEATER_AUTOMATIC_MODE, HEATER_MANUAL_MODE
<1>6. ASSUME NEW o \in Channels \ {c} PROVE ChannelInv(o)'
    BY <1>1, <1>2, ChannelUnchanged DEF ControlBlind, HeaterInv, TypeOK
<1> QED
    BY <1>4, <1>5, <1>6 DEF HeaterInv

\* A duty cycle set in manual mode.
LEMMA HeaterManual ==
    ASSUME HeaterInv, ControlManual
    PROVE  HeaterInv'
<1>0. PICK c \in Channels : c = channel
    BY DEF HeaterInv, TypeOK
<1>1. TypeOK /\ ChannelInv(c) /\ c = channel /\ heater_dt_cycle \in Duty
    BY <1>0 DEF HeaterInv, TypeOK
<1>2. SetPwm(c, heater_dt_cycle)
    BY <1>1 DEF ControlManual
<1>3. /\ last_mode' \in [Channels -> {HEATER_AUTOMATIC_MODE, HEATER_MANUAL_MODE}]
      /\ last_mode'[c] = HEATER_MANUAL_MODE
      /\ reading' \in [Channels -> Temperatures \cup {NoReading}]
      /\ reading'[c] = NoReading
    BY <1>1 DEF ControlManual, TypeOK
<1>4. TypeOK'
    BY <1>1, <1>2, <1>3, SetPwmPin, NextChannelType DEF ControlManual, TypeOK
<1>5. ChannelInv(c)'
    BY <1>1, <1>2, <1>3, SetPwmPin
    DEF ControlManual, ChannelInv, HEATER_AUTOMATIC_MODE, HEATER_MANUAL_MODE
<1>6. ASSUME NEW o \in Channels \ {c} PROVE ChannelInv(o)'
  <2>1. pin'[o] = pin[o] /\ latch'[o] = latch[o] /\ compare'[o] = compare[o]
      BY <1>1, <1>2, SetPwmPin
  <2> QED
      BY <1>1, <2>1, ChannelUnchanged DEF ControlManual, HeaterInv, TypeOK
<1> QED
    BY <1>4, <1>5, <1>6 DEF HeaterInv

\* The steps that leave the drivers and the readings alone.
LEMMA HeaterOther ==
    ASSUME HeaterInv, UNCHANGED <<last_mode, status, drivers, reading, extreme>>,
           TypeOK'
    PROVE  HeaterInv'
BY ChannelUnchanged DEF HeaterInv, drivers

\* A control step leaves no setting to be applied, and the other channel alone.
LEMMA OthersSettings ==
    ASSUME TypeOK, SettingInv, NextChannel, UNCHANGED asked,
           NEW o \in Channels \ {channel},
           last_mode'[o] = last_mode[o], pin'[o] = pin[o], compare'[o] = compare[o]
    PROVE  /\ last_mode'[o] = HEATER_MANUAL_MODE =>
                  compare'[o] = Cycles(asked'[o]) /\ (pin'[o] = "gpio" <=> asked'[o] = 0)
           /\ \A c \in Channels : ~Applying(c)'
BY DEF SettingInv, Applying, NextChannel, HEATER_MANUAL_MODE

\* Every step keeps the settings with their channels.
LEMMA SettingStep ==
    ASSUME HeaterInv, SettingInv, [Next]_vars
    PROVE  SettingInv'
<1>0. TypeOK /\ channel \in Channels
    BY DEF HeaterInv, TypeOK
<1>1. CASE ReadMode
    BY <1>1 DEF ReadMode, SettingInv, Applying, drivers, history
<1>2. CASE ReadDuty
  <2> SUFFICES ASSUME NEW c \in Channels
               PROVE /\ Applying(c)' => heater_dt_cycle' = asked'[c]
                     /\ last_mode'[c] = HEATER_MANUAL_MODE /\ ~Applying(c)' =>
                           /\ compare'[c] = Cycles(asked'[c])
                           /\ (pin'[c] = "gpio" <=> asked'[c] = 0)
      BY DEF SettingInv
  <2>1. ~Applying(c) /\ channel' = channel /\ heater_mode' = heater_mode
        /\ pc' = "control" /\ heater_dt_cycle' = duty_reg[channel]
      BY <1>2 DEF ReadDuty, Applying
  <2>2. CASE channel = c /\ heater_mode = HEATER_MANUAL_MODE
    <3>1. asked'[c] = duty_reg[channel]
        BY <1>0, <1>2, <2>2 DEF ReadDuty, TypeOK
    <3> QED
        BY <2>1, <2>2, <3>1 DEF Applying
  <2>3. CASE ~(channel = c /\ heater_mode = HEATER_MANUAL_MODE)
    <3>1. asked'[c] = asked[c]
        BY <1>0, <1>2, <2>3 DEF ReadDuty, TypeOK
    <3>2. ~Applying(c)'
        BY <2>1, <2>3 DEF Applying
    <3> QED
        BY <1>2, <2>1, <3>1, <3>2 DEF ReadDuty, SettingInv, drivers
  <2> QED
      BY <2>2, <2>3
<1>3. ASSUME NEW t \in Temperatures, ControlAutomatic(t) PROVE SettingInv'
  <2>1. \A o \in Channels \ {channel} :
            last_mode'[o] = last_mode[o] /\ pin'[o] = pin[o] /\ compare'[o] = compare[o]
      BY <1>0, <1>3 DEF ControlAutomatic, Reclaim, TypeOK
  <2>2. last_mode'[channel] = HEATER_AUTOMATIC_MODE /\ NextChannel /\ UNCHANGED asked
      BY <1>0, <1>3 DEF ControlAutomatic, TypeOK
  <2>3. \A c \in Channels : ~Applying(c)'
      BY <2>2 DEF NextChannel, Applying
  <2> QED
      BY <1>0, <2>1, <2>2, <2>3, OthersSettings
      DEF SettingInv, HEATER_AUTOMATIC_MODE, HEATER_MANUAL_MODE
<1>4. CASE ControlBlind
  <2>1. \A o \in Channels \ {channel} :
            last_mode'[o] = last_mode[o] /\ pin'[o] = pin[o] /\ compare'[o] = compare[o]
      BY <1>0, <1>4 DEF ControlBlind, SetGpioOff, TypeOK
  <2>2. last_mode'[channel] = HEATER_AUTOMATIC_MODE /\ NextChannel /\ UNCHANGED asked
      BY <1>0, <1>4 DEF ControlBlind, TypeOK
  <2>3. \A c \in Channels : ~Applying(c)'
      BY <2>2 DEF NextChannel, Applying
  <2> QED
      BY <1>0, <2>1, <2>2, <2>3, OthersSettings
      DEF SettingInv, HEATER_AUTOMATIC_MODE, HEATER_MANUAL_MODE
<1>5. CASE ControlManual
  <2>1. PICK c \in Channels : c = channel
      BY <1>0
  <2>2. SetPwm(c, heater_dt_cycle) /\ heater_dt_cycle \in Duty
      BY <1>0, <1>5, <2>1 DEF ControlManual, TypeOK
  <2>3. heater_dt_cycle = asked[c] /\ NextChannel /\ UNCHANGED asked
      BY <1>5, <2>1 DEF ControlManual, NextChannel, SettingInv, Applying
  <2>4. compare'[c] = Cycles(asked'[c]) /\ (pin'[c] = "gpio" <=> asked'[c] = 0)
      BY <1>0, <2>2, <2>3, SetPwmPin
  <2>5. \A o \in Channels \ {channel} :
            last_mode'[o] = last_mode[o] /\ pin'[o] = pin[o] /\ compare'[o] = compare[o]
    <3>1. \A o \in Channels \ {c} : pin'[o] = pin[o] /\ compare'[o] = compare[o]
        BY <1>0, <2>2, SetPwmPin
    <3> QED
        BY <1>0, <1>5, <2>1, <3>1 DEF ControlManual, TypeOK
  <2>6. \A d \in Channels : ~Applying(d)'
      BY <2>3 DEF NextChannel, Applying
  <2> QED
      BY <1>0, <2>1, <2>3, <2>4, <2>5, <2>6, OthersSettings DEF SettingInv
<1>6. CASE ControlInvalid
  <2>1. \A c \in Channels : ~Applying(c) /\ ~Applying(c)'
      BY <1>6 DEF ControlInvalid, NextChannel, Applying
  <2> QED
      BY <1>6, <2>1 DEF ControlInvalid, SettingInv, drivers, history
<1>7. CASE CommandMode \/ CommandDuty
    BY <1>7 DEF CommandMode, CommandDuty, SettingInv, Applying, drivers, history
<1>8. CASE UNCHANGED vars
    BY <1>8 DEF vars, SettingInv, Applying, drivers, history
<1> QED
    BY <1>1, <1>2, <1>3, <1>4, <1>5, <1>6, <1>7, <1>8 DEF Next, Task

\* Every step of the task and every telecommand keeps the invariant.
LEMMA HeaterStep == HeaterInv /\ [Next]_vars => HeaterInv'
<1> SUFFICES ASSUME HeaterInv, [Next]_vars PROVE HeaterInv'
    OBVIOUS
<1>0. TypeOK
    BY DEF HeaterInv
<1>1. CASE ReadMode
    BY <1>0, <1>1, HeaterOther
    DEF ReadMode, TypeOK, drivers, buffer, history
<1>2. CASE ReadDuty
    BY <1>0, <1>2, HeaterOther
    DEF ReadDuty, TypeOK, drivers, buffer, history
<1>3. CASE \E t \in Temperatures : ControlAutomatic(t)
    BY <1>3, HeaterAutomatic
<1>4. CASE ControlBlind
    BY <1>4, HeaterBlind
<1>5. CASE ControlManual
    BY <1>5, HeaterManual
<1>6. CASE ControlInvalid
    BY <1>0, <1>6, HeaterOther, NextChannelType
    DEF ControlInvalid, TypeOK, drivers, history
<1>7. CASE CommandMode
    BY <1>0, <1>7, HeaterOther DEF CommandMode, TypeOK, drivers, history
<1>8. CASE CommandDuty
    BY <1>0, <1>8, HeaterOther, HeaterAssumption
    DEF CommandDuty, TypeOK, drivers, history
<1>9. CASE UNCHANGED vars
    BY <1>0, <1>9, HeaterOther DEF vars, TypeOK, drivers, buffer, history
<1> QED
    BY <1>1, <1>2, <1>3, <1>4, <1>5, <1>6, <1>7, <1>8, <1>9 DEF Next, Task

-----------------------------------------------------------------------------
\* Every variable keeps its type.
THEOREM HeaterTypeCorrect == Spec => []TypeOK
<1>1. HeaterInv => TypeOK
    BY DEF HeaterInv
<1> QED
    BY <1>1, HeaterInit, HeaterStep, PTL DEF Spec

\* For all temperatures the heater follows its thermostat in automatic mode:
\* off above the upper limit, fully on below the lower one, and no manual duty
\* cycle left over.
THEOREM HeaterRegulated == Spec => []Regulated
<1>1. HeaterInv => Regulated
  <2> SUFFICES ASSUME HeaterInv, NEW c \in Channels, reading[c] # NoReading
               PROVE  Drive(c) =
                         IF reading[c] >= TEMP_LIMIT_MAXIMUM THEN 0
                         ELSE IF reading[c] <= TEMP_LIMIT_MINIMUM THEN TIMER_PERIOD
                         ELSE IF extreme[c] = "cold" THEN TIMER_PERIOD ELSE 0
      BY DEF Regulated
  <2>1. ChannelInv(c)
      BY DEF HeaterInv
  <2>2. pin[c] = "gpio" /\ (latch[c] <=> extreme[c] = "cold")
      BY <2>1 DEF ChannelInv
  <2>3. Drive(c) = IF extreme[c] = "cold" THEN TIMER_PERIOD ELSE 0
      BY <2>2 DEF Drive
  <2>4. /\ reading[c] >= TEMP_LIMIT_MAXIMUM => extreme[c] = "hot"
        /\ reading[c] <= TEMP_LIMIT_MINIMUM => extreme[c] = "cold"
      BY <2>1 DEF ChannelInv
  <2> QED
      BY <2>3, <2>4
<1> QED
    BY <1>1, HeaterInit, HeaterStep, PTL DEF Spec

\* Neither a failed sensor nor a change of mode turns a heater on.
THEOREM HeaterOnAfterCold == Spec => []OnOnlyAfterCold
<1>1. HeaterInv => OnOnlyAfterCold
    BY DEF HeaterInv, ChannelInv, OnOnlyAfterCold, Drive
<1> QED
    BY <1>1, HeaterInit, HeaterStep, PTL DEF Spec

\* A heater in manual mode is on for the share its register asked for when the
\* task last read it, for every value of the registers: the overflow of the
\* timer's 16 bits, from 205 % on, included.
THEOREM HeaterManualDuty == Spec => []ManualDuty
<1>1. HeaterInv /\ SettingInv => ManualDuty
  <2> SUFFICES ASSUME HeaterInv, SettingInv, NEW c \in Channels,
                      last_mode[c] = HEATER_MANUAL_MODE, ~Applying(c)
               PROVE  /\ asked[c] <= 100 => 100 * Drive(c) = asked[c] * TIMER_PERIOD
                      /\ asked[c] \in 101..204 => Drive(c) = TIMER_PERIOD
                      /\ asked[c] >= 205 => Drive(c) = asked[c] * 320 - 65536
      BY DEF ManualDuty
  <2>1. /\ ChannelInv(c) /\ asked[c] \in Duty /\ pin[c] \in {"gpio", "pwm"}
        /\ compare[c] = Cycles(asked[c]) /\ (pin[c] = "gpio" <=> asked[c] = 0)
      BY DEF HeaterInv, SettingInv, TypeOK
  <2>2. CASE asked[c] = 0
    <3>1. pin[c] = "gpio" /\ ~latch[c]
        BY <2>1, <2>2 DEF ChannelInv
    <3> QED
        BY <2>2, <3>1 DEF Drive, TIMER_PERIOD
  <2>3. CASE asked[c] # 0
    <3>1. Drive(c) = IF compare[c] > TIMER_PERIOD THEN TIMER_PERIOD ELSE compare[c]
        BY <2>1, <2>3 DEF Drive
    <3>2. /\ asked[c] <= 204 => compare[c] = 320 * asked[c]
          /\ asked[c] >= 205 => compare[c] = 320 * asked[c] - 65536
        BY <2>1, CyclesValue
    <3> QED
        BY <2>1, <2>3, <3>1, <3>2 DEF TIMER_PERIOD, Duty
  <2> QED
      BY <2>2, <2>3
<1>2. HeaterInv /\ SettingInv /\ [Next]_vars => (HeaterInv /\ SettingInv)'
    BY HeaterStep, SettingStep
<1> QED
    BY <1>1, <1>2, HeaterInit, PTL DEF Spec
=============================================================================
