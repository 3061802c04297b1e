# A TLA+ verification of the EPS 2.0 firmware

EPS 2.0 is the electrical power system of a CubeSat: an MSP430 under FreeRTOS
that reads sensors, runs three maximum-power-point loops and two heaters, and
serves a table of registers to two other computers, the OBDH over I2C and the
TTC over UART.  This directory models the parts of `firmware/` in which
interrupts, tasks of different priorities and telecommands meet, checks them
with TLC on small instances and proves what matters most for every instance
with TLAPS.

## 1. The system: inventory

| part | code (under `firmware/`) | state | operations | what is hard | what makes it correct |
|---|---|---|---|---|---|
| parameter buffer | `app/structs/eps2_data.c` | `eps_data_buff` | `eps_buffer_write`, `eps_buffer_read`, called by every task with no lock | 32-bit stores are two instructions; field widths | an answer is a value the register had |
| parameter server | `app/tasks/param_server.c`, `devices/obdh`, `devices/ttc` | the task notification, locals | wait, decode, execute, answer | two links, one notification; buffers shared with the interrupts | a request is executed exactly once, and answered with a fresh value |
| I2C slave | `drivers/i2c_slave` | receive and transmit buffers, sizes, indices, status | `USCI_B2_ISR`, `i2c_slave_read`, `i2c_slave_write` | the handler between any two stores of the task; an 8-bit CRC | no byte of a command is out of its place; a fresh answer is not spoilt by an old one |
| UART receiver | `drivers/uart_interrupt` | receive buffer, size, index | `USCI_A0_ISR`, `uart_interrupt_read` | framing by the first byte, two bytes late | indices stay in the buffer; the other link is not held up |
| MPPT | `app/tasks/mppt_algorithm.c`, `devices/mppt` | one `mppt_config`, previous values per channel | automatic and manual control of three channels | one duty cycle for three loops | a loop that is alone finds the maximum power point; no duty cycle above the maximum but by telecommand; a manual setting is applied |
| heaters | `app/tasks/heater_controller.c`, `devices/heater` | last mode, thermostat status, pins, timers | automatic (thermostat on a GPIO) and manual (PWM) on the same pin | hand-over of the pin between two drivers; registers change between two reads; 16 bits of cycles | the heater does what the mode asks, with the share the register asked for; it is never on without a cold reading |
| ADC | `drivers/adc`, `devices/current_sensor`, `devices/voltage_sensor` | mutex, converter, flags | take, poll, convert, poll, give | timeouts whose result is ignored | readers exclude each other; a read returns its own result; the mutex comes free |
| RTDs | `drivers/ads1248`, `devices/temp_sensor` | the converter's channel registers and last result | wake, select, convert, sleep, wait 50 ms, collect | two tasks, no lock | a read returns its channel |
| startup | `app/tasks/startup.c`, `tasks.c` | event group | initialise everything, then release the tasks | tasks stop waiting after 1 to 2 s | no task runs on what is not initialised |
| sensor task | `app/tasks/read_sensors.c` | none | one sensor after the other into the buffer | runs between all the others | registers hold what was measured |
| time control | `app/tasks/time_control.c`, `system/system.c` | the epoch | count | the calls that save it are commented out | the time survives a reset |
| log | `system/sys_log` | mutex, level | a line is begun and ended by two calls | the mutex crosses calls and its take may time out | lines are not mixed, the mutex comes free |
| kernel mutex | `freertos/queue.c`, `freertos/tasks.c` | holder, waiting and delayed tasks, priorities, time | take with a timeout, give, inherit, disinherit, tick, switch | ticks and switches between the critical sections of a take | one holder; no priority inversion; no priority kept for nothing; the highest runs; every take ends |
| battery manager and monitor | `devices/bat_manager`, `devices/battery_monitor`, `drivers/ds277Xg`, `drivers/onewire` | the gauge's registers, RAM and EEPROM | configure at boot, read | failure or reset half-way | success means configured, and kept over a loss of power |
| watchdog and restart | `app/tasks/watchdog_reset.c`, `app/tasks/system_reset.c`, `drivers/wdt` | the counter of the watchdog, wake times | reset the watchdog, delay, restart | the task has the lowest priority; polls without a timeout; a period of ten hours in 32 bits | only a hang is bitten, every hang soon; a restart after each period |
| media, LEDs, bus drivers | `devices/media`, `devices/leds`, `drivers/*` | none or hardware | one transfer per call | - | - |
| libcsp, HAL, the rest of FreeRTOS | vendored | | | | |

How they interact: the interrupt handlers set bits in the notification of the
server and share their buffers with it; every task reads and writes the
parameter buffer; telecommands therefore reach the MPPT and the heaters as
registers that change between two reads; ReadSensors, the MPPT task and the
heater controller share the ADC and the RTD converter; all of them print lines
on the log.  Priorities: Startup 5, which `configMAX_PRIORITIES` makes 4,
parameter server 4, MPPT, heaters and time control 3, ReadSensors and the
periodic reset 2, heartbeat and watchdog 1.

`PROJECT.json` lists every component with what is modelled of it, and under
"hazards" what is hard to test in this code, each at its line with the
properties that cover it, or the reason why none does yet.

## 2. The modules

| module | models | checked with | proofs |
|---|---|---|---|
| `EpsData` | the parameter buffer: widths, initial contents, crossed version fields | through `ParamServer` | through `ParamServer_proofs` |
| `Frames` | frames, CRC, `obdh_decode`, `ttc_decode` | through `ParamServer` | through `ParamServer_proofs` |
| `I2CSlave` | the I2C slave driver and its handler | through `ParamServer` | through `ParamServer_proofs` |
| `UartInterrupt` | the UART receiver and its handler | through `ParamServer` | through `ParamServer_proofs` |
| `ParamServer` | the composition: server task, both links with their masters, ReadSensors | `MCParamServer` | `ParamServer_proofs` |
| `RegisterService` | the abstract specification: atomic requests on a register table | implemented by `ParamServer` | - |
| `Mppt` | MPPT task and device | `MCMppt` | `Mppt_proofs` |
| `Heater` | heater task, devices, pins | `MCHeater` | `Heater_proofs` |
| `Adc` | readers, mutex, converter, time | `MCAdc` | `Adc_proofs` |
| `Rtd` | readers of RTDs and their converter | `MCRtd` | `Rtd_proofs` |
| `KernelMutex` | a FreeRTOS mutex with the scheduler it needs | through `SysLog` | `KernelMutex_proofs` |
| `MutexService` | the abstract specification: ask, be granted or refused, give | implemented by `KernelMutex` and `Adc` | `KernelMutex_proofs`, `Adc_proofs` |
| `SysLog` | tasks that print lines on the log under that mutex | `MCSysLog` | `KernelMutex_proofs` |
| `BatteryMonitor` | the initialisation of the fuel gauge over failures, resets, losses of power | itself | `BatteryMonitor_proofs` |
| `Lifetime` | from reset to reset: the watchdog, the periodic restart, the delays of the kernel, hangs | `MCLifetime` | `Lifetime_proofs` |

### ParamServer

The grain is one step per access to something shared with an interrupt.
`Wake` is the return of `xTaskNotifyWait` with its clearing of all bits;
`CallCopy`, `CopyByte`, `FetchSize` are `i2c_slave_read` (the size is read by the
call of `memcpy`, then each byte, then the size again); `RejectCommand`,
`ExecuteWrite`, `ExecuteRead` are the decoding and the switch of
`vTaskParamServer`, on locals and on the buffer only; `StoreReplyByte`,
`StoreReplySize`, `ResetReplyIndex` are `i2c_slave_write`.  The interrupt
handlers are single steps (`IsrReceive`, `IsrTransmit`, `IsrStop`, `IsrByte`),
possible at any time.  ReadSensors runs only while the server waits, as its
priority demands, but is preempted between the two words of a 32-bit store.
While the server waits for the mutex of the log, in the one line it prints between
two steps, ReadSensors may run too; that changes which of its stores comes between
which two transactions only, and is left out.  The timeout of `xTaskNotifyWait`
only logs, and is left out, as is the answer on the UART, which touches no shared
state.

The OBDH and the TTC are not in the repository.  They are modelled from how the
handlers use them: any request of a set, frames cut short, bytes between frames,
reads of any length.  `ObdhPatient` distinguishes an OBDH that leaves the server
time to finish from one that does not.  A byte is a number, and the CRC is the
one of the code, with the initial value 0 and the polynomial 7: it is linear and has
8 bits, so that bytes of two frames put together may fit it, and the CRC of zeros
is zero.  `Crc` and `TtcCrc` compute it by a table of the rounds of the loop
(`CrcTable`), which TLC evaluates once.

### Mppt, Heater, Adc, Rtd

`Mppt`: the task serves the channels in turn; the read of the mode is one step,
the control another, so that a telecommand comes between.  The panels are an
operator `Power(light, channel, duty)`, empty when a sensor fails.  `output` is
what each PWM was last given.

`Heater`: the reads of the two registers and the control are three steps.  A pin
follows its output latch or its timer (`pin`), as the last call of the GPIO or
PWM driver selected.  `compare` is the compare register of the timer, 16 bits of cycles:
`Cycles` computes it from the duty cycle as `pwm_init` does, and a duty cycle of 205
or more overflows it (the conversion of a number that is too large is taken modulo
2^16, as that through a longer integer gives it).  `Drive` is the resulting number
of cycles on in each period.  `reading`, `extreme` and `asked` are history variables.

`Adc`: a reader takes, polls, converts, polls and gives, whatever the take
returned; time passes in ticks, and only when all tasks wait; the slowest
conversion (`slowest`) is chosen at the start of a behaviour.  The mutex is that
of FreeRTOS with the assertion of `xTaskPriorityDisinherit`.

`Rtd`: one step per SPI transfer.  A task runs only while those of higher
priority are blocked.  The ADS1248 is external: asleep it ignores the commands
that configure it, and a conversion is of the channel selected when it ends.

### KernelMutex, MutexService, SysLog

`KernelMutex` is `xQueueSemaphoreTake`, `xQueueGenericSend` without block time,
`vTaskDelay` and `xTaskIncrementTick`, cut at their critical sections: a take is
`Call`, then `TryTake` (the first critical section of its loop), `CheckTimeOut`
(the section with the scheduler suspended, in which the task may inherit its
priority to the holder and go to the waiting list), and after the timeout
`Expire` with `Disinherit`, or `LastTry`.  Only the current task steps, a `Tick`
may come between any two steps, and a step that makes the kernel call for a
switch chooses among the ready tasks of the highest priority (`SwitchContext`).
`xTaskPriorityInherit`, `xTaskPriorityDisinherit` and
`vTaskPriorityDisinheritAfterTimeout` are `RaiseHolder`, `GiveOwn` and
`Disinherit`.  The tasks of the firmware hold at most one mutex at a time, so
that `uxMutexesHeld` follows from the holder.  A failed `configASSERT` disables
the interrupts and loops: `halted`.

`MutexService` is what the callers believe of a mutex: a take that succeeds
found it free, one that is refused found it held by another, only a give frees it.
Its refinement mapping is `Status`, where a task is between call and return.
`KernelMutex` implements it in the detail of the kernel, `Adc` in the detail of
its readers; so what `Adc` assumes of the mutex is what the kernel gives.

`SysLog` adds the log: `PrintText` is the text a task sends between two switches,
`GiveLine` the give in `sys_log_new_line`.  A task prints, and gives, whether or
not it got the mutex, as the code does.  The level test of `sys_log.c` is always
true in this configuration and left out.

### BatteryMonitor

`ds277Xg_init` as it runs at every boot: `Enable` for the two bits of the
protection register, `Check` for each parameter register in turn, `Copy` for the
copy to the EEPROM.  Each transfer may fail, with or without effect.  `Reset` is
a restart of the processor at any moment, `PowerLoss` one of the gauge too, which
then loads its EEPROM.  Of a register only whether its value is the right one
matters.  The gauge itself is external.

### Lifetime

The two tasks step by step: `ReadTick`, `Kick` and `DelayUntil` are the round of
`vTaskWatchdogReset`, `AwaitRestart` and `Restart` that of `vTaskSystemReset`,
`IncrementTick` wakes them.  `pdMS_TO_TICKS` is modelled with its product modulo
2^32.  All other tasks are the load, work of some priority that comes and goes
between any two steps (`SetLoad`); as long as no task hangs, work above the
watchdog's task lasts no longer at a time than `longest`, chosen at the start.
`Hang` is a task of some priority in a loop that waits for a peripheral (the SPI,
I2C, UART and clock drivers have such loops), or the loop of a failed
`configASSERT`, which with the interrupts disabled stops the kernel's time, and
which is what a halt of `Adc` or `KernelMutex` becomes here.  `Elapse` is a tick
of time for the watchdog and, unless it is stopped, the kernel.  `Reset`, by the
watchdog or the restart, is the initial state of the other modules.

## 3. The runs

| run | bounds | shows |
|---|---|---|
| `patient` | 2 OBDH requests of 5 (a value too wide, zeros, a 32-bit and an 8-bit register, an unknown one), 2 reads, 1 sensor write; or (`TtcBeside`) 1 OBDH request of 2, 2 TTC frames of 2 (a write with a byte that looks like the first of a frame, a read) and 2 bytes between frames | exactly-once, the request within 20 steps of the server, only whole requests write, freshness, liveness, refinement of `RegisterService`, indices on both links |
| `hasty` | 2 requests of 5 (two writes of one register that the CRC-8 lets be mixed, reads of it, of register 0 and of an unknown one) and 1 read at any moment, 1 sensor write | every byte of a command is where it was sent; a register no telecommand can address stays whole |
| `mppt` | 2 telecommands of a mode or a setting (the maximum, or more), 1 change of light (another maximum, or a failed sensor), a maximum of 4 | outputs bounded by the maximum and the settings, manual settings; a channel alone tracks, or stands at 0; each of its runs goes the right way |
| `heater` | temperatures 200, 250, 305; duty cycles 0, 50, 255; unbounded telecommands | pins, thermostat, the share of the time in manual mode |
| `adc` | 2 tasks, 2 ports, 2 reads in a row, timeouts of 3 ticks, conversions of at most 1 or 5 ticks | exclusion and own results with a prompt converter; bounded waits and refinement of `MutexService` with any |
| `rtd_alone` | 2 tasks, 2 channels, a wait of 2 ticks, a conversion of at most 1 | a read alone is right |
| `log` | 3 tasks of priorities 2, 3, 3, a wait of 2 ticks, delays of 1 tick, any number of lines | one holder, inheritance exact, the highest runs always, takes end, lines whole, refinement of `MutexService` |
| `lifetime` | periods of 2 and 15 ticks, a watchdog of 6, work of at most 3 or 5 ticks of priorities 2 and 3, hangs of priorities 2 and 3 or with the interrupts disabled; any number of resets | only a hang is bitten, and soon; a restart comes when its delay is over |
| `gauge` | 6 parameter registers, as in the code; any number of failures, resets and losses of power | success means configured and kept; the EEPROM is written whole |

Why these bounds are enough: two requests are the least in which an answer can
be stale, a command a mixture, or a notification coalesce, and a third one finds
the server in a state already reached, since each iteration clears its locals.  The
constraint `TtcBeside` keeps apart what need not come together to go wrong on the
link of the OBDH: the TTC on one side, collected answers and stores of the sensors on
the other.  It limits the environment only, never a step of the server, so that
nothing is lost to the fairness, and the theorems do without it.
Two telecommands put two of the three channels in any two modes, or leave one
alone.  Seven duty cycles hold a maximum inside, one on the limit, and the ripple
of one step.  The thermostat distinguishes three ranges of temperatures.  The
timeouts of the ADC are equal in the code and so in the model, and the
conversions of a behaviour are well below them or above.  Three tasks are the
least in which one waits, one holds and one comes in between; two of equal
priority above the third, as the MPPT task and the heater controller are, take
turns within a take; a wait of two ticks may be interrupted and resumed once.  The
number of tasks, their priorities and the waits are arbitrary in the proofs.  In `lifetime`
work of 3 ticks leaves the task of the watchdog its time (`Prompt`), work of 5
does not, and one restart period holds two intervals of the watchdog; the code
has 100, 1000 and 1640261 ticks, and is the instance of `lifetime_firmware`.

`CHECK_DEADLOCK FALSE` stands where the environment runs out of its bounded
requests (ParamServer), and in `log`, where a failed
assertion of the kernel stops everything; the other systems never stop, the failed
assertion of `Adc` loops.

### Where the code and its documentation disagree

Each of these runs checks one sentence of the documentation and ends in a
counterexample; the entry under "findings" quotes it.

| run | disagreement |
|---|---|
| `ttc_read` | no TTC read is executed: reported size 4, expected 3 (`uart_interrupt.c:316`) |
| `rtd_shared` | two readers of RTDs exchange their channels (`ads1248.c:240`) |
| `lifetime_firmware` | the system restarts every 27 minutes and not every 10 hours (`system_reset.c:47`) |

What else was met while modelling, without a run of its own:

- A TTC command that is notified together with one of the OBDH is dropped: both
  bits are cleared and the UART bit is tested in the `else` (`param_server.c:110`),
  although `doc/chapters/firmware.tex:168` has the server process the commands of
  both.  `patient` has such notifications; `ExactlyOnce` and `ServedSoon` say that
  the request of the OBDH comes to no harm.
- A telecommand sets a PWM above the "maximum duty cycle allowed" of `mppt.h:58`,
  since `mppt_set_duty_cycle` stores any value of the 8-bit register
  (`mppt.c:268`): `OutputBounded` says how far the outputs go, and the other
  channels do not add to it.
- `heater_control` is called with 0, and with more than the 100 of its description
  (`heater_controller.c:67`), since the task passes the register as it is.
- The path of `xQueueGenericSend` that "will only get executed if the task was
  holding multiple mutexes" (`queue.c:861`) is taken by the holder of one, too: when
  the wait of the only waiter has ended and the holder gives before that task has
  taken its inheritance back.
- A comment of the kernel says that an expired wait cannot have caused an
  inheritance where the assertion of `queue.c:1505` stands.  It can: ReadSensors
  prints a line, the heater controller waits for it and gives it its priority,
  the wait expires just as the line ends, and the MPPT task, of the same priority,
  begins a line before the heater controller makes its last attempt.  This is
  `LastTry` with `halted' = "inheritance"`.  The window is a few instructions
  after a wait of 100 ms, and only errors are logged by these tasks.
  `InheritanceAssertion` proves that it takes three such tasks: the two users of
  the ADC cannot get there.
- The version registers are crossed (`eps2_data.c:190-195`): Startup overwrites
  the firmware version with the hardware version, and register 42 returns the
  other field.
- The three MPPT channels share one duty cycle (`mppt.c:41`), each undoes the
  steps of the others, and only a channel that runs alone tracks.
- The giver of a mutex falls back to its own priority, and yields only if there
  is no waiter, or the one it wakes is above it (`queue.c:844-867`).  A task of
  higher priority whose wait has just timed out then stays ready, behind the
  giver, until the next thing that calls for a switch.  It needs two users at or
  below the giver's own priority and a third above, whose wait raised the giver
  and ended while the giver was blocked with the mutex in its hands.
  `TopRuns` says that nothing else leaves a ready task above the running one.  In
  the log nobody blocks within a line, so that the task above runs as soon as its
  wait has ended and takes its inheritance back before the give:
  `Top`, without any exception, is checked in `log`.  The ADC's holders block, but
  are two.
- A failure or a reset of the processor between the first register written to
  the fuel gauge and the copy leaves the EEPROM as it was, and the next boot,
  which finds every register right, copies nothing and reports success
  (`ds277Xg.c:142`): `CopyKept` therefore speaks of power-ups without such an
  interruption.  The loss of power heals it, at the price of one more boot with
  the wrong values.
- The period of the restart, 36000000 ms, is multiplied by the 1000 ticks of a
  second in 32 bits (`projdefs.h:41`): 36000000000 modulo 2^32 is 1640261376, so
  that `vTaskDelay` is called with 1640261 ticks.  This is why `RestartsWhenDue`
  speaks of the ticks of the delay and `RestartsEveryPeriod` of the period.
- A heater set to 255 by telecommand gets 16064 of 32000 cycles, about the default
  50 %; from 101 to 204 it is always on (`pwm.c:67`).  `ManualDuty` states all three
  ranges.
- The time is neither saved nor loaded: the calls are commented out
  (`time_control.c`), while `doc/chapters/firmware.tex:178` says that it is saved
  every minute.
- A TTC write waits for two further bytes: the handler compares the index before
  its increment, with `>` (`uart_interrupt.c:306`).
- The CRC-8 is linear: of the frames `12 01 07 00 01` and `12 00 00 00 02` the CRC
  is the same after three bytes, so that `12 01 07 00 02` with the CRC of the second
  is a valid write which the OBDH never sent (`obdh.c:155`).  An OBDH that begins
  a second write before the server has copied the first may cause it, and the same
  holds for the TTC and for answers read too early; `hasty` has such frames, and
  `PiecesSent` says what is left: no byte is out of its place.
- The CRC of zeros is zero, so that an all-zero buffer, such as a frame cut short
  may leave, is a valid command on register 0 (`obdh.c:157`).  `Unaddressed` makes
  the exception explicit; with an OBDH that waits it is never a write
  (`OnlyRequestsWrite`).
- After its first six bytes an answer goes on to be transmitted from wherever the
  handler, which is one byte ahead of the bus, left the index
  (`i2c_slave.c:256-260`): an OBDH that reads the same answer a second time does
  not get it from its first byte.  `AnswerFresh` speaks of the first time.
- A read of a register that does not exist leaves the last answer in the transmit
  buffer (`param_server.c:84-99`), where the OBDH finds it.
- Before the first answer the transmit index runs past the end of its array, up to
  its 8 bits (`i2c_slave.c:260`); `TypeOK` bounds the other indices by their
  buffers, and this one by its width.
- The server may answer with one half of an old and one of a new time count
  (`eps2_data.c:68`).  `AnswerFresh` counts such a mixture among the values the
  register held, as it did.
- At the duty cycle 0 with the previous one 0 `mppt_algorithm` decreases whatever
  the power (`mppt.c:124-156`): the second disjunct of `TracksOrStops`.
- Readers of the ADC ignore that `adc_mutex_take` timed out.  With a conversion
  longer than the 100 ms of the timeout one gives the mutex of another, which
  fails an assertion of the kernel (`adc_mutex.c:90`), or returns the late result
  of an earlier read (`adc.c:248`).  A sound converter has no such conversion;
  `Prompt`, in the properties of `Adc`, is the condition.

## 4. Fairness

`ParamServer!FairSpec` has weak fairness of the server's steps only: it is the
task of the highest priority once Startup has ended.  The one thing it may block
on is the mutex of the log, for a line it prints, and that wait ends after
`SYS_LOG_MUTEX_WAIT_TIME_MS` whether or not the mutex came (`WaitsEnd`).  The
masters are never obliged to do anything.  `Mppt!FairSpec` has weak fairness of the
task: it is released every 300 ms, and the only task above it,
the server, is short.  Telecommands and light change a bounded number of times,
and the liveness properties speak of what holds from some time on.
`SysLog!LogFairness`: the timer ticks (weak); a task that a tick may switch to
again and again is switched to (strong), since the ready tasks of a priority are
served round robin (`listGET_OWNER_OF_NEXT_ENTRY`) and a tick asks for a switch
while there are two; and a task that runs again and again goes on with its take
(strong), since ticks only interrupt it.  Nobody is obliged to end a line, to
give, or to delay.  The other modules state no liveness.

## 5. The proofs

Assumptions are those named in the modules (`ParamsAssumption`,
`ConstantsAssumption`, `MpptAssumption`, `HeaterAssumption`, `AdcAssumption`,
`NamesAssumption`, `RtdAssumption`, `KernelAssumption`, `RegistersAssumption`,
`LifetimeAssumption`, `PeriodsAssumption`);
TLC evaluates each of them.

- Lemmas on frames: that the CRC and the bytes of frames are bytes, what these are,
  that putting the bytes of a word together gives the word, and that the bytes of
  what a buffer decodes to are those of the buffer (`DecodedPieces`).
- `TypeCorrect` (`ParamServer`): inductive with `ttc.pos < TtcSize(ttc.req)`, which
  bounds the index of the TTC's frame.  It contains that the receive indices and
  the index of the `memcpy` stay in their buffers; the index of the UART handler
  needs the three kinds of first byte.
- `CommandPieces`: `PiecesSent` speaks of the last command and is not inductive:
  `PiecesInv` adds that each byte of the receive buffer, and of the decoder's copy,
  is zero or of its place in a frame the OBDH began to send.  Bytes are copied one by
  one while the handler overwrites them, but the handler writes where the OBDH is
  in its frame, as the index is set back by each stop condition, and the copy keeps
  their places.  Nothing is assumed of the CRC.
- `RequestsServedOnce`, if the OBDH leaves the server its time (`ObdhPatient`):
  from `LinkInv` (while the OBDH sends or reads, the server has nothing of it to
  do, and what it has sent of its request is in the receive buffer) and
  `DeliveryInv`, which follows a whole request from the notification through the
  copy to its execution.  The TTC may be served in between and steal the
  processor, but not the notification.
- `AnswersAreFresh`, with the same premise: from `FreshInv`.  The OBDH may leave an
  answer half read, so that the index stands anywhere in the six bytes; the server
  sets it back with the next answer, and `Holds`, `Composing` and `Answered` follow
  that answer from its composition through the buffer to the bytes the OBDH takes,
  which are then those of one answer from the first on (`Taken`).  Nothing is
  assumed of the CRC.
- `RequestsServedSoon`, with the same premise: `Remaining` is the number of steps
  the server still takes until it executes the request that is awaited, at most
  the 20 of a long command of the TTC before a write of the OBDH.  Each step of
  the server lowers it, by `StepsLeftServer` and `RemainingServer`, and nobody
  else's raises it (`RemainingOthers`), from `DeliveryInv` and `TtcServed`, that
  what the TTC has copied is no longer than its longest command.  With it
  `EventuallyServed` needs no more than that the server goes on.
- `OnlyWholeRequestsWrite`, with the same premise: from `CutInv`, that the server
  sees of a request cut short the size it was cut to, which is not that of the
  whole.  A write cut to two bytes may decode, its CRC being that of zeros, but
  as a read: a write is decoded from six bytes.
- `RegistersWhole`, without any premise: `HalfStored` says what the register holds
  between the two stores.  It speaks of registers that no byte which may come to be
  an address names (`Unaddressed`): the address of a command of the OBDH is that of
  a frame it sent, or zero, by `PiecesInv`; that of a command of the TTC is any byte
  it sent (`TtcBytesInv`), since its handler does not know where a frame begins.  On
  another register a command between the two stores leaves the half of it that is
  not stored after it, and that mixture stays.
- `NoTtcRead`: the size the decoder is given on the UART is 0, 4 or 7, and it takes
  a read of 3.  So the finding of `ttc_read` is no accident of its instance.
- `ServerImplementsService`: from these, each step of the server, the handlers, the
  links and `ReadSensors` is one of `RegisterService` or leaves it unchanged.
- `DutyCycleBounded`: from `BoundInv`, that the shared duty cycle and the duty cycle
  registers are within `Bound` too, the maximum or the highest value a telecommand
  wrote so far.
- `CourseHeld`, for panels that have one maximum power point in every light
  (`OneMaximum`, as those of `MCMppt`): the safety half of `TracksOrStops`.
  `Steady` is a channel that is alone and has the duty cycle of the
  configuration, `OnCourse` one whose previous values are of the same light, one
  step away.  `PerturbedClimbs` is the step of `mppt_algorithm` on such values:
  it goes towards the maximum, or to one of its neighbours from it, unless the
  channel has stopped at 0.
- `ManualKept`: the safety half of `ManualApplied`.  The task may have another mode
  of the channel in hand when the register changes to manual; `Manual` excludes
  that, and lasts.
- `HeaterRegulated`, `HeaterOnAfterCold`, `HeaterManualDuty`: from `HeaterInv`,
  which relates for each channel the device in charge, the pin, the latch, the
  compare register, the status of the thermostat and the history.  The status
  survives a period in manual mode while the latch does not; that is why `Regulated`
  is not inductive.
- `AdcTypeCorrect`, `MutexHeldByReader` (`HeldByReader` follows from
  `ImplementsMutex`, and is not checked again): each by induction, the second on the
  first; only `Take` makes a task the holder, and only `Give` leaves the read.
- `AdcImplementsMutex`: from the two, each step of `Adc` is a step of
  `MutexService` or leaves it unchanged; a refusal finds another at the ADC.
- `ReadersExclusive`, `ReadsOwnResult`, `AssertionsHold` (`NeverHalts` follows from
  `Exclusive`): for two readers whose
  timeout at the mutex is no longer than the one at the ADC (`TwoReaders`, as in
  the code), any ports, and any converter that is `Prompt`.  Exclusion rests on
  time here, since no reader heeds a timeout: `ExclusionInv` says that the reader
  is the holder, that the conversion under way or just ended is its own, and that
  a task has waited for the mutex no longer than the other has had it since it
  last slept (`WaitCovered`, with the account `Spent`).  The account is at most
  the reads of a period times the slowest conversion, less than the timeout.
- `RtdTypeCorrect`, `AloneReadsOwnChannel`: from `RtdInv`, which says where a read
  that has been alone so far has brought the converter: awake, the registers
  written so far on its channel, its own conversion under way or the last one,
  and that conversion no younger than the wait.  A step of another task makes
  the claim void, and a conversion is shorter than the delay (`RtdAssumption`).
- `KernelTypeCorrect`, `MutexImplemented`: each step of `KernelMutex` is a step
  of `MutexService` or leaves it unchanged, given `Coherent`: the holder is
  exactly the task that is in, and tasks that are not ready are where tasks wait.
- `NoInversion`, `NoLostBoost`: from `BoostInv`, which adds to the two that no
  task is below its base priority, that a waiting task has noted its
  inheritance if the holder is below it by its base, and that while the mutex is
  free the running task is above those that still wait, since the one that was
  woken is ready.  The hard
  step is `Disinherit`: the holder's new priority is that of the others who
  still wait, so none is left behind it and no more is kept.
- `NoLostWakeUp`: a conjunct of `BoostInv`.
- `HighestRuns`: a step keeps the highest running, given `BoostInv`.  A switch brings
  the highest; between switches only a tick, a wait and a give could put a ready task
  above the one that runs, and each of them asks for a switch, but for the give
  `GiveBelow` names.
- `InheritanceAssertion`: from `LastInv`.  A task that has noted an inheritance is
  above another (`Inheritors`), and while a task is in its last attempt, for
  which it found the mutex free, none below it runs or takes it
  (`LastAttempts`).
- `WaitsEnd`: what of `TopServed` is safety.  `WaitsTimed` says that a waiting task
  has time left, `TimeRunsDown` that ticks use it up and nothing renews it.
- `LogTypeCorrect`, `LinesNotMixed`: `SysLog` refines `KernelMutex`, and
  `LineOpen` says that while a task holds the mutex within a line, no piece of
  another holder is in it.
- `GaugeTypeCorrect`, `OkIsConfigured`, `OkIsKept`, `EepromWrittenWhole`: from
  `GaugeInv`, how far an initialisation has come (`Configured`) and that since
  power-up RAM and EEPROM differ only by writes the flag tells of (`CopyDue`).
- `LifetimeTypeCorrect`, `OnlyHangsBite`, `HangsEnd`: from `DogWatched`, an
  account of the watchdog's ticks by the place of its task: asleep, what is
  counted and what is left of the delay are at most the period; awake, the rest
  is the time others have had the processor.  `HangSeen` says that a hang is no
  older than the count, as no task can reset the watchdog during it.
- `RestartWhenDue`: from `RestartDue`, how late the delay may begin and end.  A hang
  of the task's own priority lets it run and one above does not, and one with the
  interrupts disabled stops its clock: `Uptime` counts what that hides.  It holds of
  any period and rate, since it speaks of the ticks that `pdMS_TO_TICKS` gives.

Only model-checked: liveness (`EventuallyServed`, `ManualApplied`,
`TracksOrStops`, `TopServed`), which is out of the prover's reach and stays with
TLC, and `Top`, which needs that no holder in the log blocks.  What is safety in
each of the liveness properties is proved: `RequestsServedSoon`, `ManualKept`,
`CourseHeld`, `WaitsEnd` with `NoLostWakeUp`; what is left to TLC is
that, with the fairness of section 4, these steps are taken.  `ManualKept`,
`NoTtcRead`, `NoLostWakeUp`, `HighestRuns`, `InheritanceAssertion`, `WaitsEnd`,
`MutexHeldByReader`,
`AssertionsHold`, `HeaterTypeCorrect`, `LifetimeTypeCorrect` and `KernelTypeCorrect`
are proved and not
the subject of a run.

## 6. Not modelled, and why

Hardware set-up, conversions of units, text of log messages, and everything
without state of its own; vendored code; the PID algorithm and other functions
nothing calls.  An I2C transaction with a repeated start is
not among those of the OBDH: the handler would never notify it.  The start-up
race (tasks stop waiting for Startup after 1 to 2 s) depends on how long the
initialisations take, of which the
code says nothing; a model would allow every order and show only that.  Time
control has lost the calls that made it worth a model.  The overflow of the
kernel's tick count, after 49 days, is beyond any uptime between restarts, and
left out of `Lifetime`.  A task of priority 1 that hangs is not among its hangs:
it takes turns with the task of the watchdog, which goes on, so that nothing
ends that hang.  Most of FreeRTOS, and
all of the HAL and of libcsp, is code that no task of the firmware reaches, or
register access without state of its own.

## 7. Plan

What would come next:

1. `ReadSensors` as a sequence, with its 16-bit buffer read as 32 bits, and its
   composition with `Adc` and `Rtd`, and of `Adc` with `KernelMutex`.
2. The repeated start of I2C in `ParamServer`.
