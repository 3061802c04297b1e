--------------------------------- MODULE Rtd ---------------------------------
(***************************************************************************)
(* Reading an RTD through the ADS1248 (drivers/ads1248/ads1248.c), as      *)
(* temp_rtd_read_raw does (devices/temp_sensor/temp_sensor.c): wake the    *)
(* converter, select the channel in two registers, start a conversion, put *)
(* the converter to sleep, wait, collect.                                  *)
(*                                                                         *)
(* Two tasks do so, ReadSensors and the heater controller, and nothing     *)
(* keeps them apart.  A task runs only while those of higher priority are  *)
(* blocked; it is blocked between two reads and in ads1248_delay.  One     *)
(* transfer on the SPI bus is one step.  Time passes in ticks, when every  *)
(* task is blocked.                                                        *)
(*                                                                         *)
(* The converter is not part of the repository.  Asleep it takes no        *)
(* command but the wake-up and the collection of the last result           *)
(* (drivers/ads1248/ads1248.h); a conversion is of the channel the         *)
(* registers select when it ends.                                          *)
(***************************************************************************)
EXTENDS Integers

CONSTANTS
    Tasks,
    Priority,           \* a number per task
    Channels,
    ConversionDelay,    \* the ticks of ads1248_delay(50)
    SlowestConversion   \* the ticks a conversion may take

None == "none"

ASSUME RtdAssumption ==
    /\ Priority \in [Tasks -> Nat]
    /\ ConversionDelay \in Nat \ {0}
    /\ SlowestConversion \in 0..ConversionDelay - 1

Places == {"idle", "mux", "idac", "sync", "sleep", "wait"}

VARIABLES
    pc,         \* where each task is in its read
    channel,    \* the channel it reads
    timer,      \* the ticks it has waited
    result,     \* what its last read returned: "own" is the value of its
                \* channel, of a conversion begun during the read
    alone,      \* history: no other task had a step in its read
    mux, idac,  \* the registers of the converter
    asleep,
    converting, \* whether a conversion is under way, for how long, and the
    age,        \* tasks that were reading when it began
    readers,
    last        \* the same of the last one that ended, and its channels

taskVars == <<pc, channel, timer, result, alone>>
device   == <<mux, idac, asleep, converting, age, readers, last>>
vars     == <<taskVars, device>>

\* ads1248_init: both registers at some channel, then SLEEP.
Init ==
    /\ pc = [t \in Tasks |-> "idle"]
    /\ channel \in [Tasks -> Channels]
    /\ timer = [t \in Tasks |-> 0]
    /\ result = [t \in Tasks |-> None]
    /\ alone = [t \in Tasks |-> TRUE]
    /\ mux \in Channels /\ idac \in Channels
    /\ asleep = TRUE /\ converting = FALSE /\ age = 0 /\ readers = {}
    /\ last = [mux |-> mux, idac |-> idac, readers |-> {}]

-----------------------------------------------------------------------------
(* The converter.                                                          *)

\* It does not take the commands that configure it.
Deaf == asleep /\ ~converting

Convert ==
    /\ converting
    /\ converting' = FALSE /\ age' = 0
    /\ last' = [mux |-> mux, idac |-> idac, readers |-> readers]
    /\ UNCHANGED <<taskVars, mux, idac, asleep, readers>>

-----------------------------------------------------------------------------
(* The tasks.                                                              *)

\* Mutant: ads1248_delay never returns.
BugBlocked(t) == pc[t] \in {"idle", "wait"}

\* Waiting for its next read, or in ads1248_delay.
Blocked(t) == pc[t] = "idle" \/ (pc[t] = "wait" /\ timer[t] < ConversionDelay)

MayRun(t) == \A u \in Tasks : Priority[u] > Priority[t] => Blocked(u)

\* Task t takes a step of its read and goes on at a place; the reads of the
\* others are no longer alone.
At(t, here, next) ==
    /\ pc[t] = here /\ MayRun(t)
    /\ pc' = [pc EXCEPT ![t] = next]
    /\ alone' = [u \in Tasks |->
          IF u = t THEN /\ \A o \in Tasks \ {t} : pc[o] = "idle"
                        /\ alone[t] \/ here = "idle"
          ELSE alone[u] /\ pc[u] = "idle"]

\* ADS1248_CMD_WAKEUP
WakeUp(t) ==
    /\ At(t, "idle", "mux")
    /\ \E c \in Channels : channel' = [channel EXCEPT ![t] = c]
    /\ result' = [result EXCEPT ![t] = None]
    /\ asleep' = FALSE
    /\ UNCHANGED <<timer, mux, idac, converting, age, readers, last>>

\* ADS1248_CMD_WREG, register MUX0
WriteMux(t) ==
    /\ At(t, "mux", "idac")
    /\ mux' = IF Deaf THEN mux ELSE channel[t]
    /\ UNCHANGED <<channel, timer, result, idac, asleep, converting, age,
                   readers, last>>

\* ADS1248_CMD_WREG, register IDAC1
WriteIdac(t) ==
    /\ At(t, "idac", "sync")
    /\ idac' = IF Deaf THEN idac ELSE channel[t]
    /\ UNCHANGED <<channel, timer, result, mux, asleep, converting, age,
                   readers, last>>

\* ADS1248_CMD_SYNC: a conversion begins anew.
Sync(t) ==
    /\ At(t, "sync", "sleep")
    /\ IF Deaf THEN UNCHANGED <<converting, age, readers>>
       ELSE /\ converting' = TRUE /\ age' = 0
            /\ readers' = {u \in Tasks : pc[u] # "idle"}
    /\ UNCHANGED <<channel, timer, result, mux, idac, asleep, last>>

\* ADS1248_CMD_SLEEP, after the conversion under way.
Sleep(t) ==
    /\ At(t, "sleep", "wait")
    /\ asleep' = TRUE
    /\ timer' = [timer EXCEPT ![t] = 0]
    /\ UNCHANGED <<channel, result, mux, idac, converting, age, readers, last>>

\* Task t has the value of its channel, of a conversion begun in its read.
Own(t) == t \in last.readers /\ last.mux = channel[t] /\ last.idac = channel[t]

\* Its read is over: no conversion begun so far is of its next one.
Collect(t) ==
    /\ result' = [result EXCEPT ![t] = IF Own(t) THEN "own" ELSE "other"]
    /\ last' = [last EXCEPT !.readers = @ \ {t}]
    /\ readers' = readers \ {t}
    /\ UNCHANGED <<channel, timer, mux, idac, asleep, converting, age>>

\* Mutant: the last conversion is collected without waiting for it.
BugReadData(t) == At(t, "wait", "idle") /\ Collect(t)

\* ADS1248_CMD_RDATA when ads1248_delay has returned.
ReadData(t) ==
    timer[t] = ConversionDelay /\ At(t, "wait", "idle") /\ Collect(t)

Read(t) == WakeUp(t) \/ WriteMux(t) \/ WriteIdac(t) \/ Sync(t) \/ Sleep(t)
           \/ ReadData(t)

Tick ==
    /\ \A t \in Tasks : Blocked(t)
    /\ converting => age < SlowestConversion
    /\ age' = IF converting THEN age + 1 ELSE 0
    /\ timer' = [t \in Tasks |-> IF pc[t] = "wait" THEN timer[t] + 1
                                 ELSE timer[t]]
    /\ UNCHANGED <<pc, channel, result, alone, mux, idac, asleep, converting,
                   readers, last>>

Next == Convert \/ Tick \/ \E t \in Tasks : Read(t)

Spec == Init /\ [][Next]_vars

-----------------------------------------------------------------------------
(* Properties.                                                             *)

\* Every variable has its type.
TypeOK ==
    /\ pc \in [Tasks -> Places] /\ channel \in [Tasks -> Channels]
    /\ timer \in [Tasks -> 0..ConversionDelay]
    /\ result \in [Tasks -> {None, "own", "other"}]
    /\ alone \in [Tasks -> BOOLEAN]
    /\ mux \in Channels /\ idac \in Channels
    /\ asleep \in BOOLEAN /\ converting \in BOOLEAN
    /\ age \in 0..SlowestConversion
    /\ readers \subseteq Tasks
    /\ last \in [mux : Channels, idac : Channels, readers : SUBSET Tasks]

\* A read in which no other task had a step returns the temperature of the
\* channel it was asked for, from a conversion of its own, in whatever state
\* the reads that met before have left the converter (ads1248_read_data).
AloneReadsOwn ==
    \A t \in Tasks : result[t] # None /\ alone[t] => result[t] = "own"

-----------------------------------------------------------------------------
(* What the documentation says and the code does not do.                   *)

\* "positive_channel selects channel to read the temperature"
\* (devices/temp_sensor/temp_sensor.h): a read returns the temperature of its
\* channel.  Two tasks share the channel registers across the 50 ms of
\* ads1248_delay, and one collects what the other has selected.
ReadsOwn == \A t \in Tasks : result[t] # "other"
=============================================================================
