---------------------------- MODULE ParamServer ----------------------------
(***************************************************************************)
(* The parameter server task (app/tasks/param_server.c) between its two    *)
(* links and the parameter buffer.                                         *)
(*                                                                         *)
(* Actors, and what may interleave with what:                              *)
(*   - the interrupt handlers, driven by the OBDH (I2C master) and by the  *)
(*     TTC (UART): one interrupt is one atomic step, possible at any time; *)
(*   - the server, the task of highest priority: one step per access to    *)
(*     what it shares with the handlers;                                   *)
(*   - ReadSensors, of lower priority: it runs only while the server is    *)
(*     blocked, but may be preempted between the two 16-bit stores of a    *)
(*     32-bit register.                                                    *)
(* The OBDH and the TTC are not part of the repository: they send any      *)
(* requests of the given sets, cut frames short, lose bytes, or read too   *)
(* little.  ObdhPatient says whether the OBDH leaves the server time to    *)
(* finish a command before its next transaction.                           *)
(***************************************************************************)
EXTENDS I2CSlave, UartInterrupt, Sequences

CONSTANTS
    ObdhRequests,   \* the frames the OBDH may send
    TtcRequests,    \* the frames the TTC may send
    SensorWrites,   \* what ReadSensors may write: records [adr, val]
    HwVersion,      \* the hardware version Startup reads
    ResetCause,     \* the cause of the last reset
    ObdhPatient,
    MaxObdh,        \* bound on the frames of the OBDH
    MaxRead,        \* bound on its read transactions
    MaxTtc,         \* bound on the frames of the TTC
    MaxSpare,       \* bound on the bytes the TTC sends between frames
    MaxSensor       \* bound on the writes of ReadSensors

\* A read carries no value.
Request == {f \in Frame : f.cmd = "write" \/ (f.cmd = "read" /\ f.val = Zero32)}

ASSUME ConstantsAssumption ==
    /\ ObdhRequests \subseteq Request
    /\ TtcRequests \subseteq Request
    /\ SensorWrites \subseteq [adr : Params, val : U32]
    /\ HwVersion \in U8 /\ ResetCause \in U8
    /\ ObdhPatient \in BOOLEAN
    /\ {MaxObdh, MaxRead, MaxTtc, MaxSpare, MaxSensor} \subseteq Nat

Links == {"I2C", "UART"}

VARIABLES
    eps_data,       \* the parameter buffer
    notification,   \* the bits pending in the server's task notification
    pc,             \* where the server is
    source,         \* the link it serves
    buf,            \* the decoder's copy of the received bytes
    count,          \* the length its memcpy was called with
    copied,         \* bytes its memcpy has copied
    size,           \* received_size
    cmd,            \* the last command decoded
    reply,          \* the answer being stored
    obdh,           \* the OBDH: its request, the transaction under way, and
                    \* whether it has read an answer to the request before
    ttc,            \* the TTC: the frame it sends, and whether it sent it whole
    sensor,         \* ReadSensors: a 32-bit store half done
    log,            \* history: per link, the frames whose sending began
    served,         \* history: executions since the OBDH began its request
    held,           \* history: values of the requested register since then
    given,          \* history: the answers the server composed
    answer          \* history: what the OBDH accepted when it first read the answer

serverVars  == <<pc, source, buf, count, copied, size, cmd, reply>>
historyVars == <<log, served, held, given, answer>>
vars == <<i2cVars, uartVars, eps_data, notification, serverVars, obdh, ttc,
          sensor, historyVars>>

EmptyBuf == [i \in 0..15 |-> ZeroByte]

Init ==
    /\ I2cInit /\ UartInit
    /\ eps_data = StartupData(HwVersion, ResetCause)
    /\ notification = {}
    /\ pc = "wait" /\ source = "I2C" /\ buf = EmptyBuf
    /\ count = 0 /\ copied = 0 /\ size = 0
    /\ cmd = NoFrame /\ reply = NoFrame
    /\ obdh = [mode |-> "idle", req |-> NoFrame, whole |-> FALSE,
               pos |-> 0, got |-> <<>>, reads |-> 0, again |-> FALSE]
    /\ ttc = [req |-> NoFrame, whole |-> FALSE, pos |-> 0, spare |-> 0]
    /\ sensor = [adr |-> -1, val |-> Zero32, first |-> "hi", writes |-> 0]
    /\ log = [l \in Links |-> <<>>]
    /\ served = 0 /\ held = {} /\ given = <<>> /\ answer = NoFrame

-----------------------------------------------------------------------------
(* History.                                                                *)

Pending == obdh.mode \in {"wait", "read"}

\* The register the OBDH waits for is now as in data.
Track(data) ==
    held' = IF Pending /\ obdh.req.adr \in Params
            THEN held \cup {data[obdh.req.adr]} ELSE held

-----------------------------------------------------------------------------
(* The server task.                                                        *)

\* Back to xTaskNotifyWait; the locals of the iteration and of the decoder
\* (uint8_t buf[...] = {0}) are gone.
Return ==
    /\ pc' = "wait" /\ buf' = EmptyBuf
    /\ count' = 0 /\ copied' = 0 /\ size' = 0 /\ reply' = NoFrame

\* Mutant: xTaskNotifyWait clears no bit on exit.
BugWake ==
    /\ pc = "wait" /\ notification # {}
    /\ source' = IF "I2C" \in notification THEN "I2C" ELSE "UART"
    /\ pc' = "call" /\ cmd' = NoFrame
    /\ UNCHANGED <<i2cVars, uartVars, eps_data, notification, buf, count, copied,
                   size, reply, obdh, ttc, sensor, historyVars>>

\* Mutant: of two pending bits, both cleared, the other one is served.
BugOrderWake ==
    /\ pc = "wait" /\ notification # {}
    /\ notification' = {}
    /\ source' = IF "UART" \in notification THEN "UART" ELSE "I2C"
    /\ pc' = "call" /\ cmd' = NoFrame
    /\ UNCHANGED <<i2cVars, uartVars, eps_data, buf, count, copied, size, reply,
                   obdh, ttc, sensor, historyVars>>

\* xTaskNotifyWait returns: every pending bit is cleared, and the else-if
\* serves one link.
Wake ==
    /\ pc = "wait" /\ notification # {}
    /\ notification' = {}
    /\ source' = IF "I2C" \in notification THEN "I2C" ELSE "UART"
    /\ pc' = "call" /\ cmd' = NoFrame
    /\ UNCHANGED <<i2cVars, uartVars, eps_data, buf, count, copied, size, reply,
                   obdh, ttc, sensor, historyVars>>

DataSize == IF source = "I2C" THEN i2c_rx_data_size ELSE uart_rx_data_size
RxByte(i) == IF source = "I2C" THEN i2c_rx_buffer[i] ELSE uart_rx_buffer[i]

\* The call of memcpy evaluates the length.
CallCopy ==
    /\ pc = "call"
    /\ count' = DataSize /\ copied' = 0 /\ pc' = "copy"
    /\ UNCHANGED <<i2cVars, uartVars, eps_data, notification, source, buf, size,
                   cmd, reply, obdh, ttc, sensor, historyVars>>

CopyByte ==
    /\ pc = "copy" /\ copied < count
    /\ buf' = [buf EXCEPT ![copied] = RxByte(copied)]
    /\ copied' = copied + 1
    /\ UNCHANGED <<i2cVars, uartVars, eps_data, notification, pc, source, count,
                   size, cmd, reply, obdh, ttc, sensor, historyVars>>

\* "*len = rx_data_size" reads the global a second time.
FetchSize ==
    /\ pc = "copy" /\ copied >= count
    /\ size' = DataSize /\ pc' = "decode"
    /\ UNCHANGED <<i2cVars, uartVars, eps_data, notification, source, buf, count,
                   copied, cmd, reply, obdh, ttc, sensor, historyVars>>

Decoded == IF source = "I2C" THEN ObdhDecode(buf, size) ELSE TtcDecode(buf, size)

\* An execution of f, for the history.
Executed(f) ==
    /\ cmd' = f
    /\ served' = IF source = "I2C" THEN served + 1 ELSE served

\* "The received ... command was corrupted!"
RejectCommand ==
    /\ pc = "decode" /\ Decoded = NoFrame
    /\ Return
    /\ UNCHANGED <<i2cVars, uartVars, eps_data, notification, source, cmd, obdh,
                   ttc, sensor, historyVars>>

ExecuteWrite ==
    /\ pc = "decode" /\ Decoded.cmd = "write"
    /\ eps_data' = BufferWrite(eps_data, Decoded.adr, Decoded.val)
    /\ Return
    /\ Executed(Decoded) /\ Track(eps_data')
    /\ UNCHANGED <<i2cVars, uartVars, notification, source, obdh, ttc, sensor,
                   log, given, answer>>

\* Mutant: an answer half read by the OBDH is not overwritten.
BugExecuteRead ==
    /\ pc = "decode" /\ Decoded.cmd = "read"
    /\ IF Decoded.adr \in Params /\ source = "I2C" /\ i2c_tx_buffer_index = 0
       THEN /\ reply' = [cmd |-> "answer", adr |-> Decoded.adr,
                         val |-> BufferRead(eps_data, Decoded.adr)]
            /\ copied' = 0 /\ pc' = "store"
            /\ UNCHANGED <<buf, count, size>>
       ELSE Return
    /\ Executed(Decoded) /\ given' = IF pc' = "store" THEN Append(given, reply')
                                    ELSE given
    /\ UNCHANGED <<i2cVars, uartVars, eps_data, notification, source, obdh, ttc,
                   sensor, log, held, answer>>

\* A register is read and, on the I2C link, obdh_write_output_buffer begins;
\* ttc_answer transmits at once.  An unknown register is only logged.
ExecuteRead ==
    /\ pc = "decode" /\ Decoded.cmd = "read"
    /\ IF Decoded.adr \in Params /\ source = "I2C"
       THEN /\ reply' = [cmd |-> "answer", adr |-> Decoded.adr,
                         val |-> BufferRead(eps_data, Decoded.adr)]
            /\ copied' = 0 /\ pc' = "store"
            /\ UNCHANGED <<buf, count, size>>
       ELSE Return
    /\ Executed(Decoded) /\ given' = IF pc' = "store" THEN Append(given, reply')
                                    ELSE given
    /\ UNCHANGED <<i2cVars, uartVars, eps_data, notification, source, obdh, ttc,
                   sensor, log, held, answer>>

StoreReplyByte ==
    /\ pc = "store" /\ copied < OBDH_COMMAND_WRITE_SIZE
    /\ StoreTxByte(copied, ByteAt(reply, copied))
    /\ copied' = copied + 1
    /\ UNCHANGED <<uartVars, eps_data, notification, pc, source, buf, count, size,
                   cmd, reply, obdh, ttc, sensor, historyVars>>

StoreReplySize ==
    /\ pc = "store" /\ copied >= OBDH_COMMAND_WRITE_SIZE
    /\ StoreTxSize(OBDH_COMMAND_WRITE_SIZE)
    /\ pc' = "index"
    /\ UNCHANGED <<uartVars, eps_data, notification, source, buf, count, copied,
                   size, cmd, reply, obdh, ttc, sensor, historyVars>>

ResetReplyIndex ==
    /\ pc = "index"
    /\ ResetTxIndex
    /\ Return
    /\ UNCHANGED <<uartVars, eps_data, notification, source, cmd, obdh, ttc,
                   sensor, historyVars>>

Server ==
    \/ Wake \/ CallCopy \/ CopyByte \/ FetchSize
    \/ RejectCommand \/ ExecuteWrite \/ ExecuteRead
    \/ StoreReplyByte \/ StoreReplySize \/ ResetReplyIndex

-----------------------------------------------------------------------------
(* The OBDH and the I2C interrupts it causes.                              *)

ServerIdleFor(link) ==
    link \notin notification /\ (pc = "wait" \/ source # link)

MayStart == ObdhPatient => ServerIdleFor("I2C")

\* The OBDH addresses the EPS to write a request.
ObdhStart(f) ==
    /\ obdh.mode \in {"idle", "wait"} /\ MayStart
    /\ Len(log["I2C"]) < MaxObdh
    /\ obdh' = [obdh EXCEPT !.mode = "send", !.req = f, !.whole = FALSE,
                            !.pos = 0, !.got = <<>>, !.again = FALSE]
    /\ log' = [log EXCEPT !["I2C"] = Append(@, f)]
    /\ served' = 0 /\ held' = {} /\ answer' = NoFrame
    /\ UNCHANGED <<i2cVars, uartVars, eps_data, notification, serverVars, ttc,
                   sensor, given>>

ObdhSendByte ==
    /\ obdh.mode = "send" /\ obdh.pos < Size(obdh.req)
    /\ IsrReceive(ByteAt(obdh.req, obdh.pos))
    /\ obdh' = [obdh EXCEPT !.pos = @ + 1]
    /\ UNCHANGED <<uartVars, eps_data, notification, serverVars, ttc, sensor,
                   historyVars>>

\* The stop condition, after the whole request or before.
ObdhStop ==
    /\ obdh.mode = "send" /\ obdh.pos > 0
    /\ IsrStop
    /\ notification' = IF StopNotifies THEN notification \cup {"I2C"}
                       ELSE notification
    /\ obdh' = [obdh EXCEPT !.mode = "wait", !.whole = obdh.pos = Size(obdh.req)]
    /\ held' = IF obdh.req.adr \in Params THEN {eps_data[obdh.req.adr]} ELSE {}
    /\ UNCHANGED <<uartVars, eps_data, serverVars, ttc, sensor, log, served,
                   given, answer>>

\* A patient master does not collect the answer to a request it cut short.
ObdhReadStart ==
    /\ obdh.mode = "wait" /\ obdh.req.cmd = "read" /\ MayStart
    /\ ObdhPatient => obdh.whole
    /\ obdh.reads < MaxRead
    /\ obdh' = [obdh EXCEPT !.mode = "read", !.got = <<>>, !.reads = @ + 1]
    /\ UNCHANGED <<i2cVars, uartVars, eps_data, notification, serverVars, ttc,
                   sensor, historyVars>>

\* One transmit interrupt.  The handler is one byte ahead of the bus: a master
\* that takes 6 bytes causes a seventh interrupt.
ObdhReadByte ==
    /\ obdh.mode = "read" /\ Len(obdh.got) < OBDH_COMMAND_WRITE_SIZE + 1
    /\ \E b \in TransmittedByte : obdh' = [obdh EXCEPT !.got = Append(@, b)]
    /\ IsrTransmit
    /\ UNCHANGED <<uartVars, eps_data, notification, serverVars, ttc, sensor,
                   historyVars>>

\* What the OBDH makes of the bytes it took: the answer to its request, or
\* nothing it can use.  To the request of an unknown register there is none.
Accepted ==
    IF Len(obdh.got) < OBDH_COMMAND_WRITE_SIZE \/ obdh.req.adr \notin Params
    THEN NoFrame
    ELSE LET bytes == [i \in 0..5 |-> obdh.got[i + 1]]
             f == ObdhDecodeAs("answer", bytes, 5)
         IN  IF f.cmd = "answer" /\ f.adr = obdh.req.adr THEN f ELSE NoFrame

ObdhReadStop ==
    /\ obdh.mode = "read" /\ Len(obdh.got) > 0
    /\ IsrStop
    /\ notification' = IF StopNotifies THEN notification \cup {"I2C"}
                       ELSE notification
    /\ answer' = IF obdh.again THEN NoFrame ELSE Accepted
    /\ obdh' = [obdh EXCEPT !.mode = "wait", !.got = <<>>, !.again = TRUE]
    /\ UNCHANGED <<uartVars, eps_data, serverVars, ttc, sensor, log, served,
                   held, given>>

Obdh ==
    \/ \E f \in ObdhRequests : ObdhStart(f)
    \/ ObdhSendByte \/ ObdhStop \/ ObdhReadStart \/ ObdhReadByte \/ ObdhReadStop

-----------------------------------------------------------------------------
(* The TTC and the UART interrupts it causes.                              *)

Receive(b) ==
    /\ IsrByte(b)
    /\ notification' = IF Completes(b) THEN notification \cup {"UART"}
                       ELSE notification

TtcSending == ttc.pos > 0

TtcStart(f) ==
    /\ ~TtcSending /\ Len(log["UART"]) < MaxTtc
    /\ Receive(TtcByteAt(f, 0))
    /\ ttc' = [ttc EXCEPT !.req = f, !.whole = FALSE, !.pos = 1]
    /\ log' = [log EXCEPT !["UART"] = Append(@, f)]
    /\ UNCHANGED <<i2cVars, eps_data, serverVars, obdh, sensor, served, held,
                   given, answer>>

\* The next byte of the frame; the frame may also be cut short after it.
TtcSendByte ==
    /\ TtcSending
    /\ Receive(TtcByteAt(ttc.req, ttc.pos))
    /\ \E next \in {0, ttc.pos + 1} \ {TtcSize(ttc.req)} :
          ttc' = [ttc EXCEPT !.pos = next,
                             !.whole = ttc.pos + 1 = TtcSize(ttc.req)]
    /\ UNCHANGED <<i2cVars, eps_data, serverVars, obdh, sensor, historyVars>>

\* A byte between two frames.
TtcSpareByte ==
    /\ ~TtcSending /\ ttc.spare < MaxSpare
    /\ Receive(ZeroByte)
    /\ ttc' = [ttc EXCEPT !.spare = @ + 1]
    /\ UNCHANGED <<i2cVars, eps_data, serverVars, obdh, sensor, historyVars>>

Ttc == \/ \E f \in TtcRequests : TtcStart(f)
       \/ TtcSendByte \/ TtcSpareByte

-----------------------------------------------------------------------------
(* ReadSensors, preempted by the server.                                   *)

Storing == sensor.adr # -1

\* The first store of a 32-bit register (the words go in either order), or
\* the only one of a narrower register.
SensorStore(w) ==
    /\ pc = "wait" /\ ~Storing /\ sensor.writes < MaxSensor
    /\ LET new == Truncate(w.adr, w.val)
           old == eps_data[w.adr]
       IN  IF w.adr \in Uint32Ids
           THEN \E first \in {"hi", "lo"} :
                  /\ eps_data' = [eps_data EXCEPT ![w.adr] =
                         [hi |-> IF first = "hi" THEN new.hi ELSE old.hi,
                          lo |-> IF first = "lo" THEN new.lo ELSE old.lo]]
                  /\ sensor' = [adr |-> w.adr, val |-> new, first |-> first,
                                writes |-> sensor.writes + 1]
           ELSE /\ eps_data' = [eps_data EXCEPT ![w.adr] = new]
                /\ sensor' = [sensor EXCEPT !.writes = @ + 1]
    /\ Track(eps_data')
    /\ UNCHANGED <<i2cVars, uartVars, notification, serverVars, obdh, ttc, log,
                   served, given, answer>>

SensorStoreRest ==
    /\ pc = "wait" /\ Storing
    /\ eps_data' = [eps_data EXCEPT ![sensor.adr] =
           [hi |-> IF sensor.first = "lo" THEN sensor.val.hi ELSE @.hi,
            lo |-> IF sensor.first = "hi" THEN sensor.val.lo ELSE @.lo]]
    /\ sensor' = [adr |-> -1, val |-> Zero32, first |-> "hi",
                  writes |-> sensor.writes]
    /\ Track(eps_data')
    /\ UNCHANGED <<i2cVars, uartVars, notification, serverVars, obdh, ttc, log,
                   served, given, answer>>

ReadSensors == (\E w \in SensorWrites : SensorStore(w)) \/ SensorStoreRest

-----------------------------------------------------------------------------
Next == Server \/ Obdh \/ Ttc \/ ReadSensors

Spec == Init /\ [][Next]_vars

\* Nothing keeps the task of highest priority from running, and the TTC and
\* the OBDH are free to stop anywhere.
FairSpec == Spec /\ WF_vars(Server)

-----------------------------------------------------------------------------
(* Properties.                                                             *)

ServerTypeOK ==
    /\ eps_data \in [Params -> U32]
    /\ notification \subseteq Links
    /\ pc \in {"wait", "call", "copy", "decode", "store", "index"}
    /\ source \in Links
    /\ buf \in [0..15 -> Byte]
    /\ count \in 0..15 /\ copied \in 0..15 /\ size \in 0..15
    /\ cmd \in Frame /\ reply \in Frame

ObdhState == [mode : {"idle", "send", "wait", "read"}, req : Frame,
              whole : BOOLEAN, pos : 0..6, got : Seq(Byte), reads : Nat,
              again : BOOLEAN]
TtcState  == [req : Frame, whole : BOOLEAN, pos : 0..6, spare : Nat]
StoreState == [adr : Params \cup {-1}, val : U32, first : {"hi", "lo"},
               writes : Nat]

PeersTypeOK == obdh \in ObdhState /\ ttc \in TtcState /\ sensor \in StoreState

HistoryTypeOK ==
    /\ log \in [Links -> Seq(Frame)] /\ served \in Nat
    /\ held \subseteq U32 /\ given \in Seq(Frame) /\ answer \in Frame

\* Every variable has its type; the indices the handlers and the memcpy use
\* stay inside their buffers (i2c_slave.c, uart_interrupt.c), the transmit
\* index excepted, which is only bounded by its width.
TypeOK ==
    I2cTypeOK /\ UartTypeOK /\ ServerTypeOK /\ PeersTypeOK /\ HistoryTypeOK

\* Byte i of a frame the OBDH began to send is b, or b is what the buffers hold
\* before.
PieceSent(i, b) ==
    \/ b = ZeroByte
    \/ \E k \in 1..Len(log["I2C"]) :
          i < Size(log["I2C"][k]) /\ b = ByteAt(log["I2C"][k], i)

\* A command the server executes for the OBDH may be put together from several
\* frames, if the CRC-8 fits, but no byte of it is out of its place: each is zero
\* or of that place of a frame the OBDH sent, wherever the frames are cut
\* and whenever the handler runs while the server copies (USCI_I2C_UCSTPIFG,
\* i2c_slave_read).
PiecesSent ==
    cmd # NoFrame /\ source = "I2C" =>
        \A i \in 0..Size(cmd) - 1 : PieceSent(i, ByteAt(cmd, i))

\* What the OBDH accepts when it first reads the answer to a request is a value
\* the register it asked for held since the request was complete: never the
\* answer to an earlier request, of which it may have left a part unread, nor a
\* mixture of the two (obdh_write_output_buffer, i2c_slave_write).
AnswerFresh == answer # NoFrame => answer.val \in held

\* No byte that may come to be the address of a command is that of the register:
\* the address of a frame of the OBDH, any byte of the TTC, or zero.
Unaddressed(id) ==
    /\ id # 0
    /\ \A f \in ObdhRequests : f.adr # id
    /\ \A f \in TtcRequests : \A i \in 0..TtcSize(f) - 1 : TtcByteAt(f, i) # id

\* A value that Startup or ReadSensors gives the register.
Stored(id, v) ==
    \/ v = StartupData(HwVersion, ResetCause)[id]
    \/ \E w \in SensorWrites : w.adr = id /\ v = Truncate(id, w.val)

\* A register that no telecommand can address holds a value stored in it whole,
\* unless ReadSensors is between its two stores: what the server executes there,
\* for either link and from whatever mixture of frames it finds in its buffers,
\* never leaves a mixture behind (eps_buffer_write).
WholeUnlessStoring ==
    \A id \in Params : Unaddressed(id) /\ sensor.adr # id => Stored(id, eps_data[id])

\* A request that was wholly transmitted is executed exactly once: when the
\* server has come to rest it has been executed, and it is never executed
\* again (vTaskParamServer, xTaskNotifyWait).
ExactlyOnce ==
    Pending /\ obdh.whole =>
        /\ served <= 1
        /\ ServerIdleFor("I2C") => served = 1

\* A whole request is eventually executed.
EventuallyServed == Pending /\ obdh.whole ~> served > 0 \/ ~Pending

\* The OBDH has sent a request whole and it is not executed yet.
Awaited == Pending /\ obdh.whole /\ served = 0

\* The steps left until the server has decoded a frame of n bytes.
StepsLeft(n) ==
    CASE pc = "call" -> n + 3
      [] pc = "copy" -> (IF copied < count THEN count - copied ELSE 0) + 2
      [] OTHER       -> 1

\* The steps of the server until it executes the request of the OBDH: with one
\* command of the TTC before it, if it serves one already.
Remaining ==
    IF pc = "wait" THEN Size(obdh.req) + 4
    ELSE IF source = "I2C" THEN StepsLeft(Size(obdh.req))
    ELSE StepsLeft(WRITE_COMMAND_MAX_SIZE) + Size(obdh.req) + 4

\* A whole request is executed after at most 20 steps of the server, whatever
\* the TTC sends meanwhile: the server has something to do for it, each of its
\* steps brings the execution nearer, and nobody else's puts it off
\* (vTaskParamServer, where the else-if drops the bit of the TTC, not this one).
ServedSoon ==
    /\ [](Awaited => Remaining \in 1..20
                     /\ (pc = "wait" => "I2C" \in notification))
    /\ [][Awaited /\ Awaited' => IF Server THEN Remaining' < Remaining
                                 ELSE Remaining' <= Remaining]_vars

\* A register is written for the OBDH only by the request it sent last, and
\* sent whole: a frame cut short, whose CRC may be zero as that of an empty
\* buffer is, changes nothing (i2c_rx_data_size and obdh_decode).
OnlyRequestsWrite ==
    [][ExecuteWrite /\ source = "I2C" =>
           Pending /\ obdh.whole /\ served = 0 /\ Decoded = obdh.req]_vars

\* With an OBDH that waits, the server implements the register service: a
\* request is served in the step that executes it, and its answer is the last
\* one the server composed.
Phase == IF ~(Pending /\ obdh.whole) THEN "idle"
         ELSE IF served = 0 THEN "asked" ELSE "served"

Sample == IF /\ Phase = "served" /\ given # <<>>
             /\ obdh.req.cmd = "read" /\ obdh.req.adr \in Params
          THEN given[Len(given)] ELSE NoFrame

Service == INSTANCE RegisterService
    WITH regs <- eps_data, phase <- Phase, req <- obdh.req, sample <- Sample,
         collected <- answer

ImplementsService == Service!ServiceSpec

-----------------------------------------------------------------------------
(* What the documentation says and the code does not do.                   *)

\* "This task is responsible for processing and responding to commands from
\* the OBDH and TTC modules" (doc/chapters/firmware.tex): a TTC read the handler
\* reports is executed.  USCI_A0_ISR reports 4 bytes, ttc_decode takes a read
\* of 3.
TtcReadsAnswered ==
    "UART" \in notification /\ uart_rx_data_size = READ_COMMAND_MAX_SIZE
        ~> source = "UART" /\ cmd.cmd = "read"
=============================================================================
