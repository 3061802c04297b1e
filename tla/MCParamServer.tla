--------------------------- MODULE MCParamServer ---------------------------
(***************************************************************************)
(* Values for model-checking ParamServer: a 32-bit register (0), one of 8  *)
(* bits (14) and an ID no register has (60).                               *)
(***************************************************************************)
EXTENDS ParamServer

MCParams == {0, 14}

WriteFrame(a, v) == [cmd |-> "write", adr |-> a, val |-> v]
ReadFrame(a)     == [cmd |-> "read", adr |-> a, val |-> Zero32]

NoRequests == {}

\* 0x00010141 does not fit in the duty cycle register; the frame of zeros has
\* the CRC of an empty buffer.
MCObdhRequests == {WriteFrame(14, [hi |-> 1, lo |-> 321]), ReadFrame(14),
                   WriteFrame(0, Zero32), ReadFrame(0), ReadFrame(60)}
\* 41217 is 0xA101: a value byte that looks like an identification byte.
MCTtcRequests  == {WriteFrame(14, Short(41217)), ReadFrame(14)}

\* Two writes to one register whose CRCs agree after the first two bytes of the
\* value, so that the start of one and the end of the other are a frame; the
\* register next to it is written by the sensors.  No register has the ID 126,
\* the CRC of the one byte 18.
HastyParams   == {0, 18, 19}
HastyRequests == {WriteFrame(18, [hi |-> 263, lo |-> 1]),
                  WriteFrame(18, Short(2)), ReadFrame(18), ReadFrame(0),
                  ReadFrame(126)}
HastyWrites   == {[adr |-> 19, val |-> [hi |-> 1, lo |-> 2]]}

\* A tick count that changes both words of the register.
MCSensorWrites == {[adr |-> 0, val |-> [hi |-> 1, lo |-> 2]]}

\* A bound on what happens together: the TTC sends beside one request of the OBDH,
\* of two, whose answer is not collected, and beside no store of the sensors.
TtcBeside ==
    Len(log["UART"]) + ttc.spare > 0 =>
        /\ Len(log["I2C"]) <= 1 /\ obdh.reads = 0 /\ sensor.writes = 0
        /\ obdh.req \in {NoFrame, ReadFrame(14), WriteFrame(0, Zero32)}

\* The requests of the run that aims at one behaviour.
OneRequest == {ReadFrame(14)}
NoWrites   == {}
=============================================================================
