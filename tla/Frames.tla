------------------------------- MODULE Frames -------------------------------
(***************************************************************************)
(* The command frames on the two links of the parameter server, and their  *)
(* decoding (devices/obdh/obdh.c, devices/ttc/ttc.c).                       *)
(*                                                                         *)
(*   OBDH (I2C):  write  adr v3 v2 v1 v0 crc      read  adr crc            *)
(*   TTC (UART):  the same, after an identification byte 0xA1 or 0xB1      *)
(*   answer    :  adr v3 v2 v1 v0 crc                                      *)
(*                                                                         *)
(* A byte is a number.  The CRC-8 is that of the code: linear, so that it   *)
(* also fits bytes of several frames put together, and zero for zeros.     *)
(***************************************************************************)
EXTENDS EpsData

Commands == {"none", "write", "read", "answer"}
Frame    == [cmd : Commands, adr : U8, val : U32]
NoFrame  == [cmd |-> "none", adr |-> 0, val |-> Zero32]

Byte     == U8
ZeroByte == 0

WRITE_COMMAND_ID == 161     \* 0xA1
READ_COMMAND_ID  == 177     \* 0xB1

(***************************************************************************)
(* obdh_crc8 and ttc_crc8: the initial value 0, the polynomial 7.          *)
(***************************************************************************)
Differ(a, b, i) == (a \div i + b \div i) % 2

\* a ^ b, of bytes.
Xor(a, b) ==
    Differ(a, b, 1) + 2 * Differ(a, b, 2) + 4 * Differ(a, b, 4)
    + 8 * Differ(a, b, 8) + 16 * Differ(a, b, 16) + 32 * Differ(a, b, 32)
    + 64 * Differ(a, b, 64) + 128 * Differ(a, b, 128)

\* One round of the inner loop.
Shift(crc) == Xor((2 * crc) % 256, IF crc >= 128 THEN 7 ELSE 0)

\* The eight of them.
Shifted ==
    [x \in U8 |-> Shift(Shift(Shift(Shift(Shift(Shift(Shift(Shift(x))))))))]

\* One round of the outer loop, for the value so far and the next byte.
CrcTable == [crc \in U8 |-> [b \in U8 |-> Shifted[Xor(crc, b)]]]

CrcStep(crc, b) == CrcTable[crc][b]

\* The CRC over the bytes of f that precede it, from the value start on.
FrameCrc(start, f) ==
    LET adr == CrcStep(start, f.adr)
        hi  == CrcStep(CrcStep(adr, f.val.hi \div 256), f.val.hi % 256)
    IN  IF f.cmd = "read" THEN adr
        ELSE CrcStep(CrcStep(hi, f.val.lo \div 256), f.val.lo % 256)

Crc(f) == FrameCrc(0, f)

\* The TTC's covers the identification byte too.
TtcCrc(id, f) == FrameCrc(CrcStep(0, id), f)

OBDH_COMMAND_READ_SIZE  == 2
OBDH_COMMAND_WRITE_SIZE == 6

Size(f) == IF f.cmd = "read" THEN OBDH_COMMAND_READ_SIZE
           ELSE OBDH_COMMAND_WRITE_SIZE

\* Byte i of frame f, counted from 0: the value goes most significant first.
ByteAt(f, i) ==
    IF i = Size(f) - 1 THEN Crc(f)
    ELSE CASE i = 0 -> f.adr
           [] i = 1 -> f.val.hi \div 256
           [] i = 2 -> f.val.hi % 256
           [] i = 3 -> f.val.lo \div 256
           [] OTHER -> f.val.lo % 256

\* The same frame as the TTC sends it.
IdOf(cmd) == IF cmd = "write" THEN WRITE_COMMAND_ID ELSE READ_COMMAND_ID

TtcSize(f) == Size(f) + 1
TtcByteAt(f, i) ==
    CASE i = 0              -> IdOf(f.cmd)
      [] i = TtcSize(f) - 1 -> TtcCrc(IdOf(f.cmd), f)
      [] OTHER              -> ByteAt(f, i - 1)

(***************************************************************************)
(* Decoding: the bytes from buf[first] on put together, and the CRC over   *)
(* what precedes buf[last] compared with it.                               *)
(***************************************************************************)
Assembled(cmd, buf, first) ==
    [cmd |-> cmd,
     adr |-> buf[first],
     val |-> IF cmd = "read" THEN Zero32
             ELSE [hi |-> 256 * buf[first + 1] + buf[first + 2],
                   lo |-> 256 * buf[first + 3] + buf[first + 4]]]

ObdhDecodeAs(cmd, buf, last) ==
    LET f == Assembled(cmd, buf, 0)
    IN  IF buf[last] = Crc(f) THEN f ELSE NoFrame

\* ttc_decode does not look at the identification byte but for the CRC.
TtcDecodeAs(cmd, buf, last) ==
    LET f == Assembled(cmd, buf, 1)
    IN  IF buf[last] = TtcCrc(buf[0], f) THEN f ELSE NoFrame

\* Mutant: what is no read is a write, whatever its size.
BugObdhDecode(buf, size) ==
    IF size = OBDH_COMMAND_READ_SIZE THEN ObdhDecodeAs("read", buf, 1)
    ELSE ObdhDecodeAs("write", buf, 5)

\* obdh_decode on a received buffer: the CRC check and the switch on the
\* size.  NoFrame stands for the error code: a size other than 2 and 6 is an
\* error whatever its CRC, sizes 0 and 1 included.
ObdhDecode(buf, size) ==
    CASE size = OBDH_COMMAND_WRITE_SIZE -> ObdhDecodeAs("write", buf, 5)
      [] size = OBDH_COMMAND_READ_SIZE  -> ObdhDecodeAs("read", buf, 1)
      [] OTHER                          -> NoFrame

\* ttc_decode: the same with the identification byte in front, which the CRC
\* covers; the switch is on received_size - 1.
TtcDecode(buf, size) ==
    CASE size - 1 = OBDH_COMMAND_WRITE_SIZE -> TtcDecodeAs("write", buf, 6)
      [] size - 1 = OBDH_COMMAND_READ_SIZE  -> TtcDecodeAs("read", buf, 2)
      [] OTHER                              -> NoFrame
=============================================================================
