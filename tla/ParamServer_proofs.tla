------------------------- MODULE ParamServer_proofs -------------------------
(***************************************************************************)
(* Theorems about ParamServer, for every set of registers and requests and *)
(* every bound: its type invariant; that no byte of a command is out of    *)
(* its place, and that registers nobody addresses stay whole; and, with an *)
(* OBDH that leaves the server its time, that each request is executed     *)
(* once and in few steps, that only whole ones write, that answers are     *)
(* fresh, and that the server implements RegisterService.                  *)
(***************************************************************************)
EXTENDS ParamServer, TLAPS

-----------------------------------------------------------------------------
(* Frames: the types of what is sent and decoded.                          *)

\* The types of words and bytes, as bounds.
LEMMA InWord == ASSUME NEW q \in Int PROVE q \in Word <=> 0 <= q /\ q <= 65535
  BY DEF Word

\* The bytes are the integers from 0 to 255.
LEMMA InU8 == ASSUME NEW q \in Int PROVE q \in U8 <=> 0 <= q /\ q <= 255
  BY DEF U8

\* Bytes are numbers, and words.
LEMMA U8Nat == ASSUME NEW x \in U8 PROVE x \in Nat /\ x \in Word
  BY DEF U8, Word

\* Constants.
LEMMA ZeroTypes == /\ Zero32 \in U32 /\ NoFrame \in Frame
                   /\ ZeroByte \in Byte /\ ZeroByte = 0 /\ 0 \in U8
  <1>1. Zero32 \in U32
    BY DEF Zero32, Short, U32, Word
  <1>2. 0 \in U8
    BY DEF U8
  <1>3. NoFrame \in Frame
    BY <1>1, <1>2 DEF NoFrame, Frame, Commands
  <1> QED BY <1>1, <1>2, <1>3 DEF Byte, ZeroByte

\* A bit of the exclusive or.
LEMMA DifferType ==
    ASSUME NEW a \in Nat, NEW b \in Nat, NEW i \in Nat \ {0}
    PROVE  Differ(a, b, i) \in {0, 1}
  <1>1. a \div i \in Int /\ b \div i \in Int
    OBVIOUS
  <1> DEFINE sum == a \div i + b \div i
  <1>2. sum \in Int
    BY <1>1
  <1>3. sum % 2 \in {0, 1}
    <2> HIDE DEF sum
    <2> QED BY <1>2
  <1> QED BY <1>3 DEF Differ

\* The exclusive or is a byte.
LEMMA XorType == ASSUME NEW a \in Nat, NEW b \in Nat PROVE Xor(a, b) \in U8
  <1>1. /\ Differ(a, b, 1) \in {0, 1} /\ Differ(a, b, 2) \in {0, 1}
        /\ Differ(a, b, 4) \in {0, 1} /\ Differ(a, b, 8) \in {0, 1}
        /\ Differ(a, b, 16) \in {0, 1} /\ Differ(a, b, 32) \in {0, 1}
        /\ Differ(a, b, 64) \in {0, 1} /\ Differ(a, b, 128) \in {0, 1}
    BY DifferType
  <1>2. Xor(a, b) \in Int /\ 0 <= Xor(a, b) /\ Xor(a, b) <= 255
    BY <1>1 DEF Xor
  <1> QED BY <1>2, InU8

\* A round of the CRC keeps it a byte, ...
LEMMA ShiftType == ASSUME NEW x \in U8 PROVE Shift(x) \in U8
  <1>1. (2 * x) % 256 \in Nat
    BY U8Nat
  <1>2. (IF x >= 128 THEN 7 ELSE 0) \in Nat
    OBVIOUS
  <1> QED BY <1>1, <1>2, XorType DEF Shift

\* ... as eight of them do, ...
LEMMA ShiftedType == ASSUME NEW x \in U8 PROVE Shifted[x] \in U8
  <1>1. Shift(Shift(Shift(Shift(x)))) \in U8
    BY ShiftType
  <1>2. Shift(Shift(Shift(Shift(Shift(Shift(Shift(Shift(x)))))))) \in U8
    BY <1>1, ShiftType
  <1> QED BY <1>2 DEF Shifted

\* ... and the next byte of the data.
LEMMA CrcStepType ==
    ASSUME NEW crc \in U8, NEW b \in U8 PROVE CrcStep(crc, b) \in U8
  <1>1. Xor(crc, b) \in U8
    BY U8Nat, XorType
  <1>2. CrcTable[crc][b] = Shifted[Xor(crc, b)]
    BY DEF CrcTable
  <1> QED BY <1>1, <1>2, ShiftedType DEF CrcStep

\* The two bytes of a 16-bit word.
LEMMA WordBytes == ASSUME NEW w \in Word
                   PROVE  /\ w \div 256 \in U8
                          /\ w % 256 \in U8 /\ w % 256 \in Word
  <1>1. w \in Int
    BY DEF Word
  <1>2. 0 <= w /\ w <= 65535
    BY <1>1, InWord
  <1>3. w \div 256 \in Int /\ w % 256 \in Int
    BY <1>1
  <1>4. /\ 0 <= w \div 256 /\ w \div 256 <= 255
        /\ 0 <= w % 256 /\ w % 256 <= 255 /\ w % 256 <= 65535
    BY <1>1, <1>2
  <1>5. w \div 256 \in U8
    BY <1>3, <1>4, InU8
  <1>6. w % 256 \in U8
    BY <1>3, <1>4, InU8
  <1>7. w % 256 \in Word
    BY <1>3, <1>4, InWord
  <1> QED BY <1>5, <1>6, <1>7

\* A 16-bit word made of two bytes.
LEMMA WordOfBytes == ASSUME NEW x \in U8, NEW y \in U8
                     PROVE  256 * x + y \in Word
  <1>1. x \in Int /\ y \in Int
    BY DEF U8
  <1>2. 0 <= x /\ x <= 255 /\ 0 <= y /\ y <= 255
    BY <1>1, InU8
  <1>3. 256 * x + y \in Int
    BY <1>1
  <1>4. 0 <= 256 * x + y /\ 256 * x + y <= 65535
    BY <1>1, <1>2
  <1> QED BY <1>3, <1>4, InWord

\* The bytes of a frame that its CRC covers.
LEMMA FrameParts ==
    ASSUME NEW f \in Frame
    PROVE  /\ f.adr \in U8 /\ f.cmd \in Commands
           /\ f.val.hi \div 256 \in U8 /\ f.val.hi % 256 \in U8
           /\ f.val.lo \div 256 \in U8 /\ f.val.lo % 256 \in U8
  <1>1. /\ f.adr \in U8 /\ f.cmd \in Commands
        /\ f.val.hi \in Word /\ f.val.lo \in Word
    BY DEF Frame, U32
  <1> QED BY <1>1, WordBytes

\* The CRC of a frame is a byte.
LEMMA FrameCrcType ==
    ASSUME NEW start \in U8, NEW f \in Frame
    PROVE  FrameCrc(start, f) \in U8
  <1> DEFINE adr == CrcStep(start, f.adr)
             mid == CrcStep(adr, f.val.hi \div 256)
             hi  == CrcStep(mid, f.val.hi % 256)
             low == CrcStep(hi, f.val.lo \div 256)
             all == CrcStep(low, f.val.lo % 256)
  <1>1. adr \in U8
    BY FrameParts, CrcStepType
  <1>2. mid \in U8
    <2> HIDE DEF adr
    <2> QED BY <1>1, FrameParts, CrcStepType
  <1>3. hi \in U8
    <2> HIDE DEF mid
    <2> QED BY <1>2, FrameParts, CrcStepType
  <1>4. low \in U8
    <2> HIDE DEF hi
    <2> QED BY <1>3, FrameParts, CrcStepType
  <1>5. all \in U8
    <2> HIDE DEF low
    <2> QED BY <1>4, FrameParts, CrcStepType
  <1>6. FrameCrc(start, f) = IF f.cmd = "read" THEN adr ELSE all
    BY DEF FrameCrc
  <1> QED BY <1>1, <1>5, <1>6

\* Every byte of a frame is a byte.
LEMMA ByteAtType ==
    ASSUME NEW f \in Frame, NEW i \in Nat
    PROVE  ByteAt(f, i) \in Byte
  <1>1. Crc(f) \in U8
    BY ZeroTypes, FrameCrcType DEF Crc
  <1> QED BY <1>1, FrameParts DEF ByteAt, Byte

\* The same for the frame as the TTC sends it.
LEMMA TtcByteAtType ==
    ASSUME NEW f \in Frame, NEW i \in Nat
    PROVE  TtcByteAt(f, i) \in Byte
  <1>1. IdOf(f.cmd) \in U8
    BY DEF IdOf, WRITE_COMMAND_ID, READ_COMMAND_ID, U8
  <1>2. TtcCrc(IdOf(f.cmd), f) \in U8
    BY <1>1, ZeroTypes, CrcStepType, FrameCrcType DEF TtcCrc
  <1>3. CASE i = 0
    BY <1>1, <1>3 DEF TtcByteAt, Byte, TtcSize, Size, OBDH_COMMAND_READ_SIZE,
                      OBDH_COMMAND_WRITE_SIZE
  <1>4. CASE i # 0
    <2>1. i - 1 \in Nat
      BY <1>4
    <2>2. TtcByteAt(f, i) \in {TtcCrc(IdOf(f.cmd), f), ByteAt(f, i - 1)}
      BY <1>4 DEF TtcByteAt
    <2> QED BY <1>2, <2>1, <2>2, ByteAtType DEF Byte
  <1> QED BY <1>3, <1>4

\* Whatever bytes a decoder puts together, the result is a frame.
LEMMA AssembledType ==
    ASSUME NEW c \in Commands, NEW first \in {0, 1},
           NEW bytes, \A i \in 0..5 : bytes[i] \in Byte
    PROVE  Assembled(c, bytes, first) \in Frame
  <1>1. \A i \in 0..5 : bytes[i] \in U8
    BY DEF Byte
  <1>2. /\ first \in 0..5 /\ first + 1 \in 0..5 /\ first + 2 \in 0..5
        /\ first + 3 \in 0..5 /\ first + 4 \in 0..5
    OBVIOUS
  <1> QED BY <1>1, <1>2, WordOfBytes, ZeroTypes DEF Assembled, Frame, U32

\* What the decoders assemble from bytes is a command.
LEMMA DecodedAsType ==
    ASSUME NEW c \in Commands, NEW last, NEW bytes,
           \A i \in 0..5 : bytes[i] \in Byte
    PROVE  /\ ObdhDecodeAs(c, bytes, last) \in Frame
           /\ TtcDecodeAs(c, bytes, last) \in Frame
  BY AssembledType, ZeroTypes DEF ObdhDecodeAs, TtcDecodeAs

\* What a field keeps of a 32-bit value is a 32-bit value.
LEMMA TruncateType == ASSUME NEW id, NEW v \in U32 PROVE Truncate(id, v) \in U32
  <1>1. v.hi \in Word /\ v.lo \in Word /\ 0 \in Word
    BY ZeroTypes DEF U32, Zero32, Short
  <1>2. v.lo % 256 \in Word
    BY <1>1, WordBytes
  <1> QED BY <1>1, <1>2 DEF Truncate, U32

-----------------------------------------------------------------------------
(* Types.                                                                  *)

\* TypeOK is inductive once the position of the TTC stays inside its frame.
TypeInv == TypeOK /\ ttc.pos < TtcSize(ttc.req)

\* A command of the OBDH has two bytes or six.
LEMMA SizeValue == ASSUME NEW f PROVE Size(f) \in {2, 6}
  BY DEF Size, OBDH_COMMAND_READ_SIZE, OBDH_COMMAND_WRITE_SIZE

\* eps_buffer_write keeps the type of the buffer.
LEMMA BufferWriteType ==
    ASSUME NEW data \in [Params -> U32], NEW id, NEW v \in U32
    PROVE  BufferWrite(data, id, v) \in [Params -> U32]
  BY TruncateType DEF BufferWrite

\* The buffer has its type when startup has written it.
LEMMA StartupDataType == StartupData(HwVersion, ResetCause) \in [Params -> U32]
  <1>0. ASSUME NEW w \in Word PROVE Short(w) \in U32
    <2>1. 0 \in Word
      BY DEF Word
    <2> QED BY <2>1, SMTT(30) DEF Short, U32
  <1>1. ASSUME NEW x \in U8 PROVE Short(x) \in U32
    <2>1. x \in Word
      BY DEF U8, Word
    <2> QED BY <2>1, <1>0
  <1>2. Short(50) \in U32 /\ FIRMWARE_VERSION \in U32 /\ Short(61154) \in U32
    <2>1. 50 \in Word /\ 768 \in Word /\ 61154 \in Word
      BY DEF Word
    <2> QED BY <2>1, <1>0 DEF FIRMWARE_VERSION
  <1>3. \A id \in Params : DefaultValue(id) \in U32
    BY <1>2, ZeroTypes DEF DefaultValue
  <1>4. InitialData \in [Params -> U32]
    BY <1>3 DEF InitialData
  <1>5. Short(HwVersion) \in U32 /\ Short(ResetCause) \in U32
    BY <1>1, ConstantsAssumption
  <1>6. BufferWrite(InitialData, HW_VERSION, Short(HwVersion)) \in [Params -> U32]
    BY <1>4, <1>5, BufferWriteType
  <1> QED BY <1>5, <1>6, BufferWriteType DEF StartupData

\* The types hold initially.
LEMMA TypeInit == Init => TypeInv
  <1> SUFFICES ASSUME Init PROVE TypeInv
    OBVIOUS
  <1>1. I2cTypeOK
    BY ZeroTypes DEF Init, I2cInit, I2cTypeOK, I2C_RX_BUFFER_MAX_SIZE,
       I2C_TX_BUFFER_MAX_SIZE, U8
  <1>2. UartTypeOK
    BY ZeroTypes DEF Init, UartInit, UartTypeOK, UART_RX_BUFFER_MAX_SIZE,
       WRITE_COMMAND_MAX_SIZE
  <1>3. eps_data \in [Params -> U32]
    BY StartupDataType DEF Init
  <1>4. ServerTypeOK
    BY <1>3, ZeroTypes DEF Init, ServerTypeOK, EmptyBuf, Links
  <1>5. PeersTypeOK
    BY ZeroTypes DEF Init, PeersTypeOK, ObdhState, TtcState, StoreState
  <1>6. HistoryTypeOK
    BY ZeroTypes DEF Init, HistoryTypeOK, Links
  <1>7. ttc.pos < TtcSize(ttc.req)
    BY SizeValue DEF Init, TtcSize
  <1> QED BY <1>1, <1>2, <1>4, <1>5, <1>6, <1>7 DEF TypeInv, TypeOK

\* What the decoders and the OBDH make of the bytes they have is a frame.
LEMMA DecodedType == ASSUME TypeOK PROVE Decoded \in Frame
  <1>1. \A i \in 0..5 : buf[i] \in Byte
    BY DEF TypeOK, ServerTypeOK, PeersTypeOK, ObdhState
  <1>2. "write" \in Commands /\ "read" \in Commands
    BY DEF Commands
  <1> QED BY <1>1, <1>2, DecodedAsType, ZeroTypes
       DEF Decoded, ObdhDecode, TtcDecode

\* What the decoders make of the received bytes is a command.
LEMMA AcceptedType == ASSUME TypeOK PROVE Accepted \in Frame
  <1> DEFINE bytes == [i \in 0..5 |-> obdh.got[i + 1]]
  <1>1. CASE Len(obdh.got) < OBDH_COMMAND_WRITE_SIZE
    BY <1>1, ZeroTypes DEF Accepted
  <1>2. CASE ~(Len(obdh.got) < OBDH_COMMAND_WRITE_SIZE)
    <2>1. obdh.got \in Seq(Byte)
      BY DEF TypeOK, ServerTypeOK, PeersTypeOK, ObdhState
    <2>2. \A i \in 0..5 : bytes[i] \in Byte
      BY <1>2, <2>1 DEF OBDH_COMMAND_WRITE_SIZE
    <2>3. "answer" \in Commands
      BY DEF Commands
    <2>4. ObdhDecodeAs("answer", bytes, 5) \in Frame
      BY <2>2, <2>3, DecodedAsType
    <2> QED BY <1>2, <2>4, ZeroTypes DEF Accepted
  <1> QED BY <1>1, <1>2

\* What a step leaves alone keeps its type.
LEMMA I2cFrame == ASSUME I2cTypeOK, UNCHANGED i2cVars PROVE I2cTypeOK'
  BY DEF I2cTypeOK, i2cVars, rxVars, txVars

\* A step that leaves the UART driver alone keeps its types.
LEMMA UartFrame == ASSUME UartTypeOK, UNCHANGED uartVars PROVE UartTypeOK'
  BY DEF UartTypeOK, uartVars

\* A step that leaves the OBDH and the TTC alone keeps their types.
LEMMA PeersFrame ==
    ASSUME PeersTypeOK, UNCHANGED <<obdh, ttc, sensor>>
    PROVE  PeersTypeOK'
  BY DEF PeersTypeOK

\* A step that leaves the histories alone keeps their types.
LEMMA HistoryFrame == ASSUME HistoryTypeOK, UNCHANGED historyVars
                      PROVE  HistoryTypeOK'
  BY DEF HistoryTypeOK, historyVars

\* A step that leaves the server task alone keeps its types.
LEMMA ServerFrame ==
    ASSUME ServerTypeOK, UNCHANGED <<eps_data, notification, serverVars>>
    PROVE  ServerTypeOK'
  BY DEF ServerTypeOK, serverVars

\* A step of the server keeps the types.
LEMMA TypeServer == ASSUME TypeOK, Server PROVE TypeOK'
  <1> USE DEF TypeOK
  <1>1. CASE Wake
    <2>1. ServerTypeOK'
      BY <1>1, ZeroTypes DEF Wake, ServerTypeOK, Links
    <2> QED BY <1>1, <2>1, I2cFrame, UartFrame, PeersFrame, HistoryFrame DEF Wake
  <1>2. CASE CallCopy
    <2>1. DataSize \in 0..15
      BY DEF DataSize, I2cTypeOK, UartTypeOK, I2C_RX_BUFFER_MAX_SIZE,
         READ_COMMAND_MAX_SIZE, WRITE_COMMAND_MAX_SIZE
    <2>2. ServerTypeOK'
      BY <1>2, <2>1 DEF CallCopy, ServerTypeOK
    <2> QED BY <1>2, <2>2, I2cFrame, UartFrame, PeersFrame, HistoryFrame
         DEF CallCopy
  <1>3. CASE CopyByte
    <2>1. copied \in 0..15 /\ copied + 1 \in 0..15
      BY <1>3 DEF CopyByte, ServerTypeOK
    <2>2. RxByte(copied) \in Byte
      BY <2>1 DEF RxByte, I2cTypeOK, UartTypeOK, I2C_RX_BUFFER_MAX_SIZE,
         UART_RX_BUFFER_MAX_SIZE
    <2>3. ServerTypeOK'
      BY <1>3, <2>1, <2>2 DEF CopyByte, ServerTypeOK
    <2> QED BY <1>3, <2>3, I2cFrame, UartFrame, PeersFrame, HistoryFrame
         DEF CopyByte
  <1>4. CASE FetchSize
    <2>1. DataSize \in 0..15
      BY DEF DataSize, I2cTypeOK, UartTypeOK, I2C_RX_BUFFER_MAX_SIZE,
         READ_COMMAND_MAX_SIZE, WRITE_COMMAND_MAX_SIZE
    <2>2. ServerTypeOK'
      BY <1>4, <2>1 DEF FetchSize, ServerTypeOK
    <2> QED BY <1>4, <2>2, I2cFrame, UartFrame, PeersFrame, HistoryFrame
         DEF FetchSize
  <1>5. CASE RejectCommand
    <2>1. ServerTypeOK'
      BY <1>5, ZeroTypes DEF RejectCommand, Return, ServerTypeOK, EmptyBuf
    <2> QED BY <1>5, <2>1, I2cFrame, UartFrame, PeersFrame, HistoryFrame
         DEF RejectCommand
  <1>6. CASE ExecuteWrite
    <2>1. Decoded \in Frame /\ Decoded.val \in U32
      BY DecodedType DEF Frame
    <2>2. eps_data' \in [Params -> U32]
      BY <1>6, <2>1, BufferWriteType DEF ExecuteWrite, ServerTypeOK
    <2>3. ServerTypeOK'
      BY <1>6, <2>1, <2>2, ZeroTypes
         DEF ExecuteWrite, Return, Executed, ServerTypeOK, EmptyBuf
    <2>4. HistoryTypeOK'
      BY <1>6, <2>2 DEF ExecuteWrite, Executed, Track, HistoryTypeOK
    <2> QED BY <1>6, <2>3, <2>4, I2cFrame, UartFrame, PeersFrame
         DEF ExecuteWrite
  <1>7. CASE ExecuteRead
    <2>1. Decoded \in Frame /\ Decoded.adr \in U8
      BY DecodedType DEF Frame
    <2>2. reply' \in Frame
      <3>1. CASE Decoded.adr \in Params /\ source = "I2C"
        <4>1. BufferRead(eps_data, Decoded.adr) \in U32
          BY <3>1 DEF BufferRead, ServerTypeOK
        <4> QED BY <1>7, <2>1, <3>1, <4>1 DEF ExecuteRead, Frame, Commands
      <3>2. CASE ~(Decoded.adr \in Params /\ source = "I2C")
        BY <1>7, <3>2, ZeroTypes DEF ExecuteRead, Return
      <3> QED BY <3>1, <3>2
    <2>3. ServerTypeOK'
      BY <1>7, <2>1, <2>2, ZeroTypes
         DEF ExecuteRead, Return, Executed, ServerTypeOK, EmptyBuf
    <2>4. HistoryTypeOK'
      BY <1>7, <2>2 DEF ExecuteRead, Executed, HistoryTypeOK
    <2> QED BY <1>7, <2>3, <2>4, I2cFrame, UartFrame, PeersFrame DEF ExecuteRead
  <1>8. CASE StoreReplyByte
    <2>1. copied \in 0..5 /\ copied + 1 \in 0..15
      BY <1>8 DEF StoreReplyByte, ServerTypeOK, OBDH_COMMAND_WRITE_SIZE
    <2>2. ByteAt(reply, copied) \in Byte
      BY <2>1, ByteAtType DEF ServerTypeOK
    <2>3. I2cTypeOK'
      BY <1>8, <2>1, <2>2 DEF StoreReplyByte, StoreTxByte, I2cTypeOK, rxVars,
         I2C_TX_BUFFER_MAX_SIZE
    <2>4. ServerTypeOK'
      BY <1>8, <2>1 DEF StoreReplyByte, ServerTypeOK
    <2> QED BY <1>8, <2>3, <2>4, UartFrame, PeersFrame, HistoryFrame
         DEF StoreReplyByte
  <1>9. CASE StoreReplySize
    <2>1. I2cTypeOK'
      BY <1>9 DEF StoreReplySize, StoreTxSize, I2cTypeOK, rxVars
    <2>2. ServerTypeOK'
      BY <1>9 DEF StoreReplySize, ServerTypeOK
    <2> QED BY <1>9, <2>1, <2>2, UartFrame, PeersFrame, HistoryFrame
         DEF StoreReplySize
  <1>10. CASE ResetReplyIndex
    <2>1. I2cTypeOK'
      BY <1>10 DEF ResetReplyIndex, ResetTxIndex, I2cTypeOK, rxVars, U8
    <2>2. ServerTypeOK'
      BY <1>10, ZeroTypes DEF ResetReplyIndex, Return, ServerTypeOK, EmptyBuf
    <2> QED BY <1>10, <2>1, <2>2, UartFrame, PeersFrame, HistoryFrame
         DEF ResetReplyIndex
  <1> QED BY <1>1, <1>2, <1>3, <1>4, <1>5, <1>6, <1>7, <1>8, <1>9, <1>10
       DEF Server

\* A step of the OBDH keeps the types.
LEMMA TypeObdh == ASSUME TypeOK, Obdh PROVE TypeOK'
  <1> USE DEF TypeOK
  <1>1. ASSUME NEW f \in ObdhRequests, ObdhStart(f) PROVE TypeOK'
    <2>1. f \in Frame
      BY ConstantsAssumption DEF Request
    <2>2. PeersTypeOK'
      <3>1. 0 \in 0..6 /\ <<>> \in Seq(Byte)
        OBVIOUS
      <3>2. obdh' \in ObdhState
        BY <1>1, <2>1, <3>1, Zenon DEF ObdhStart, PeersTypeOK, ObdhState
      <3> QED BY <1>1, <3>2 DEF ObdhStart, PeersTypeOK
    <2>3. HistoryTypeOK'
      BY <1>1, <2>1, ZeroTypes DEF ObdhStart, HistoryTypeOK, Links
    <2> QED BY <1>1, <2>2, <2>3, I2cFrame, UartFrame, ServerFrame DEF ObdhStart
  <1>2. CASE ObdhSendByte
    <2>1. obdh.pos + 1 \in 0..6 /\ obdh.pos \in Nat
      BY <1>2, SizeValue DEF ObdhSendByte, PeersTypeOK, ObdhState
    <2>2. ByteAt(obdh.req, obdh.pos) \in Byte
      BY <2>1, ByteAtType DEF PeersTypeOK, ObdhState
    <2>3. I2cTypeOK'
      BY <1>2, <2>2 DEF ObdhSendByte, IsrReceive, I2cTypeOK, txVars,
         I2C_RX_BUFFER_MAX_SIZE
    <2>4. PeersTypeOK'
      BY <1>2, <2>1 DEF ObdhSendByte, PeersTypeOK, ObdhState
    <2> QED BY <1>2, <2>3, <2>4, UartFrame, ServerFrame, HistoryFrame
         DEF ObdhSendByte
  <1>3. CASE ObdhStop
    <2>1. I2cTypeOK'
      BY <1>3 DEF ObdhStop, IsrStop, I2cTypeOK, txVars, I2C_RX_BUFFER_MAX_SIZE
    <2>2. PeersTypeOK'
      <3>1. obdh' \in ObdhState
        BY <1>3, Zenon DEF ObdhStop, PeersTypeOK, ObdhState
      <3> QED BY <1>3, <3>1 DEF ObdhStop, PeersTypeOK
    <2>3. ServerTypeOK'
      BY <1>3 DEF ObdhStop, ServerTypeOK, serverVars, Links
    <2>4. HistoryTypeOK'
      BY <1>3 DEF ObdhStop, HistoryTypeOK, ServerTypeOK
    <2> QED BY <1>3, <2>1, <2>2, <2>3, <2>4, UartFrame DEF ObdhStop
  <1>4. CASE ObdhReadStart
    <2>1. PeersTypeOK'
      <3>1. obdh.reads + 1 \in Nat /\ <<>> \in Seq(Byte)
        BY DEF PeersTypeOK, ObdhState
      <3>2. obdh' \in ObdhState
        BY <1>4, <3>1, Zenon DEF ObdhReadStart, PeersTypeOK, ObdhState
      <3> QED BY <1>4, <3>2 DEF ObdhReadStart, PeersTypeOK
    <2> QED BY <1>4, <2>1, I2cFrame, UartFrame, ServerFrame, HistoryFrame
         DEF ObdhReadStart
  <1>5. CASE ObdhReadByte
    <2>1. PICK b \in TransmittedByte : obdh' = [obdh EXCEPT !.got = Append(@, b)]
      BY <1>5 DEF ObdhReadByte
    <2>2. b \in Byte
      <3>1. 255 \in Byte
        BY DEF Byte, U8
      <3>2. i2c_tx_buffer_index < 16 => i2c_tx_buffer_index \in 0..15
        BY DEF I2cTypeOK, U8
      <3>3. i2c_tx_buffer \in [0..15 -> Byte]
        BY DEF I2cTypeOK, I2C_TX_BUFFER_MAX_SIZE
      <3> QED BY <3>1, <3>2, <3>3, ZeroTypes
           DEF TransmittedByte, I2C_TX_BUFFER_MAX_SIZE
    <2>3. PeersTypeOK'
      <3>1. Append(obdh.got, b) \in Seq(Byte)
        BY <2>2 DEF PeersTypeOK, ObdhState
      <3>2. obdh' \in ObdhState
        BY <2>1, <3>1, Zenon DEF PeersTypeOK, ObdhState
      <3> QED BY <1>5, <3>2 DEF ObdhReadByte, PeersTypeOK
    <2>4. I2cTypeOK'
      <3>1. (i2c_tx_buffer_index + 1) % 256 \in U8 /\ 0 \in U8
        BY DEF I2cTypeOK, U8
      <3> QED BY <1>5, <3>1 DEF ObdhReadByte, IsrTransmit, I2cTypeOK, rxVars
    <2> QED BY <1>5, <2>3, <2>4, UartFrame, ServerFrame, HistoryFrame
         DEF ObdhReadByte
  <1>6. CASE ObdhReadStop
    <2>1. I2cTypeOK'
      BY <1>6 DEF ObdhReadStop, IsrStop, I2cTypeOK, txVars,
         I2C_RX_BUFFER_MAX_SIZE
    <2>2. PeersTypeOK'
      <3>1. <<>> \in Seq(Byte)
        OBVIOUS
      <3>2. /\ obdh' = [[[obdh EXCEPT !.mode = "wait"] EXCEPT !.got = <<>>]
                             EXCEPT !.again = TRUE]
            /\ obdh \in ObdhState
        BY <1>6 DEF ObdhReadStop, PeersTypeOK
      <3>3. [obdh EXCEPT !.mode = "wait"] \in ObdhState
        BY <3>2, Zenon DEF ObdhState
      <3>4. [[obdh EXCEPT !.mode = "wait"] EXCEPT !.got = <<>>] \in ObdhState
        BY <3>1, <3>3, Zenon DEF ObdhState
      <3>5. TRUE \in BOOLEAN
        OBVIOUS
      <3>6. obdh' \in ObdhState
        BY <3>2, <3>4, <3>5, Zenon DEF ObdhState
      <3> QED BY <1>6, <3>6 DEF ObdhReadStop, PeersTypeOK
    <2>3. ServerTypeOK'
      BY <1>6 DEF ObdhReadStop, ServerTypeOK, serverVars, Links
    <2>4. HistoryTypeOK'
      BY <1>6, AcceptedType, ZeroTypes DEF ObdhReadStop, HistoryTypeOK
    <2> QED BY <1>6, <2>1, <2>2, <2>3, <2>4, UartFrame DEF ObdhReadStop
  <1> QED BY <1>1, <1>2, <1>3, <1>4, <1>5, <1>6 DEF Obdh

\* A byte on the UART keeps the types of its driver.
LEMMA TypeReceive ==
    ASSUME TypeOK, NEW b \in Byte, Receive(b)
    PROVE  UartTypeOK' /\ notification' \subseteq Links
  <1>1. FirstByte(b) \in Byte
    BY DEF FirstByte, TypeOK, UartTypeOK, UART_RX_BUFFER_MAX_SIZE
  <1>2. uart_rx_buffer' \in [0..15 -> Byte]
    <2>1. /\ uart_rx_buffer \in [0..15 -> Byte]
          /\ uart_rx_buffer' =
                 [uart_rx_buffer EXCEPT ![uart_rx_buffer_index] = b]
      BY DEF Receive, IsrByte, TypeOK, UartTypeOK, UART_RX_BUFFER_MAX_SIZE
    <2> QED BY <2>1, Zenon
  <1>3. uart_rx_buffer_index' \in 0..8
    BY DEF Receive, IsrByte, Completes, TypeOK, UartTypeOK,
       WRITE_COMMAND_MAX_SIZE, READ_COMMAND_MAX_SIZE
  <1>4. uart_rx_data_size' \in {0, 4, 7}
    BY DEF Receive, IsrByte, TypeOK, UartTypeOK,
       WRITE_COMMAND_MAX_SIZE, READ_COMMAND_MAX_SIZE
  <1>5. UartTypeOK'
    BY <1>2, <1>3, <1>4 DEF UartTypeOK, UART_RX_BUFFER_MAX_SIZE,
       WRITE_COMMAND_MAX_SIZE, READ_COMMAND_MAX_SIZE
  <1>6. notification' \subseteq Links
    BY DEF Receive, TypeOK, ServerTypeOK, Links
  <1> QED BY <1>5, <1>6

\* Every step of the TTC and of its UART interrupt keeps the types.
LEMMA TypeTtc == ASSUME TypeInv, Ttc PROVE TypeInv'
  <1> USE DEF TypeInv
  <1>0. ttc \in TtcState /\ ttc.req \in Frame /\ ttc.pos \in 0..6
        /\ ttc.spare \in Nat
    BY DEF TypeOK, PeersTypeOK, TtcState
  <1>1. ASSUME NEW f \in TtcRequests, TtcStart(f) PROVE TypeInv'
    <2>1. f \in Frame
      BY ConstantsAssumption DEF Request
    <2>2. UartTypeOK' /\ notification' \subseteq Links
      BY <1>1, <2>1, TtcByteAtType, TypeReceive DEF TtcStart
    <2>3. ttc' \in TtcState /\ ttc'.pos = 1 /\ ttc'.req = f
      <3>1. 1 \in 0..6
        OBVIOUS
      <3> QED BY <1>1, <1>0, <2>1, <3>1, Zenon DEF TtcStart, TtcState
    <2>4. ttc'.pos < TtcSize(ttc'.req)
      BY <2>3, SizeValue DEF TtcSize
    <2>5. HistoryTypeOK'
      BY <1>1, <2>1 DEF TtcStart, TypeOK, HistoryTypeOK, Links
    <2>6. ServerTypeOK'
      BY <1>1, <2>2 DEF TtcStart, TypeOK, ServerTypeOK, serverVars
    <2>7. PeersTypeOK'
      BY <1>1, <2>3 DEF TtcStart, TypeOK, PeersTypeOK
    <2> QED BY <1>1, <2>2, <2>4, <2>5, <2>6, <2>7, I2cFrame DEF TtcStart, TypeOK
  <1>2. CASE TtcSendByte
    <2>1. PICK next \in {0, ttc.pos + 1} \ {TtcSize(ttc.req)} :
             ttc' = [ttc EXCEPT !.pos = next,
                                !.whole = ttc.pos + 1 = TtcSize(ttc.req)]
      BY <1>2, Zenon DEF TtcSendByte
    <2>2. ttc.pos \in Nat /\ TtcByteAt(ttc.req, ttc.pos) \in Byte
      BY <1>0, TtcByteAtType
    <2>3. UartTypeOK' /\ notification' \subseteq Links
      BY <1>2, <2>2, TypeReceive DEF TtcSendByte
    <2>4. TtcSize(ttc.req) \in {3, 7}
      BY SizeValue DEF TtcSize
    <2>5. next \in 0..6 /\ next < TtcSize(ttc.req)
      BY <1>0, <2>1, <2>4
    <2>6. (ttc.pos + 1 = TtcSize(ttc.req)) \in BOOLEAN
      OBVIOUS
    <2>7. ttc' \in TtcState /\ ttc'.pos = next /\ ttc'.req = ttc.req
      BY <1>0, <2>1, <2>5, <2>6, Zenon DEF TtcState
    <2>8. ttc'.pos < TtcSize(ttc'.req)
      BY <2>5, <2>7
    <2>9. ServerTypeOK'
      BY <1>2, <2>3 DEF TtcSendByte, TypeOK, ServerTypeOK, serverVars
    <2>10. PeersTypeOK'
      BY <1>2, <2>7 DEF TtcSendByte, TypeOK, PeersTypeOK
    <2> QED BY <1>2, <2>3, <2>8, <2>9, <2>10, I2cFrame, HistoryFrame
         DEF TtcSendByte, TypeOK
  <1>3. CASE TtcSpareByte
    <2>1. UartTypeOK' /\ notification' \subseteq Links
      BY <1>3, ZeroTypes, TypeReceive DEF TtcSpareByte
    <2>2. ttc' \in TtcState /\ ttc'.pos = ttc.pos /\ ttc'.req = ttc.req
      BY <1>0, <1>3 DEF TtcSpareByte, TtcState
    <2>3. ServerTypeOK'
      BY <1>3, <2>1 DEF TtcSpareByte, TypeOK, ServerTypeOK, serverVars
    <2>4. PeersTypeOK'
      BY <1>3, <2>2 DEF TtcSpareByte, TypeOK, PeersTypeOK
    <2> QED BY <1>3, <2>1, <2>2, <2>3, <2>4, I2cFrame, HistoryFrame
         DEF TtcSpareByte, TypeOK
  <1> QED BY <1>1, <1>2, <1>3 DEF Ttc

\* The stores of ReadSensors keep the types.
LEMMA TypeReadSensors == ASSUME TypeOK, ReadSensors PROVE TypeOK'
  <1>0. /\ sensor \in StoreState /\ eps_data \in [Params -> U32]
        /\ held \subseteq U32
    BY DEF TypeOK, PeersTypeOK, ServerTypeOK, HistoryTypeOK
  <1>1. ASSUME NEW w \in SensorWrites, SensorStore(w) PROVE TypeOK'
    <2>1. w.adr \in Params /\ w.val \in U32
      BY ConstantsAssumption
    <2>2. Truncate(w.adr, w.val) \in U32 /\ eps_data[w.adr] \in U32
      BY <1>0, <2>1, TruncateType
    <2>3. eps_data' \in [Params -> U32] /\ sensor' \in StoreState
      <3>1. CASE w.adr \in Uint32Ids
        <4>1. PICK first \in {"hi", "lo"} :
                /\ eps_data' = [eps_data EXCEPT ![w.adr] =
                     [hi |-> IF first = "hi" THEN Truncate(w.adr, w.val).hi
                             ELSE eps_data[w.adr].hi,
                      lo |-> IF first = "lo" THEN Truncate(w.adr, w.val).lo
                             ELSE eps_data[w.adr].lo]]
                /\ sensor' = [adr |-> w.adr, val |-> Truncate(w.adr, w.val),
                              first |-> first, writes |-> sensor.writes + 1]
          BY <1>1, <3>1 DEF SensorStore
        <4>2. [hi |-> IF first = "hi" THEN Truncate(w.adr, w.val).hi
                      ELSE eps_data[w.adr].hi,
               lo |-> IF first = "lo" THEN Truncate(w.adr, w.val).lo
                      ELSE eps_data[w.adr].lo] \in U32
          BY <2>2 DEF U32
        <4>3. eps_data' \in [Params -> U32]
          BY <1>0, <4>1, <4>2, Zenon
        <4>4. sensor' \in StoreState
          BY <1>0, <2>1, <2>2, <4>1 DEF StoreState
        <4> QED BY <4>3, <4>4
      <3>2. CASE w.adr \notin Uint32Ids
        <4>1. /\ eps_data' = [eps_data EXCEPT ![w.adr] = Truncate(w.adr, w.val)]
              /\ sensor' = [sensor EXCEPT !.writes = @ + 1]
          BY <1>1, <3>2 DEF SensorStore
        <4>2. eps_data' \in [Params -> U32]
          BY <1>0, <2>2, <4>1, Zenon
        <4>3. sensor' \in StoreState
          BY <1>0, <4>1 DEF StoreState
        <4> QED BY <4>2, <4>3
      <3> QED BY <3>1, <3>2
    <2>4. held' \subseteq U32
      BY <1>0, <1>1, <2>3 DEF SensorStore, Track
    <2>5. ServerTypeOK'
      BY <1>1, <2>3 DEF SensorStore, TypeOK, ServerTypeOK, serverVars
    <2>6. PeersTypeOK'
      BY <1>1, <2>3 DEF SensorStore, TypeOK, PeersTypeOK
    <2>7. HistoryTypeOK'
      BY <1>1, <2>4 DEF SensorStore, TypeOK, HistoryTypeOK
    <2> QED BY <1>1, <2>5, <2>6, <2>7, I2cFrame, UartFrame DEF SensorStore, TypeOK
  <1>2. CASE SensorStoreRest
    <2>1. sensor.adr \in Params /\ sensor.val \in U32 /\ sensor.writes \in Nat
      BY <1>0, <1>2 DEF SensorStoreRest, Storing, StoreState
    <2>2. [hi |-> IF sensor.first = "lo" THEN sensor.val.hi
                  ELSE eps_data[sensor.adr].hi,
           lo |-> IF sensor.first = "hi" THEN sensor.val.lo
                  ELSE eps_data[sensor.adr].lo] \in U32
      BY <1>0, <2>1 DEF U32
    <2>3. eps_data' \in [Params -> U32]
      BY <1>0, <1>2, <2>2, Zenon DEF SensorStoreRest
    <2>4. sensor' \in StoreState
      BY <1>2, <2>1, ZeroTypes DEF SensorStoreRest, StoreState
    <2>5. held' \subseteq U32
      BY <1>0, <1>2, <2>3 DEF SensorStoreRest, Track
    <2>6. ServerTypeOK'
      BY <1>2, <2>3 DEF SensorStoreRest, TypeOK, ServerTypeOK, serverVars
    <2>7. PeersTypeOK'
      BY <1>2, <2>4 DEF SensorStoreRest, TypeOK, PeersTypeOK
    <2>8. HistoryTypeOK'
      BY <1>2, <2>5 DEF SensorStoreRest, TypeOK, HistoryTypeOK
    <2> QED BY <1>2, <2>6, <2>7, <2>8, I2cFrame, UartFrame
         DEF SensorStoreRest, TypeOK
  <1> QED BY <1>1, <1>2 DEF ReadSensors

-----------------------------------------------------------------------------
(* What the steps of each actor leave alone.                               *)

LEMMA ServerFootprint ==
    ASSUME Server
    PROVE  UNCHANGED <<rxVars, uartVars, obdh, ttc, sensor, log, answer>>
  <1>1. CASE Wake \/ CallCopy
    BY <1>1 DEF Wake, CallCopy, i2cVars, historyVars
  <1>2. CASE CopyByte \/ FetchSize
    BY <1>2 DEF CopyByte, FetchSize, i2cVars, historyVars
  <1>3. CASE RejectCommand
    BY <1>3 DEF RejectCommand, i2cVars, historyVars
  <1>4. CASE ExecuteWrite
    BY <1>4 DEF ExecuteWrite, i2cVars
  <1>5. CASE ExecuteRead
    BY <1>5 DEF ExecuteRead, i2cVars
  <1>6. CASE StoreReplyByte
    BY <1>6 DEF StoreReplyByte, StoreTxByte, historyVars
  <1>7. CASE StoreReplySize
    BY <1>7 DEF StoreReplySize, StoreTxSize, historyVars
  <1>8. CASE ResetReplyIndex
    BY <1>8 DEF ResetReplyIndex, ResetTxIndex, historyVars
  <1> QED BY <1>1, <1>2, <1>3, <1>4, <1>5, <1>6, <1>7, <1>8 DEF Server

\* What no step of the OBDH or of the I2C interrupt changes.
LEMMA ObdhFootprint ==
    ASSUME Obdh
    PROVE  UNCHANGED <<uartVars, serverVars, ttc, sensor, given, i2c_tx_buffer>>
  <1>1. ASSUME NEW f, ObdhStart(f)
        PROVE  UNCHANGED <<uartVars, serverVars, ttc, sensor, given, i2c_tx_buffer>>
    BY <1>1 DEF ObdhStart, i2cVars, txVars
  <1>2. CASE ObdhSendByte
    BY <1>2 DEF ObdhSendByte, IsrReceive, historyVars, txVars
  <1>3. CASE ObdhStop
    BY <1>3 DEF ObdhStop, IsrStop, txVars
  <1>4. CASE ObdhReadStart
    BY <1>4 DEF ObdhReadStart, historyVars, i2cVars, txVars
  <1>5. CASE ObdhReadByte
    BY <1>5 DEF ObdhReadByte, IsrTransmit, historyVars
  <1>6. CASE ObdhReadStop
    BY <1>6 DEF ObdhReadStop, IsrStop, txVars
  <1> QED BY <1>1, <1>2, <1>3, <1>4, <1>5, <1>6 DEF Obdh

\* What no step of the TTC or of the UART interrupt changes.
LEMMA TtcFootprint ==
    ASSUME Ttc
    PROVE  UNCHANGED <<i2cVars, serverVars, obdh, sensor, given, answer,
                       eps_data, held, served>>
  <1>1. ASSUME NEW f, TtcStart(f)
        PROVE  UNCHANGED <<i2cVars, serverVars, obdh, sensor, given, answer,
                           eps_data, held, served>>
    BY <1>1 DEF TtcStart
  <1>2. CASE TtcSendByte
    BY <1>2 DEF TtcSendByte, historyVars
  <1>3. CASE TtcSpareByte
    BY <1>3 DEF TtcSpareByte, historyVars
  <1> QED BY <1>1, <1>2, <1>3 DEF Ttc

\* What no step of the sensor task changes.
LEMMA ReadSensorsFootprint ==
    ASSUME ReadSensors
    PROVE  UNCHANGED <<i2cVars, uartVars, serverVars, obdh, ttc, log, given, answer>>
  <1>1. ASSUME NEW w, SensorStore(w)
        PROVE  UNCHANGED <<i2cVars, uartVars, serverVars, obdh, ttc, log, given,
                           answer>>
    BY <1>1 DEF SensorStore
  <1>2. CASE SensorStoreRest
    BY <1>2 DEF SensorStoreRest
  <1> QED BY <1>1, <1>2 DEF ReadSensors

-----------------------------------------------------------------------------
\* Every step keeps the types.
LEMMA TypeStep == ASSUME TypeInv, [Next]_vars PROVE TypeInv'
  <1>1. CASE Server
    BY <1>1, ServerFootprint, TypeServer DEF TypeInv
  <1>2. CASE Obdh
    BY <1>2, ObdhFootprint, TypeObdh DEF TypeInv
  <1>3. CASE Ttc
    BY <1>3, TypeTtc
  <1>4. CASE ReadSensors
    BY <1>4, ReadSensorsFootprint, TypeReadSensors DEF TypeInv
  <1>5. CASE UNCHANGED vars
    BY <1>5, I2cFrame, UartFrame, ServerFrame, PeersFrame, HistoryFrame
       DEF vars, TypeInv, TypeOK
  <1> QED BY <1>1, <1>2, <1>3, <1>4, <1>5 DEF Next

\* Every variable keeps its type, for every set of requests and every bound;
\* no index of a handler or of the server's memcpy leaves its buffer.
THEOREM TypeCorrect == Spec => []TypeOK
  <1>1. Spec => []TypeInv
    BY TypeInit, TypeStep, PTL DEF Spec
  <1>2. TypeInv => TypeOK
    BY DEF TypeInv
  <1> QED BY <1>1, <1>2, PTL

-----------------------------------------------------------------------------
(* What is sent whole is decoded as it was sent.                           *)

\* The bytes of a frame, one by one.
LEMMA FrameBytes ==
    ASSUME NEW f \in Frame
    PROVE  /\ ByteAt(f, 0) = f.adr /\ ByteAt(f, Size(f) - 1) = Crc(f)
           /\ Size(f) = 6 => /\ ByteAt(f, 1) = f.val.hi \div 256
                             /\ ByteAt(f, 2) = f.val.hi % 256
                             /\ ByteAt(f, 3) = f.val.lo \div 256
                             /\ ByteAt(f, 4) = f.val.lo % 256
  <1>1. Size(f) \in {2, 6}
    BY SizeValue
  <1>2. CASE Size(f) = 2
    BY <1>2 DEF ByteAt
  <1>3. CASE Size(f) = 6
    BY <1>3 DEF ByteAt
  <1> QED BY <1>1, <1>2, <1>3

\* A word is the number its two bytes make, ...
LEMMA WordRejoined == ASSUME NEW w \in Word
                      PROVE  256 * (w \div 256) + (w % 256) = w
  <1>1. w \in Int
    BY DEF Word
  <1> QED BY <1>1

\* ... and these bytes are those it was made of.
LEMMA BytesOfWord ==
    ASSUME NEW x \in U8, NEW y \in U8
    PROVE  (256 * x + y) \div 256 = x /\ (256 * x + y) % 256 = y
  <1>1. x \in Int /\ y \in Int
    BY DEF U8
  <1>2. 0 <= y /\ y <= 255
    BY <1>1, InU8
  <1> QED BY <1>1, <1>2

\* Six bytes that are those of a long frame are put together to that frame.
LEMMA AssembledSent ==
    ASSUME NEW f \in Frame, Size(f) = 6, f.cmd # "read", NEW bytes,
           \A i \in 0..5 : bytes[i] = ByteAt(f, i)
    PROVE  ObdhDecodeAs(f.cmd, bytes, 5) = f
  <1>1. /\ f.adr \in U8 /\ f.val \in U32 /\ f.val.hi \in Word /\ f.val.lo \in Word
        /\ f = [cmd |-> f.cmd, adr |-> f.adr, val |-> f.val]
        /\ f.val = [hi |-> f.val.hi, lo |-> f.val.lo]
    BY DEF Frame, U32
  <1>2. /\ bytes[0] = f.adr /\ bytes[5] = Crc(f)
        /\ bytes[1] = f.val.hi \div 256 /\ bytes[2] = f.val.hi % 256
        /\ bytes[3] = f.val.lo \div 256 /\ bytes[4] = f.val.lo % 256
    BY FrameBytes
  <1>3. /\ 256 * (f.val.hi \div 256) + (f.val.hi % 256) = f.val.hi
        /\ 256 * (f.val.lo \div 256) + (f.val.lo % 256) = f.val.lo
    BY <1>1, WordRejoined
  <1>4. Assembled(f.cmd, bytes, 0) = f
    BY <1>1, <1>2, <1>3 DEF Assembled
  <1> QED BY <1>2, <1>4 DEF ObdhDecodeAs

\* What is sent whole is decoded as it was sent.
LEMMA DecodedSent ==
    ASSUME NEW f \in Request, NEW bytes,
           \A i \in 0..Size(f) - 1 : bytes[i] = ByteAt(f, i)
    PROVE  ObdhDecode(bytes, Size(f)) = f
  <1>1. /\ f \in Frame /\ f.cmd \in {"write", "read"}
        /\ f.cmd = "read" => f.val = Zero32
    BY DEF Request
  <1>2. CASE f.cmd = "read"
    <2>1. Size(f) = 2
      BY <1>2 DEF Size, OBDH_COMMAND_READ_SIZE
    <2>2. bytes[0] = f.adr /\ bytes[1] = Crc(f)
      BY <1>1, <2>1, FrameBytes
    <2>3. f = [cmd |-> f.cmd, adr |-> f.adr, val |-> f.val]
      BY <1>1 DEF Frame
    <2>4. Assembled("read", bytes, 0) = f
      BY <1>1, <1>2, <2>2, <2>3 DEF Assembled
    <2>5. ObdhDecodeAs("read", bytes, 1) = f
      BY <2>2, <2>4 DEF ObdhDecodeAs
    <2> QED BY <2>1, <2>5
         DEF ObdhDecode, OBDH_COMMAND_WRITE_SIZE, OBDH_COMMAND_READ_SIZE
  <1>3. CASE f.cmd = "write"
    <2>1. Size(f) = 6
      BY <1>3 DEF Size, OBDH_COMMAND_WRITE_SIZE
    <2>2. ObdhDecodeAs("write", bytes, 5) = f
      BY <1>1, <1>3, <2>1, AssembledSent
    <2> QED BY <2>1, <2>2
         DEF ObdhDecode, OBDH_COMMAND_WRITE_SIZE, OBDH_COMMAND_READ_SIZE
  <1> QED BY <1>1, <1>2, <1>3

\* The bytes of a command are those it is decoded from, whatever these are.
LEMMA DecodedPieces ==
    ASSUME NEW n, NEW bytes, \A i \in 0..5 : bytes[i] \in Byte,
           ObdhDecode(bytes, n) # NoFrame
    PROVE  LET f == ObdhDecode(bytes, n)
           IN  \A i \in 0..Size(f) - 1 : i \in 0..5 /\ ByteAt(f, i) = bytes[i]
  <1>1. \A i \in 0..5 : bytes[i] \in U8
    BY DEF Byte
  <1>2. CASE n = 6
    <2> DEFINE f == Assembled("write", bytes, 0)
    <2>1. ObdhDecode(bytes, n) = f /\ bytes[5] = Crc(f)
      BY <1>2 DEF ObdhDecode, ObdhDecodeAs, OBDH_COMMAND_READ_SIZE,
                  OBDH_COMMAND_WRITE_SIZE
    <2>2. Size(f) = 6 /\ f \in Frame
      <3>1. "write" \in Commands
        BY DEF Commands
      <3>2. f \in Frame
        BY <3>1, AssembledType
      <3> QED BY <3>2 DEF Assembled, Size, OBDH_COMMAND_WRITE_SIZE
    <2>3. /\ f.adr = bytes[0]
          /\ f.val.hi = 256 * bytes[1] + bytes[2]
          /\ f.val.lo = 256 * bytes[3] + bytes[4]
      BY DEF Assembled
    <2>4. /\ bytes[1] \in U8 /\ bytes[2] \in U8
          /\ bytes[3] \in U8 /\ bytes[4] \in U8
      BY <1>1
    <2>5. /\ f.val.hi \div 256 = bytes[1] /\ f.val.hi % 256 = bytes[2]
          /\ f.val.lo \div 256 = bytes[3] /\ f.val.lo % 256 = bytes[4]
      BY <2>3, <2>4, BytesOfWord
    <2> HIDE DEF f
    <2>6. /\ ByteAt(f, 0) = bytes[0] /\ ByteAt(f, 1) = bytes[1]
          /\ ByteAt(f, 2) = bytes[2] /\ ByteAt(f, 3) = bytes[3]
          /\ ByteAt(f, 4) = bytes[4] /\ ByteAt(f, 5) = bytes[5]
      BY <2>1, <2>2, <2>3, <2>5, FrameBytes
    <2>7. \A i \in 0..5 : i \in {0, 1, 2, 3, 4, 5}
      OBVIOUS
    <2>8. \A i \in 0..5 : ByteAt(f, i) = bytes[i]
      BY <2>6, <2>7
    <2> QED BY <2>1, <2>2, <2>8
  <1>3. CASE n = 2
    <2> DEFINE f == Assembled("read", bytes, 0)
    <2>1. ObdhDecode(bytes, n) = f /\ bytes[1] = Crc(f)
      BY <1>3 DEF ObdhDecode, ObdhDecodeAs, OBDH_COMMAND_READ_SIZE,
                  OBDH_COMMAND_WRITE_SIZE
    <2>2. Size(f) = 2 /\ f \in Frame /\ f.adr = bytes[0]
      <3>1. "read" \in Commands
        BY DEF Commands
      <3>2. f \in Frame
        BY <3>1, AssembledType
      <3> QED BY <3>2 DEF Assembled, Size, OBDH_COMMAND_READ_SIZE
    <2> HIDE DEF f
    <2>3. ByteAt(f, 0) = bytes[0] /\ ByteAt(f, 1) = bytes[1]
      BY <2>1, <2>2, FrameBytes
    <2>4. \A i \in 0..1 : i \in {0, 1} /\ i \in 0..5
      OBVIOUS
    <2>5. \A i \in 0..1 : ByteAt(f, i) = bytes[i]
      BY <2>3, <2>4
    <2> QED BY <2>1, <2>2, <2>4, <2>5
  <1> QED BY <1>2, <1>3
       DEF ObdhDecode, OBDH_COMMAND_READ_SIZE, OBDH_COMMAND_WRITE_SIZE

-----------------------------------------------------------------------------
(* Delivery: with an OBDH that waits, each whole request is executed once. *)

\* The first n of these bytes are those of the request.
Sent(bytes, n) == \A i \in 0..n - 1 : bytes[i] = ByteAt(obdh.req, i)

\* While the OBDH does anything but wait the server has nothing of it to do; what
\* it has sent of a request is in the receive buffer; only a request notifies.
LinkInv ==
    /\ obdh.mode # "idle" => obdh.req \in ObdhRequests
    /\ obdh.mode # "wait" => ServerIdleFor("I2C")
    /\ obdh.mode = "send" =>
          /\ served = 0
          /\ i2c_rx_buffer_index = obdh.pos /\ obdh.pos <= Size(obdh.req)
          /\ Sent(i2c_rx_buffer, obdh.pos)
          /\ obdh.pos > 0 => i2c_slave_status = "RX"
    /\ obdh.mode # "send" => i2c_rx_buffer_index = 0
    /\ obdh.mode = "read" =>
          /\ obdh.whole /\ obdh.req.cmd = "read"
          /\ Len(obdh.got) > 0 => i2c_slave_status = "TX"

\* The request is in the receive buffer.
Received ==
    i2c_rx_data_size = Size(obdh.req) /\ Sent(i2c_rx_buffer, Size(obdh.req))

\* Where the request is before the server executes it.
Notified == "I2C" \in notification /\ (pc = "wait" \/ source # "I2C") /\ Received

Fetched ==
    \/ pc = "call" /\ Received
    \/ pc = "copy" /\ Received
         /\ count = Size(obdh.req) /\ copied <= count /\ Sent(buf, copied)
    \/ pc = "decode" /\ size = Size(obdh.req) /\ Sent(buf, size)

Serving == "I2C" \notin notification /\ source = "I2C"

Answering == Serving /\ pc \in {"store", "index"}

DeliveryInv ==
    Pending /\ obdh.whole =>
       \/ served = 0 /\ (Notified \/ (Serving /\ Fetched))
       \/ served = 1 /\ (ServerIdleFor("I2C") \/ Answering)

\* Initially nothing is sent.
LEMMA DeliveryInit == Init => LinkInv /\ DeliveryInv
  BY DEF Init, I2cInit, LinkInv, DeliveryInv, Pending, ServerIdleFor

\* A server that has nothing to do for the OBDH finds nothing.
LEMMA IdleServer ==
    ASSUME TypeOK, ServerIdleFor("I2C"), Server
    PROVE  ServerIdleFor("I2C")' /\ served' = served
  <1>1. "I2C" \notin notification
    BY DEF ServerIdleFor
  <1>2. CASE Wake
    BY <1>1, <1>2 DEF Wake, ServerIdleFor, historyVars
  <1>3. CASE pc # "wait"
    <2>1. source # "I2C"
      BY <1>3 DEF ServerIdleFor
    <2>2. CASE CallCopy \/ CopyByte \/ FetchSize
      BY <1>1, <2>1, <2>2
         DEF CallCopy, CopyByte, FetchSize, ServerIdleFor, historyVars
    <2>3. CASE RejectCommand \/ ResetReplyIndex
      BY <1>1, <2>1, <2>3
         DEF RejectCommand, ResetReplyIndex, ServerIdleFor, historyVars
    <2>4. CASE ExecuteWrite \/ ExecuteRead
      BY <1>1, <2>1, <2>4 DEF ExecuteWrite, ExecuteRead, Executed, ServerIdleFor
    <2>5. CASE StoreReplyByte \/ StoreReplySize
      BY <1>1, <2>1, <2>5
         DEF StoreReplyByte, StoreReplySize, ServerIdleFor, historyVars
    <2> QED BY <1>3, <2>2, <2>3, <2>4, <2>5 DEF Server, Wake
  <1> QED BY <1>2, <1>3
       DEF Server, CallCopy, CopyByte, FetchSize, RejectCommand, ExecuteWrite,
           ExecuteRead, StoreReplyByte, StoreReplySize, ResetReplyIndex

\* A step of the server that is not Wake stays with its link.
LEMMA ServerStays ==
    ASSUME Server, ~Wake
    PROVE  UNCHANGED <<source, notification>>
  BY DEF Server, CallCopy, CopyByte, FetchSize, RejectCommand, ExecuteWrite,
         ExecuteRead, StoreReplyByte, StoreReplySize, ResetReplyIndex, serverVars

\* The server leaves the state of the driver alone.
LEMMA ServerStatus == ASSUME Server PROVE UNCHANGED i2c_slave_status
  BY DEF Server, Wake, CallCopy, CopyByte, FetchSize, RejectCommand, ExecuteWrite,
         ExecuteRead, StoreReplyByte, StoreReplySize, ResetReplyIndex,
         StoreTxByte, StoreTxSize, ResetTxIndex, i2cVars

\* The server does not change what the link of the OBDH promises.
LEMMA LinkServer ==
    ASSUME TypeOK, LinkInv, Server
    PROVE  LinkInv'
  <1>1. UNCHANGED <<rxVars, obdh, i2c_slave_status>>
    BY ServerFootprint, ServerStatus
  <1>2. obdh.mode # "wait" => ServerIdleFor("I2C")' /\ served' = served
    BY IdleServer DEF LinkInv
  <1> QED BY <1>1, <1>2 DEF LinkInv, Sent, rxVars

\* What the OBDH sent whole and the server has in its buffer is its request.
LEMMA DecodedIsRequest ==
    ASSUME TypeOK, LinkInv, Pending, Serving, size = Size(obdh.req), Sent(buf, size)
    PROVE  /\ Decoded = obdh.req /\ Decoded # NoFrame
           /\ Decoded.cmd \in {"write", "read"}
  <1>1. obdh.req \in Request
    BY ConstantsAssumption DEF LinkInv, Pending
  <1>2. ObdhDecode(buf, Size(obdh.req)) = obdh.req
    BY <1>1, DecodedSent DEF Sent
  <1>3. Decoded = obdh.req
    BY <1>2 DEF Decoded, Serving
  <1> QED BY <1>1, <1>3 DEF Request, NoFrame

\* A step of the server takes the request one step further.
LEMMA DeliveryServer ==
    ASSUME TypeOK, LinkInv, DeliveryInv, Server
    PROVE  DeliveryInv'
  <1> SUFFICES ASSUME Pending', obdh.whole'
               PROVE  DeliveryInv'
    BY DEF DeliveryInv
  <1>1. /\ UNCHANGED <<rxVars, obdh>>
        /\ Pending /\ obdh.whole
    BY ServerFootprint DEF Pending
  <1>2. Received => Received'
    BY <1>1 DEF Received, Sent, rxVars
  <1>3. Size(obdh.req) \in {2, 6}
    BY SizeValue
  <1>4. CASE served = 0 /\ Notified /\ Wake
    <2>1. /\ "I2C" \notin notification' /\ source' = "I2C"
          /\ pc' = "call" /\ served' = 0
      BY <1>4 DEF Notified, Wake, historyVars
    <2> QED BY <1>2, <1>4, <2>1 DEF DeliveryInv, Notified, Serving, Fetched
  <1>5. CASE served = 0 /\ Notified /\ ~Wake
    <2>1. UNCHANGED <<source, notification>>
      BY <1>5, ServerStays
    <2>2. pc # "wait"
      BY <1>5 DEF Server, Wake, CallCopy, CopyByte, FetchSize, RejectCommand,
         ExecuteWrite, ExecuteRead, StoreReplyByte, StoreReplySize,
         ResetReplyIndex
    <2>3. source # "I2C"
      BY <1>5, <2>2 DEF Notified
    <2>4. served' = served
      BY <1>5, <2>3 DEF Server, Wake, CallCopy, CopyByte, FetchSize,
         RejectCommand, ExecuteWrite, ExecuteRead, Executed, StoreReplyByte,
         StoreReplySize, ResetReplyIndex, historyVars
    <2>5. Notified'
      BY <1>2, <1>5, <2>1, <2>3 DEF Notified
    <2> QED BY <1>5, <2>4, <2>5 DEF DeliveryInv
  <1>6. CASE served = 0 /\ Serving /\ pc = "call" /\ Received
    <2>1. CallCopy
      BY <1>6 DEF Server, Wake, CallCopy, CopyByte, FetchSize, RejectCommand,
         ExecuteWrite, ExecuteRead, StoreReplyByte, StoreReplySize,
         ResetReplyIndex
    <2>2. /\ UNCHANGED <<source, notification, served>>
          /\ pc' = "copy" /\ copied' = 0 /\ count' = Size(obdh.req)
      BY <1>6, <2>1 DEF CallCopy, DataSize, Serving, Received, historyVars
    <2>3. Sent(buf, copied)' /\ copied' <= count'
      BY <1>3, <2>2 DEF Sent
    <2>4. count' = Size(obdh.req)'
      BY <1>1, <2>2
    <2> QED BY <1>2, <1>6, <2>2, <2>3, <2>4 DEF DeliveryInv, Serving, Fetched
  <1>7. CASE /\ served = 0 /\ Serving /\ pc = "copy" /\ Received
             /\ count = Size(obdh.req) /\ copied <= count /\ Sent(buf, copied)
    <2>1. CASE CopyByte
      <3>1. /\ UNCHANGED <<source, notification, served, pc, count>>
            /\ buf' = [buf EXCEPT ![copied] = i2c_rx_buffer[copied]]
            /\ copied' = copied + 1 /\ copied < count
        BY <1>7, <2>1 DEF CopyByte, RxByte, Serving, historyVars
      <3>2. buf \in [0..15 -> Byte] /\ copied \in 0..5
        BY <1>3, <1>7, <3>1 DEF TypeOK, ServerTypeOK
      <3>3. ASSUME NEW i \in 0..copied
            PROVE  buf'[i] = ByteAt(obdh.req, i)
        <4>1. CASE i = copied
          BY <1>3, <1>7, <3>1, <3>2, <4>1 DEF Received, Sent
        <4>2. CASE i # copied
          BY <1>7, <3>1, <3>2, <4>2 DEF Sent
        <4> QED BY <4>1, <4>2
      <3>4. (copied + 1) - 1 = copied /\ copied + 1 <= count
        BY <1>3, <1>7, <3>1, <3>2
      <3>5. Sent(buf, copied)' /\ copied' <= count'
        BY <1>1, <3>1, <3>3, <3>4 DEF Sent
      <3> QED BY <1>1, <1>2, <1>7, <3>1, <3>5 DEF DeliveryInv, Serving, Fetched
    <2>2. CASE FetchSize
      <3>1. /\ UNCHANGED <<source, notification, served, buf>>
            /\ size' = Size(obdh.req) /\ pc' = "decode" /\ copied >= count
        BY <1>7, <2>2 DEF FetchSize, DataSize, Received, Serving, historyVars
      <3>2. copied = Size(obdh.req)
        BY <1>3, <1>7, <3>1 DEF TypeOK, ServerTypeOK
      <3>3. Sent(buf, size)' /\ size' = Size(obdh.req)'
        BY <1>1, <1>7, <3>1, <3>2 DEF Sent
      <3> QED BY <1>7, <3>1, <3>3 DEF DeliveryInv, Serving, Fetched
    <2> QED BY <1>7, <2>1, <2>2
         DEF Server, Wake, CallCopy, RejectCommand, ExecuteWrite, ExecuteRead,
             StoreReplyByte, StoreReplySize, ResetReplyIndex
  <1>8. CASE /\ served = 0 /\ Serving /\ pc = "decode" /\ size = Size(obdh.req)
             /\ Sent(buf, size)
    <2>1. Decoded # NoFrame
      BY <1>1, <1>8, DecodedIsRequest
    <2>2. ExecuteWrite \/ ExecuteRead
      BY <1>8, <2>1 DEF Server, Wake, CallCopy, CopyByte, FetchSize,
         RejectCommand, StoreReplyByte, StoreReplySize, ResetReplyIndex
    <2>3. served' = 1 /\ pc' \in {"wait", "store"}
      BY <1>8, <2>2 DEF ExecuteWrite, ExecuteRead, Executed, Return, Serving
    <2>4. UNCHANGED <<source, notification>>
      BY <2>2 DEF ExecuteWrite, ExecuteRead
    <2>5. ServerIdleFor("I2C")' \/ Answering'
      BY <1>8, <2>3, <2>4 DEF Answering, Serving, ServerIdleFor
    <2> QED BY <2>3, <2>5 DEF DeliveryInv
  <1>9. CASE served = 1 /\ ServerIdleFor("I2C")
    <2>1. ServerIdleFor("I2C")' /\ served' = served
      BY <1>9, IdleServer
    <2> QED BY <1>9, <2>1 DEF DeliveryInv
  <1>10. CASE served = 1 /\ Answering
    <2>1. StoreReplyByte \/ StoreReplySize \/ ResetReplyIndex
      BY <1>10 DEF Answering, Server, Wake, CallCopy, CopyByte, FetchSize,
         RejectCommand, ExecuteWrite, ExecuteRead
    <2>2. /\ UNCHANGED <<source, notification, served>>
          /\ pc' \in {"store", "index", "wait"}
      BY <1>10, <2>1 DEF Answering, StoreReplyByte, StoreReplySize, ResetReplyIndex,
         Return, historyVars
    <2>3. ServerIdleFor("I2C")' \/ Answering'
      BY <1>10, <2>2 DEF Answering, Serving, ServerIdleFor
    <2> QED BY <1>10, <2>2, <2>3 DEF DeliveryInv
  <1> QED BY <1>1, <1>4, <1>5, <1>6, <1>7, <1>8, <1>9, <1>10
       DEF DeliveryInv, Fetched

\* A server at rest has executed the whole request.
LEMMA RestServed ==
    ASSUME DeliveryInv, Pending, obdh.whole, ServerIdleFor("I2C")
    PROVE  served = 1
  BY DEF DeliveryInv, Notified, Serving, Fetched, ServerIdleFor

\* The same variables hold the same part of a request.
LEMMA SameIdle ==
    ASSUME UNCHANGED <<notification, pc, source>>
    PROVE  ServerIdleFor("I2C")' <=> ServerIdleFor("I2C")
  BY DEF ServerIdleFor

\* A step of an OBDH that waits for the server keeps both invariants.
LEMMA DeliveryObdh ==
    ASSUME ObdhPatient, TypeOK, LinkInv, DeliveryInv, Obdh
    PROVE  LinkInv' /\ DeliveryInv'
  <1>0. /\ UNCHANGED <<pc, source>>
        /\ obdh \in ObdhState
    BY ObdhFootprint DEF serverVars, TypeOK, PeersTypeOK
  <1>1. ASSUME NEW f \in ObdhRequests, ObdhStart(f) PROVE LinkInv' /\ DeliveryInv'
    <2>1. ServerIdleFor("I2C") /\ i2c_rx_buffer_index = 0
      BY <1>1 DEF ObdhStart, MayStart, LinkInv
    <2>2. /\ obdh'.mode = "send" /\ obdh'.req = f /\ obdh'.pos = 0
          /\ UNCHANGED <<i2c_rx_buffer_index, notification>> /\ served' = 0
      BY <1>0, <1>1 DEF ObdhStart, ObdhState, i2cVars, rxVars
    <2>3. Sent(i2c_rx_buffer, obdh.pos)'
      BY <2>2 DEF Sent
    <2>4. ServerIdleFor("I2C")' /\ 0 <= Size(f)
      BY <1>0, <2>1, <2>2, SameIdle, SizeValue
    <2> QED BY <2>1, <2>2, <2>3, <2>4 DEF LinkInv, DeliveryInv, Pending
  <1>2. CASE ObdhSendByte
    <2>1. /\ obdh.mode = "send" /\ obdh.pos < Size(obdh.req)
          /\ UNCHANGED <<notification, served>>
          /\ i2c_slave_status' = "RX"
          /\ i2c_rx_buffer' = [i2c_rx_buffer EXCEPT ![i2c_rx_buffer_index] =
                                   ByteAt(obdh.req, obdh.pos)]
          /\ i2c_rx_buffer_index' = (i2c_rx_buffer_index + 1) % 16
      BY <1>2 DEF ObdhSendByte, IsrReceive, historyVars, I2C_RX_BUFFER_MAX_SIZE
    <2>2. /\ obdh'.mode = "send" /\ obdh'.req = obdh.req
          /\ obdh'.pos = obdh.pos + 1
      BY <1>0, <1>2 DEF ObdhSendByte, ObdhState
    <2>3. /\ i2c_rx_buffer_index = obdh.pos /\ Sent(i2c_rx_buffer, obdh.pos)
          /\ served = 0 /\ ServerIdleFor("I2C") /\ obdh.req \in ObdhRequests
      BY <2>1 DEF LinkInv
    <2>4. /\ obdh.pos \in 0..5 /\ Size(obdh.req) \in {2, 6}
          /\ i2c_rx_buffer \in [0..15 -> Byte]
      BY <1>0, <2>1, SizeValue
         DEF ObdhState, TypeOK, I2cTypeOK, I2C_RX_BUFFER_MAX_SIZE
    <2>5. i2c_rx_buffer_index' = obdh.pos + 1 /\ obdh.pos + 1 <= Size(obdh.req)
      BY <2>1, <2>3, <2>4
    <2>6. ASSUME NEW i \in 0..obdh.pos
          PROVE  i2c_rx_buffer'[i] = ByteAt(obdh.req, i)
      <3>1. CASE i = obdh.pos
        BY <2>1, <2>3, <2>4, <3>1
      <3>2. CASE i # obdh.pos
        BY <2>1, <2>3, <2>4, <3>2 DEF Sent
      <3> QED BY <3>1, <3>2
    <2>7. (obdh.pos + 1) - 1 = obdh.pos
      BY <2>4
    <2>8. Sent(i2c_rx_buffer, obdh.pos)'
      BY <2>2, <2>6, <2>7 DEF Sent
    <2>9. ServerIdleFor("I2C")'
      BY <1>0, <2>1, <2>3, SameIdle
    <2> QED BY <2>1, <2>2, <2>3, <2>5, <2>8, <2>9
         DEF LinkInv, DeliveryInv, Pending
  <1>3. CASE ObdhStop
    <2>1. /\ obdh.mode = "send" /\ obdh.pos > 0 /\ obdh.req \in ObdhRequests
          /\ served = 0 /\ i2c_rx_buffer_index = obdh.pos
          /\ i2c_slave_status = "RX" /\ Sent(i2c_rx_buffer, obdh.pos)
          /\ ServerIdleFor("I2C")
      BY <1>3 DEF ObdhStop, LinkInv
    <2>2. /\ "I2C" \in notification' /\ served' = 0
          /\ i2c_rx_data_size' = obdh.pos /\ i2c_rx_buffer_index' = 0
          /\ UNCHANGED i2c_rx_buffer
      BY <1>3, <2>1 DEF ObdhStop, IsrStop, StopNotifies
    <2>3. /\ obdh'.mode = "wait" /\ obdh'.req = obdh.req
          /\ obdh'.whole = (obdh.pos = Size(obdh.req))
      BY <1>0, <1>3 DEF ObdhStop, ObdhState
    <2>4. obdh'.whole => Received'
      BY <2>1, <2>2, <2>3 DEF Received, Sent
    <2>5. (pc = "wait" \/ source # "I2C")'
      BY <1>0, <2>1 DEF ServerIdleFor
    <2>6. obdh'.whole => Notified'
      BY <2>2, <2>4, <2>5 DEF Notified
    <2>7. LinkInv'
      BY <2>1, <2>2, <2>3 DEF LinkInv
    <2> QED BY <2>2, <2>6, <2>7 DEF DeliveryInv
  <1>4. CASE ObdhReadStart
    <2>1. /\ obdh.mode = "wait" /\ obdh.req.cmd = "read" /\ obdh.whole
          /\ ServerIdleFor("I2C") /\ obdh.req \in ObdhRequests
          /\ i2c_rx_buffer_index = 0
      BY <1>4 DEF ObdhReadStart, MayStart, LinkInv
    <2>2. served = 1
      BY <2>1, RestServed DEF Pending
    <2>3. /\ obdh'.mode = "read" /\ obdh'.req = obdh.req /\ obdh'.whole
          /\ obdh'.got = <<>>
      BY <1>0, <1>4, <2>1 DEF ObdhReadStart, ObdhState
    <2>4. UNCHANGED <<i2c_rx_buffer_index, notification, served>>
      BY <1>4 DEF ObdhReadStart, i2cVars, rxVars, historyVars
    <2>5. ServerIdleFor("I2C")'
      BY <1>0, <2>1, <2>4, SameIdle
    <2> QED BY <2>1, <2>2, <2>3, <2>4, <2>5 DEF LinkInv, DeliveryInv
  <1>5. CASE ObdhReadByte
    <2>1. /\ obdh.mode = "read" /\ obdh.whole /\ obdh.req.cmd = "read"
          /\ ServerIdleFor("I2C") /\ obdh.req \in ObdhRequests
          /\ i2c_rx_buffer_index = 0
      BY <1>5 DEF ObdhReadByte, LinkInv
    <2>2. served = 1
      BY <2>1, RestServed DEF Pending
    <2>3. /\ obdh'.mode = "read" /\ obdh'.req = obdh.req /\ obdh'.whole
      BY <1>0, <1>5, <2>1 DEF ObdhReadByte, ObdhState
    <2>4. /\ UNCHANGED <<i2c_rx_buffer_index, notification, served>>
          /\ i2c_slave_status' = "TX"
      BY <1>5 DEF ObdhReadByte, IsrTransmit, rxVars, historyVars
    <2>5. ServerIdleFor("I2C")'
      BY <1>0, <2>1, <2>4, SameIdle
    <2> QED BY <2>1, <2>2, <2>3, <2>4, <2>5 DEF LinkInv, DeliveryInv
  <1>6. CASE ObdhReadStop
    <2>1. /\ obdh.mode = "read" /\ obdh.whole /\ Len(obdh.got) > 0
          /\ ServerIdleFor("I2C") /\ obdh.req \in ObdhRequests
          /\ i2c_slave_status = "TX"
      BY <1>6 DEF ObdhReadStop, LinkInv
    <2>2. served = 1
      BY <2>1, RestServed DEF Pending
    <2>3. /\ obdh'.mode = "wait" /\ obdh'.req = obdh.req /\ obdh'.whole
      BY <1>0, <1>6, <2>1 DEF ObdhReadStop, ObdhState
    <2>4. /\ UNCHANGED <<notification, served>>
          /\ i2c_rx_buffer_index' = 0
      BY <1>6, <2>1 DEF ObdhReadStop, IsrStop, StopNotifies
    <2>5. ServerIdleFor("I2C")'
      BY <1>0, <2>1, <2>4, SameIdle
    <2> QED BY <2>1, <2>2, <2>3, <2>4, <2>5 DEF LinkInv, DeliveryInv
  <1> QED BY <1>1, <1>2, <1>3, <1>4, <1>5, <1>6 DEF Obdh

\* What the OBDH and the server do not touch keeps both invariants; the TTC only
\* ever adds a notification of its own.
LEMMA DeliveryOthers ==
    ASSUME LinkInv, DeliveryInv,
           UNCHANGED <<i2cVars, serverVars, obdh, served>>,
           "I2C" \in notification' <=> "I2C" \in notification
    PROVE  LinkInv' /\ DeliveryInv'
  <1>1. UNCHANGED <<i2c_rx_buffer, i2c_rx_data_size, i2c_rx_buffer_index,
                    i2c_slave_status, pc, source, buf, count, copied, size>>
    BY DEF i2cVars, rxVars, serverVars
  <1>2. ServerIdleFor("I2C")' <=> ServerIdleFor("I2C")
    BY <1>1 DEF ServerIdleFor
  <1>3. Received' <=> Received
    BY <1>1 DEF Received, Sent
  <1>4. (Serving' <=> Serving) /\ (Notified' <=> Notified)
    BY <1>1, <1>3 DEF Serving, Notified
  <1>5. (Fetched' <=> Fetched) /\ (Answering' <=> Answering)
    BY <1>1, <1>3, <1>4 DEF Fetched, Answering, Sent
  <1>6. LinkInv'
    BY <1>1, <1>2 DEF LinkInv, Sent
  <1> QED BY <1>2, <1>4, <1>5, <1>6 DEF DeliveryInv, Pending

\* Every step keeps both invariants.
LEMMA DeliveryStep ==
    ASSUME ObdhPatient, TypeOK, LinkInv, DeliveryInv, [Next]_vars
    PROVE  LinkInv' /\ DeliveryInv'
  <1>1. CASE Server
    BY <1>1, LinkServer, DeliveryServer
  <1>2. CASE Obdh
    BY <1>2, DeliveryObdh
  <1>3. CASE Ttc
    <2>1. UNCHANGED <<i2cVars, serverVars, obdh>>
      BY <1>3, TtcFootprint
    <2>2. ASSUME NEW b, Receive(b)
          PROVE  "I2C" \in notification' <=> "I2C" \in notification
      BY <2>2 DEF Receive
    <2>3. ("I2C" \in notification' <=> "I2C" \in notification) /\ served' = served
      <3>1. ASSUME NEW f, TtcStart(f)
            PROVE  ("I2C" \in notification' <=> "I2C" \in notification)
                   /\ served' = served
        BY <2>2, <3>1 DEF TtcStart
      <3>2. CASE TtcSendByte
        BY <2>2, <3>2 DEF TtcSendByte, historyVars
      <3>3. CASE TtcSpareByte
        BY <2>2, <3>3 DEF TtcSpareByte, historyVars
      <3> QED BY <1>3, <3>1, <3>2, <3>3 DEF Ttc
    <2> QED BY <2>1, <2>3, DeliveryOthers
  <1>4. CASE ReadSensors
    <2>1. UNCHANGED <<i2cVars, serverVars, obdh>>
      BY <1>4, ReadSensorsFootprint
    <2>2. UNCHANGED <<notification, served>>
      BY <1>4 DEF ReadSensors, SensorStore, SensorStoreRest
    <2> QED BY <2>1, <2>2, DeliveryOthers
  <1>5. CASE UNCHANGED vars
    BY <1>5, DeliveryOthers DEF vars, historyVars
  <1> QED BY <1>1, <1>2, <1>3, <1>4, <1>5 DEF Next

\* An OBDH that waits for the server has each request it sends whole executed
\* exactly once, whatever the TTC and the sensors do meanwhile.
THEOREM RequestsServedOnce == ASSUME ObdhPatient PROVE Spec => []ExactlyOnce
  <1>1. TypeInv => TypeOK
    BY DEF TypeInv
  <1>2. LinkInv /\ DeliveryInv => ExactlyOnce
    BY RestServed DEF ExactlyOnce, DeliveryInv
  <1>3. TypeInv /\ LinkInv /\ DeliveryInv /\ [Next]_vars
           => TypeInv' /\ LinkInv' /\ DeliveryInv'
    BY <1>1, TypeStep, DeliveryStep
  <1> QED BY <1>2, <1>3, TypeInit, DeliveryInit, PTL DEF Spec

-----------------------------------------------------------------------------
(* Freshness: what the OBDH accepts is the last answer, and that answer is  *)
(* a value the register held since the request was complete.                *)

\* A request for a register of the table has been executed.
Asked == /\ Pending /\ obdh.whole /\ served = 1
         /\ obdh.req.cmd = "read" /\ obdh.req.adr \in Params

Composed == given[Len(given)]
Replying == pc \in {"store", "index"}

\* The transmit buffer holds the answer f.
Holds(f) == \A i \in 0..5 : i2c_tx_buffer[i] = ByteAt(f, i)

\* While the server stores an answer it is the last one composed.
Composing ==
    Replying =>
        /\ source = "I2C" /\ given # <<>>
        /\ reply = Composed /\ reply.cmd = "answer"
        /\ \A i \in 0..5 : i < copied => i2c_tx_buffer[i] = ByteAt(reply, i)
        /\ pc = "index" => copied > 5 /\ i2c_tx_buffer_data_size = 6

\* Then it answers the request, and waits in the transmit buffer.
Answered ==
    Asked =>
        /\ given # <<>>
        /\ Composed.cmd = "answer" /\ Composed.adr = obdh.req.adr
        /\ Composed.val \in held
        /\ ~Replying => Holds(Composed) /\ i2c_tx_buffer_data_size = 6

\* What the OBDH has taken of it the first time it reads are its first bytes,
\* and the index is at the next.
Taken ==
    /\ obdh.mode # "read" => obdh.got = <<>>
    /\ Asked /\ ~Replying /\ ~obdh.again =>
          /\ Len(obdh.got) < 6 => i2c_tx_buffer_index = Len(obdh.got)
          /\ \A j \in 1..Len(obdh.got) :
                j <= 6 => obdh.got[j] = ByteAt(Composed, j - 1)

FreshInv ==
    /\ Composing /\ Answered /\ Taken
    /\ Pending /\ obdh.req.adr \in Params => eps_data[obdh.req.adr] \in held
    /\ answer # NoFrame => Asked /\ answer = Composed

\* No answer is composed initially.
LEMMA FreshInit == Init => FreshInv
  BY DEF Init, FreshInv, Composing, Answered, Taken, Asked, Replying, Pending

\* While the register is tracked, what it holds is among what it has held.
LEMMA TrackHeld ==
    ASSUME NEW data, Track(data)
    PROVE  /\ held \subseteq held'
           /\ Pending /\ obdh.req.adr \in Params => data[obdh.req.adr] \in held'
  BY DEF Track

\* The last of the answers after one more.
LEMMA ComposedAppend ==
    ASSUME TypeOK, NEW f \in Frame, given' = Append(given, f)
    PROVE  /\ given' # <<>> /\ Composed' = f
           /\ \A i \in 1..Len(given') : given'[i] = f
                  \/ (i \in 1..Len(given) /\ given'[i] = given[i])
  <1>1. given \in Seq(Frame)
    BY DEF TypeOK, HistoryTypeOK
  <1> QED BY <1>1 DEF Composed

\* A step of the server that neither composes nor stores an answer keeps the
\* invariant.
LEMMA FreshSilent ==
    ASSUME TypeOK, FreshInv,
           UNCHANGED <<txVars, obdh, given, answer>>, Asked' <=> Asked,
           held \subseteq held',
           (Pending /\ obdh.req.adr \in Params => eps_data[obdh.req.adr] \in held)',
           ~Replying' /\ ~Replying
    PROVE  FreshInv'
  <1>1. Composed' = Composed
    BY DEF Composed
  <1>2. UNCHANGED <<i2c_tx_buffer, i2c_tx_buffer_index, i2c_tx_buffer_data_size>>
    BY DEF txVars
  <1>3. Composing'
    BY DEF Composing
  <1>4. Answered'
    BY <1>1, <1>2 DEF FreshInv, Answered, Holds
  <1>5. Taken'
    BY <1>1, <1>2 DEF FreshInv, Taken
  <1> QED BY <1>1, <1>3, <1>4, <1>5 DEF FreshInv

\* What the server executes for the OBDH is its request, if that came whole.
LEMMA ExecutesRequest ==
    ASSUME TypeOK, LinkInv, DeliveryInv, pc = "decode", source = "I2C",
           Pending, obdh.whole
    PROVE  served = 0 /\ Decoded = obdh.req
  <1>1. served = 0 /\ Serving /\ size = Size(obdh.req) /\ Sent(buf, size)
    BY DEF DeliveryInv, Notified, Fetched, Serving, Answering, ServerIdleFor
  <1> QED BY <1>1, DecodedIsRequest

\* A server that works for the OBDH is not being read.
LEMMA NotRead ==
    ASSUME LinkInv, pc # "wait", source = "I2C"
    PROVE  obdh.mode # "read"
  BY DEF LinkInv, ServerIdleFor

\* A step of the server keeps the invariant.
LEMMA FreshServer ==
    ASSUME TypeOK, LinkInv, DeliveryInv, FreshInv, Server
    PROVE  FreshInv'
  <1>0. UNCHANGED <<obdh, answer>> /\ source \in {"I2C", "UART"}
    BY ServerFootprint DEF TypeOK, ServerTypeOK, Links
  <1>1. CASE Wake \/ CallCopy \/ CopyByte \/ FetchSize \/ RejectCommand
    <2>1. /\ UNCHANGED <<txVars, given, served, held, eps_data>>
          /\ ~Replying /\ ~Replying'
      BY <1>1 DEF Wake, CallCopy, CopyByte, FetchSize, RejectCommand, Return,
         Replying, i2cVars, historyVars
    <2>2. Asked' <=> Asked
      BY <1>0, <2>1 DEF Asked, Pending
    <2>3. (Pending /\ obdh.req.adr \in Params => eps_data[obdh.req.adr] \in held)'
      BY <1>0, <2>1 DEF FreshInv, Pending
    <2> QED BY <1>0, <2>1, <2>2, <2>3, FreshSilent
  <1>2. CASE ExecuteWrite
    <2>1. /\ UNCHANGED <<txVars, given>> /\ Track(eps_data')
          /\ ~Replying /\ ~Replying' /\ pc = "decode" /\ Decoded.cmd = "write"
          /\ source = "UART" => served' = served
      BY <1>2 DEF ExecuteWrite, Executed, Return, Replying, i2cVars
    <2>2. Asked' <=> Asked
      <3>1. CASE source = "UART"
        BY <1>0, <2>1, <3>1 DEF Asked, Pending
      <3>2. CASE source = "I2C"
        BY <1>0, <2>1, <3>2, ExecutesRequest DEF Asked, Pending
      <3> QED BY <1>0, <3>1, <3>2
    <2>3. /\ held \subseteq held'
          /\ (Pending /\ obdh.req.adr \in Params => eps_data[obdh.req.adr] \in held)'
      BY <1>0, <2>1, TrackHeld DEF Pending
    <2> QED BY <1>0, <2>1, <2>2, <2>3, FreshSilent
  <1>3. CASE ExecuteRead /\ ~(Decoded.adr \in Params /\ source = "I2C")
    <2>1. /\ UNCHANGED <<txVars, given, held, eps_data>>
          /\ ~Replying /\ ~Replying' /\ pc = "decode"
          /\ source = "UART" => served' = served
      BY <1>3 DEF ExecuteRead, Executed, Return, Replying, i2cVars
    <2>2. Asked' <=> Asked
      <3>1. CASE source = "UART"
        BY <1>0, <2>1, <3>1 DEF Asked, Pending
      <3>2. CASE source = "I2C"
        BY <1>0, <1>3, <2>1, <3>2, ExecutesRequest DEF Asked, Pending
      <3> QED BY <1>0, <3>1, <3>2
    <2>3. (Pending /\ obdh.req.adr \in Params => eps_data[obdh.req.adr] \in held)'
      BY <1>0, <2>1 DEF FreshInv, Pending
    <2> QED BY <1>0, <2>1, <2>2, <2>3, FreshSilent
  <1>4. CASE ExecuteRead /\ Decoded.adr \in Params /\ source = "I2C"
    <2>1. /\ UNCHANGED <<txVars, held, eps_data, source>>
          /\ pc = "decode" /\ pc' = "store" /\ copied' = 0
          /\ reply' = [cmd |-> "answer", adr |-> Decoded.adr,
                       val |-> BufferRead(eps_data, Decoded.adr)]
          /\ given' = Append(given, reply') /\ served' = served + 1
      BY <1>4 DEF ExecuteRead, Executed, i2cVars
    <2>2. reply' \in Frame /\ reply'.cmd = "answer" /\ reply'.adr = Decoded.adr
      BY <1>4, <2>1, TypeServer DEF TypeOK, ServerTypeOK
    <2>3. /\ given' # <<>> /\ Composed' = reply'
          /\ \A i \in 1..Len(given') : given'[i] = reply'
                 \/ (i \in 1..Len(given) /\ given'[i] = given[i])
      BY <2>1, <2>2, ComposedAppend
    <2>5. Composing' /\ Replying'
      BY <1>4, <2>1, <2>2, <2>3 DEF Composing, Replying
    <2>6. Answered'
      <3>1. SUFFICES ASSUME Asked'
                     PROVE  Composed'.adr = obdh'.req.adr /\ Composed'.val \in held'
        BY <2>1, <2>2, <2>3 DEF Answered, Replying
      <3>2. Decoded = obdh.req /\ Pending /\ obdh.req.adr \in Params
        BY <1>0, <1>4, <2>1, <3>1, ExecutesRequest DEF Asked, Pending
      <3>3. reply'.val = eps_data[obdh.req.adr]
        BY <2>1, <3>2 DEF BufferRead
      <3> QED BY <1>0, <2>1, <2>2, <2>3, <3>2, <3>3 DEF FreshInv
    <2>7. Taken'
      BY <1>0, <2>5 DEF FreshInv, Taken
    <2>9. answer = NoFrame
      <3>1. ~Asked
        BY <1>4, <2>1, ExecutesRequest DEF Asked
      <3> QED BY <3>1 DEF FreshInv
    <2>10. (Pending /\ obdh.req.adr \in Params => eps_data[obdh.req.adr] \in held)'
      BY <1>0, <2>1 DEF FreshInv, Pending
    <2> QED BY <1>0, <2>5, <2>6, <2>7, <2>9, <2>10 DEF FreshInv
  <1>5. CASE StoreReplyByte \/ StoreReplySize \/ ResetReplyIndex
    <2>1. /\ UNCHANGED <<given, held, eps_data, source, served>>
          /\ Replying /\ pc # "wait"
      BY <1>5 DEF StoreReplyByte, StoreReplySize, ResetReplyIndex, Replying,
         historyVars
    <2>2. (Asked' <=> Asked) /\ Composed' = Composed
      BY <1>0, <2>1 DEF Asked, Pending, Composed
    <2>3. /\ source = "I2C" /\ given # <<>>
          /\ reply = Composed /\ reply.cmd = "answer" /\ reply \in Frame
          /\ \A i \in 0..5 : i < copied => i2c_tx_buffer[i] = ByteAt(reply, i)
          /\ pc = "index" => copied > 5 /\ i2c_tx_buffer_data_size = 6
      BY <2>1 DEF FreshInv, Composing, TypeOK, ServerTypeOK
    <2>4. obdh.got = <<>>
      BY <2>1, <2>3, NotRead DEF FreshInv, Taken
    <2>5. /\ copied \in 0..15 /\ DOMAIN i2c_tx_buffer = 0..15
      BY DEF TypeOK, ServerTypeOK, I2cTypeOK, I2C_TX_BUFFER_MAX_SIZE
    <2>6. ASSUME Composing',
                 ~Replying' => /\ \A i \in 0..5 :
                                      i2c_tx_buffer'[i] = ByteAt(Composed, i)
                               /\ i2c_tx_buffer_data_size' = 6
                               /\ i2c_tx_buffer_index' = 0
          PROVE  FreshInv'
      <3>1. Answered'
        BY <1>0, <2>1, <2>2, <2>6 DEF FreshInv, Answered, Holds
      <3>2. (Pending /\ obdh.req.adr \in Params => eps_data[obdh.req.adr] \in held)'
        BY <1>0, <2>1 DEF FreshInv, Pending
      <3>3. Taken'
        BY <1>0, <2>4, <2>6 DEF Taken
      <3> QED BY <1>0, <2>1, <2>2, <2>6, <3>1, <3>2, <3>3 DEF FreshInv
    <2>7. CASE StoreReplyByte
      <3>1. /\ UNCHANGED <<pc, reply>> /\ pc = "store" /\ copied < 6
            /\ i2c_tx_buffer' =
                   [i2c_tx_buffer EXCEPT ![copied] = ByteAt(reply, copied)]
            /\ copied' = copied + 1
        BY <2>7 DEF StoreReplyByte, StoreTxByte, OBDH_COMMAND_WRITE_SIZE
      <3>2. ASSUME NEW i \in 0..5, i < copied'
            PROVE  i2c_tx_buffer'[i] = ByteAt(reply, i)
        <4>1. i = copied \/ i < copied
          BY <2>5, <3>1, <3>2
        <4> QED BY <2>3, <2>5, <3>1, <4>1
      <3>3. Composing'
        BY <2>1, <2>2, <2>3, <3>1, <3>2 DEF Composing
      <3>4. Replying'
        BY <3>1 DEF Replying
      <3> QED BY <2>6, <3>3, <3>4
    <2>8. CASE StoreReplySize
      <3>1. /\ UNCHANGED <<reply, copied, i2c_tx_buffer>> /\ copied >= 6
            /\ pc' = "index" /\ i2c_tx_buffer_data_size' = 6
        BY <2>8 DEF StoreReplySize, StoreTxSize, OBDH_COMMAND_WRITE_SIZE
      <3>2. copied > 5
        BY <2>5, <3>1
      <3>3. Composing' /\ Replying'
        BY <2>1, <2>2, <2>3, <3>1, <3>2 DEF Composing, Replying
      <3> QED BY <2>6, <3>3
    <2>9. CASE ResetReplyIndex
      <3>1. /\ UNCHANGED <<i2c_tx_buffer, i2c_tx_buffer_data_size>>
            /\ pc = "index" /\ pc' = "wait" /\ i2c_tx_buffer_index' = 0
        BY <2>9 DEF ResetReplyIndex, ResetTxIndex, Return
      <3>2. Composing'
        BY <3>1 DEF Composing, Replying
      <3>3. \A i \in 0..5 : i2c_tx_buffer'[i] = ByteAt(Composed, i)
        BY <2>3, <2>5, <3>1
      <3> QED BY <2>3, <2>6, <3>1, <3>2, <3>3
    <2> QED BY <1>5, <2>7, <2>8, <2>9
  <1> QED BY <1>1, <1>2, <1>3, <1>4, <1>5 DEF Server

\* The OBDH accepts only the last answer the server composed, and only when it
\* asked for a register of the table.
LEMMA LastAccepted ==
    ASSUME TypeOK, LinkInv, DeliveryInv, FreshInv,
           obdh.mode = "read", ~obdh.again, Accepted # NoFrame
    PROVE  Asked /\ Accepted = Composed
  <1> DEFINE bytes == [i \in 0..5 |-> obdh.got[i + 1]]
  <1>1. /\ ~(Len(obdh.got) < 6) /\ obdh.req.adr \in Params
        /\ Accepted = ObdhDecodeAs("answer", bytes, 5)
    BY DEF Accepted, OBDH_COMMAND_WRITE_SIZE
  <1>2. obdh.got \in Seq(Byte) /\ given \in Seq(Frame)
    BY DEF TypeOK, PeersTypeOK, ObdhState, HistoryTypeOK
  <1>3. ServerIdleFor("I2C") /\ Pending /\ obdh.whole /\ obdh.req.cmd = "read"
    BY DEF LinkInv, Pending
  <1>4. Asked
    BY <1>1, <1>3, RestServed DEF Asked
  <1>5. given # <<>> /\ Composed.cmd = "answer" /\ Composed \in Frame
    <2>1. given # <<>> /\ Composed.cmd = "answer"
      BY <1>4 DEF FreshInv, Answered
    <2>2. Len(given) \in 1..Len(given)
      BY <1>2, <2>1
    <2> QED BY <1>2, <2>1, <2>2 DEF Composed
  <1>6. ~Replying
    BY <1>3 DEF FreshInv, Composing, ServerIdleFor, Replying
  <1>7. ASSUME NEW i \in 0..5 PROVE bytes[i] = ByteAt(Composed, i)
    <2>1. /\ i + 1 \in 1..Len(obdh.got) /\ i + 1 <= 6 /\ (i + 1) - 1 = i
          /\ bytes[i] = obdh.got[i + 1]
      BY <1>1, <1>2
    <2> QED BY <1>4, <1>6, <2>1 DEF FreshInv, Taken
  <1>8. Size(Composed) = 6
    BY <1>5 DEF Size, OBDH_COMMAND_WRITE_SIZE
  <1> HIDE DEF bytes
  <1>9. ObdhDecodeAs("answer", bytes, 5) = Composed
    BY <1>5, <1>7, <1>8, AssembledSent
  <1> QED BY <1>1, <1>4, <1>9

\* What a step of the OBDH leaves of the invariant as it was.
LEMMA FreshLink ==
    ASSUME FreshInv,
           UNCHANGED <<serverVars, given, i2c_tx_buffer, i2c_tx_buffer_data_size>>
    PROVE  /\ Composing' /\ Composed' = Composed
           /\ Replying' <=> Replying
  BY DEF FreshInv, Composing, Composed, Replying, serverVars

\* A byte the OBDH takes is the next of the transmit buffer.
LEMMA FreshReadByte ==
    ASSUME TypeOK, LinkInv, FreshInv, ObdhReadByte
    PROVE  FreshInv'
  <1>0. /\ UNCHANGED <<serverVars, given, i2c_tx_buffer, i2c_tx_buffer_data_size>>
        /\ UNCHANGED <<eps_data, held, answer, served>>
        /\ obdh \in ObdhState /\ obdh.got \in Seq(Byte)
    BY DEF ObdhReadByte, IsrTransmit, historyVars, TypeOK, PeersTypeOK, ObdhState
  <1>1. /\ Composing' /\ Composed' = Composed
        /\ Replying' <=> Replying
    BY <1>0, FreshLink
  <1>2. PICK b \in TransmittedByte : obdh' = [obdh EXCEPT !.got = Append(@, b)]
    BY Zenon DEF ObdhReadByte
  <1>3. /\ obdh.mode = "read" /\ obdh'.mode = "read" /\ obdh'.req = obdh.req
        /\ obdh'.whole = obdh.whole /\ obdh'.again = obdh.again
        /\ obdh'.got = Append(obdh.got, b)
    BY <1>0, <1>2 DEF ObdhReadByte, ObdhState
  <1>4. Asked' <=> Asked
    BY <1>0, <1>3 DEF Asked, Pending
  <1>5. (Pending /\ obdh.req.adr \in Params => eps_data[obdh.req.adr] \in held)'
    BY <1>0, <1>3 DEF FreshInv, Pending
  <1>6. ~Replying
    BY <1>3 DEF LinkInv, ServerIdleFor, FreshInv, Composing, Replying
  <1>7. Answered'
    BY <1>0, <1>1, <1>3, <1>4 DEF FreshInv, Answered, Holds
  <1>8. /\ Len(obdh'.got) = Len(obdh.got) + 1 /\ Len(obdh.got) \in Nat
        /\ obdh'.got[Len(obdh.got) + 1] = b
        /\ \A j \in 1..Len(obdh.got) : obdh'.got[j] = obdh.got[j]
        /\ \A j \in 1..Len(obdh'.got) :
              j \in 1..Len(obdh.got) \/ j = Len(obdh.got) + 1
    BY <1>0, <1>3
  <1>9. ASSUME Asked, ~obdh.again
        PROVE  /\ Len(obdh'.got) < 6 => i2c_tx_buffer_index' = Len(obdh'.got)
               /\ \A j \in 1..Len(obdh'.got) :
                     j <= 6 => obdh'.got[j] = ByteAt(Composed, j - 1)
    <2>1. /\ Holds(Composed) /\ i2c_tx_buffer_data_size = 6
          /\ Len(obdh.got) < 6 => i2c_tx_buffer_index = Len(obdh.got)
          /\ \A j \in 1..Len(obdh.got) :
                j <= 6 => obdh.got[j] = ByteAt(Composed, j - 1)
      BY <1>6, <1>9 DEF FreshInv, Answered, Taken
    <2>2. CASE Len(obdh.got) < 6
      <3>0. i2c_tx_buffer_index \in 0..5
        BY <1>8, <2>1, <2>2
      <3>1. i2c_tx_buffer_index = Len(obdh.got)
        BY <2>1, <2>2
      <3>2. b = ByteAt(Composed, Len(obdh.got))
        <4>0. i2c_tx_buffer_index < 16 /\ b \in TransmittedByte
          BY <1>2, <3>0
        <4>1. b = i2c_tx_buffer[i2c_tx_buffer_index]
          BY <4>0 DEF TransmittedByte, I2C_TX_BUFFER_MAX_SIZE
        <4> QED BY <2>1, <3>0, <3>1, <4>1 DEF Holds
      <3>3. i2c_tx_buffer_index + 1 # 6 =>
                i2c_tx_buffer_index' = i2c_tx_buffer_index + 1
        <4>1. i2c_tx_buffer_index' =
                 LET next == (i2c_tx_buffer_index + 1) % 256
                 IN  IF next = i2c_tx_buffer_data_size THEN 0 ELSE next
          BY DEF ObdhReadByte, IsrTransmit
        <4>2. (i2c_tx_buffer_index + 1) % 256 = i2c_tx_buffer_index + 1
          BY <3>0
        <4>3. i2c_tx_buffer_data_size = 6
          BY <2>1
        <4> QED BY <4>1, <4>2, <4>3
      <3>4. (Len(obdh.got) + 1) - 1 = Len(obdh.got)
        BY <1>8
      <3>5. ASSUME NEW j \in 1..Len(obdh'.got), j <= 6
            PROVE  obdh'.got[j] = ByteAt(Composed, j - 1)
        BY <1>8, <2>1, <3>2, <3>4, <3>5
      <3>6. Len(obdh'.got) < 6 => i2c_tx_buffer_index' = Len(obdh'.got)
        BY <1>8, <3>1, <3>3
      <3> QED BY <3>5, <3>6
    <2>3. CASE ~(Len(obdh.got) < 6)
      <3>1. ~(Len(obdh'.got) < 6)
        BY <1>8, <2>3
      <3>2. ASSUME NEW j \in 1..Len(obdh'.got), j <= 6
            PROVE  j \in 1..Len(obdh.got)
        BY <1>8, <2>3, <3>2
      <3> QED BY <1>8, <2>1, <3>1, <3>2
    <2> QED BY <2>2, <2>3
  <1>10. Taken'
    BY <1>1, <1>3, <1>4, <1>9 DEF Taken
  <1> QED BY <1>0, <1>1, <1>4, <1>5, <1>7, <1>10 DEF FreshInv

\* A step of an OBDH that waits for the server keeps the invariant.
LEMMA FreshObdh ==
    ASSUME ObdhPatient, TypeOK, LinkInv, DeliveryInv, FreshInv, Obdh
    PROVE  FreshInv'
  <1>0. /\ UNCHANGED <<serverVars, given, i2c_tx_buffer>>
        /\ obdh \in ObdhState
    BY ObdhFootprint DEF TypeOK, PeersTypeOK
  <1>1. CASE ObdhReadByte
    BY <1>1, FreshReadByte
  <1>2. CASE ~ObdhReadByte
    <2>1. UNCHANGED <<i2c_tx_buffer_data_size, i2c_tx_buffer_index, eps_data>>
      <3>1. ASSUME NEW f, ObdhStart(f)
            PROVE  UNCHANGED <<txVars, eps_data>>
        BY <3>1 DEF ObdhStart, i2cVars
      <3>2. CASE ObdhSendByte
        BY <3>2 DEF ObdhSendByte, IsrReceive, txVars
      <3>3. CASE ObdhStop
        BY <3>3 DEF ObdhStop, IsrStop, txVars
      <3>4. CASE ObdhReadStart
        BY <3>4 DEF ObdhReadStart, i2cVars, txVars
      <3>5. CASE ObdhReadStop
        BY <3>5 DEF ObdhReadStop, IsrStop, txVars
      <3> QED BY <1>2, <3>1, <3>2, <3>3, <3>4, <3>5 DEF Obdh, txVars
    <2>2. /\ Composing' /\ Composed' = Composed
          /\ Replying' <=> Replying
      BY <1>0, <2>1, FreshLink
    <2>3. ASSUME ~Asked', answer' = NoFrame, obdh'.got = <<>>,
                 (Pending /\ obdh.req.adr \in Params
                     => eps_data[obdh.req.adr] \in held)'
          PROVE  FreshInv'
      BY <2>2, <2>3 DEF FreshInv, Answered, Taken
    <2>4. ASSUME NEW f, ObdhStart(f) PROVE FreshInv'
      <3>1. obdh'.mode = "send" /\ obdh'.got = <<>> /\ answer' = NoFrame
        BY <1>0, <2>4 DEF ObdhStart, ObdhState
      <3> QED BY <2>3, <3>1 DEF Asked, Pending
    <2>5. CASE ObdhSendByte
      <3>1. /\ obdh.mode = "send" /\ obdh'.mode = "send" /\ answer' = answer
            /\ obdh'.got = obdh.got
        BY <1>0, <2>5 DEF ObdhSendByte, ObdhState, historyVars
      <3>2. answer = NoFrame /\ obdh.got = <<>>
        BY <3>1 DEF FreshInv, Asked, Pending, Taken
      <3> QED BY <2>3, <3>1, <3>2 DEF Asked, Pending
    <2>6. CASE ObdhStop
      <3>1. /\ obdh.mode = "send" /\ UNCHANGED <<answer, served>>
            /\ obdh'.req = obdh.req /\ obdh'.got = obdh.got
            /\ held' = IF obdh.req.adr \in Params THEN {eps_data[obdh.req.adr]}
                       ELSE {}
        BY <1>0, <2>6 DEF ObdhStop, ObdhState
      <3>2. answer = NoFrame /\ served = 0 /\ obdh.got = <<>>
        BY <3>1 DEF FreshInv, Asked, Pending, LinkInv, Taken
      <3>3. ~Asked'
        BY <3>1, <3>2 DEF Asked
      <3> QED BY <2>1, <2>3, <3>1, <3>2, <3>3
    <2>7. ASSUME Pending, Pending',
                 obdh'.req = obdh.req, obdh'.whole = obdh.whole,
                 obdh'.got = <<>>, UNCHANGED <<served, held>>,
                 Asked /\ ~Replying /\ ~obdh'.again =>
                     i2c_tx_buffer_index = 0,
                 answer' # NoFrame => Asked /\ answer' = Composed
          PROVE  FreshInv'
      <3>1. Asked' <=> Asked
        BY <2>7 DEF Asked
      <3>2. Answered'
        BY <1>0, <2>1, <2>2, <2>7, <3>1 DEF FreshInv, Answered, Holds
      <3>4. Taken'
        BY <2>1, <2>2, <2>7, <3>1 DEF Taken
      <3>5. (Pending /\ obdh.req.adr \in Params => eps_data[obdh.req.adr] \in held)'
        BY <2>1, <2>7 DEF FreshInv
      <3> QED BY <2>2, <2>7, <3>1, <3>2, <3>4, <3>5 DEF FreshInv
    <2>8. CASE ObdhReadStart
      <3>1. /\ Pending /\ Pending' /\ obdh'.req = obdh.req
            /\ obdh'.whole = obdh.whole /\ obdh'.got = <<>>
            /\ UNCHANGED <<served, held, answer>>
            /\ obdh.mode = "wait" /\ obdh'.again = obdh.again
        BY <1>0, <2>8 DEF ObdhReadStart, ObdhState, Pending, historyVars
      <3>2. obdh.got = <<>>
        BY <3>1 DEF FreshInv, Taken
      <3>3. Asked /\ ~Replying /\ ~obdh'.again => i2c_tx_buffer_index = 0
        BY <3>1, <3>2 DEF FreshInv, Taken
      <3> QED BY <2>7, <3>1, <3>3 DEF FreshInv
    <2>9. CASE ObdhReadStop
      <3>1. /\ Pending /\ Pending' /\ obdh'.req = obdh.req
            /\ obdh'.whole = obdh.whole /\ obdh'.got = <<>>
            /\ UNCHANGED <<served, held>> /\ obdh'.again
            /\ answer' = IF obdh.again THEN NoFrame ELSE Accepted
            /\ obdh.mode = "read"
        BY <1>0, <2>9 DEF ObdhReadStop, ObdhState, Pending
      <3>2. answer' # NoFrame => Asked /\ answer' = Composed
        BY <3>1, LastAccepted
      <3> QED BY <2>7, <3>1, <3>2
    <2> QED BY <1>2, <2>4, <2>5, <2>6, <2>8, <2>9 DEF Obdh
  <1> QED BY <1>1, <1>2

\* Neither the TTC nor the sensors disturb it: what they store into the register
\* is among what it has held.
LEMMA FreshOthers ==
    ASSUME FreshInv, UNCHANGED <<i2cVars, serverVars, obdh, given, answer, served>>,
           held \subseteq held',
           (Pending /\ obdh.req.adr \in Params => eps_data[obdh.req.adr] \in held)'
    PROVE  FreshInv'
  <1>1. UNCHANGED <<i2c_tx_buffer, i2c_tx_buffer_index, i2c_tx_buffer_data_size>>
    BY DEF i2cVars, txVars
  <1>2. /\ Composing' /\ Composed' = Composed
        /\ Replying' <=> Replying
    BY <1>1, FreshLink
  <1>3. Asked' <=> Asked
    BY DEF Asked, Pending
  <1>4. Answered'
    BY <1>1, <1>2, <1>3 DEF FreshInv, Answered, Holds
  <1>5. Taken'
    BY <1>1, <1>2, <1>3 DEF FreshInv, Taken
  <1> QED BY <1>2, <1>3, <1>4, <1>5 DEF FreshInv

\* Every step keeps the invariant.
LEMMA FreshStep ==
    ASSUME ObdhPatient, TypeOK, LinkInv, DeliveryInv, FreshInv, [Next]_vars
    PROVE  FreshInv'
  <1>1. CASE Server
    BY <1>1, FreshServer
  <1>2. CASE Obdh
    BY <1>2, FreshObdh
  <1>3. CASE Ttc
    <2>1. UNCHANGED <<i2cVars, serverVars, obdh, given, answer>>
      BY <1>3, TtcFootprint
    <2>2. UNCHANGED <<eps_data, held, served>>
      BY <1>3, TtcFootprint
    <2>3. (Pending /\ obdh.req.adr \in Params => eps_data[obdh.req.adr] \in held)'
      BY <2>1, <2>2 DEF FreshInv, Pending
    <2> QED BY <2>1, <2>2, <2>3, FreshOthers
  <1>4. CASE ReadSensors
    <2>1. UNCHANGED <<i2cVars, serverVars, obdh, given, answer>>
      BY <1>4, ReadSensorsFootprint
    <2>2. served' = served /\ Track(eps_data')
      BY <1>4 DEF ReadSensors, SensorStore, SensorStoreRest
    <2>3. /\ held \subseteq held'
          /\ (Pending /\ obdh.req.adr \in Params => eps_data[obdh.req.adr] \in held)'
      BY <2>1, <2>2, TrackHeld DEF Pending
    <2> QED BY <2>1, <2>2, <2>3, FreshOthers
  <1>5. CASE UNCHANGED vars
    <2>1. UNCHANGED <<i2cVars, serverVars, obdh, given, answer, served, held,
                      eps_data>>
      BY <1>5 DEF vars, historyVars
    <2>2. (Pending /\ obdh.req.adr \in Params => eps_data[obdh.req.adr] \in held)'
      BY <2>1 DEF FreshInv, Pending
    <2> QED BY <2>1, <2>2, FreshOthers
  <1> QED BY <1>1, <1>2, <1>3, <1>4, <1>5 DEF Next

\* All the invariants together.
PatientInv == TypeInv /\ LinkInv /\ DeliveryInv /\ FreshInv

\* Initially they hold.
LEMMA PatientInit == Init => PatientInv
  BY TypeInit, DeliveryInit, FreshInit DEF PatientInv

\* They are inductive for an OBDH that waits.
LEMMA PatientStep ==
    ASSUME ObdhPatient, PatientInv, [Next]_vars
    PROVE  PatientInv'
  <1>1. TypeOK
    BY DEF PatientInv, TypeInv
  <1> QED BY <1>1, TypeStep, DeliveryStep, FreshStep DEF PatientInv

\* An OBDH that waits for the server accepts only values that the register it
\* asked for held since its request was complete, although it may leave an answer
\* half read and the transmit index with it.
THEOREM AnswersAreFresh == ASSUME ObdhPatient PROVE Spec => []AnswerFresh
  <1>1. PatientInv => AnswerFresh
    BY DEF PatientInv, FreshInv, Answered, AnswerFresh
  <1> QED BY <1>1, PatientInit, PatientStep, PTL DEF Spec

-----------------------------------------------------------------------------
(* Refinement: every step is one of the register service, or none of it.    *)

\* What the service sees of a step that does not execute a request.
LEMMA SameService ==
    ASSUME UNCHANGED <<obdh, served, given>>
    PROVE  Phase' = Phase /\ Sample' = Sample
  BY DEF Phase, Sample, Pending

\* The service speaks of the same frames and of the same buffer.
LEMMA ServiceTerms ==
    /\ Service!U32 = U32 /\ Service!NoFrame = NoFrame /\ Service!Frame = Frame
    /\ \A data, id, v : Service!BufferWrite(data, id, v) = BufferWrite(data, id, v)
  <1>1. Service!Word = Word /\ Service!U8 = U8 /\ Service!Commands = Commands
    BY DEF Service!Word, Word, Service!U8, U8, Service!Commands, Commands
  <1>2. Service!Zero32 = Zero32
    BY DEF Service!Zero32, Service!Short, Zero32, Short
  <1>3. Service!U32 = U32 /\ Service!NoFrame = NoFrame
    BY <1>1, <1>2 DEF Service!U32, U32, Service!NoFrame, NoFrame
  <1>4. Service!Frame = Frame
    BY <1>1, <1>3 DEF Service!Frame, Frame
  <1>5. \A id, v : Service!Truncate(id, v) = Truncate(id, v)
    <2>1. Service!Uint32Ids = Uint32Ids /\ Service!Uint8Ids = Uint8Ids
      BY DEF Service!Uint32Ids, Uint32Ids, Service!Uint8Ids, Uint8Ids,
             Service!HW_VERSION, HW_VERSION
    <2> QED BY <2>1 DEF Service!Truncate, Truncate
  <1>6. \A data, id, v :
           Service!BufferWrite(data, id, v) = BufferWrite(data, id, v)
    BY <1>5 DEF Service!BufferWrite, BufferWrite
  <1> QED BY <1>3, <1>4, <1>6

\* A store into one register, or into none, is a step of the service or none of it.
LEMMA ServiceUpdate ==
    ASSUME TypeOK, TypeOK', NEW id,
           \A other \in Params \ {id} : eps_data'[other] = eps_data[other],
           Phase' = Phase, Sample' = Sample, UNCHANGED <<obdh, answer>>
    PROVE  [Service!ServiceNext]_(Service!service)
  <1>1. eps_data \in [Params -> U32] /\ eps_data' \in [Params -> U32]
    BY DEF TypeOK, ServerTypeOK
  <1>2. CASE id \in Params
    BY <1>1, <1>2, ServiceTerms DEF Service!Update, Service!ServiceNext
  <1>3. CASE id \notin Params
    <2>1. eps_data' = eps_data
      BY <1>1, <1>3
    <2> QED BY <2>1 DEF Service!service
  <1> QED BY <1>2, <1>3

\* A step of the server serves the request or is none of the service.
LEMMA ServiceServer ==
    ASSUME PatientInv, TypeOK', Server
    PROVE  [Service!ServiceNext]_(Service!service)
  <1>0. /\ UNCHANGED <<obdh, answer>> /\ source \in {"I2C", "UART"}
        /\ TypeOK /\ LinkInv /\ DeliveryInv /\ eps_data \in [Params -> U32]
    BY ServerFootprint DEF PatientInv, TypeInv, TypeOK, ServerTypeOK, Links
  <1>1. CASE UNCHANGED <<eps_data, served, given>>
    BY <1>0, <1>1, SameService DEF Service!service
  <1>2. CASE ExecuteWrite
    <2>1. /\ pc = "decode" /\ Decoded.cmd = "write" /\ UNCHANGED given
          /\ eps_data' = BufferWrite(eps_data, Decoded.adr, Decoded.val)
          /\ served' = IF source = "I2C" THEN served + 1 ELSE served
      BY <1>2 DEF ExecuteWrite, Executed
    <2>2. CASE source = "I2C" /\ Pending /\ obdh.whole
      <3>1. served = 0 /\ Decoded = obdh.req
        BY <1>0, <2>1, <2>2, ExecutesRequest
      <3>2. Pending' /\ obdh'.whole /\ served' = 1
        BY <1>0, <2>1, <2>2, <3>1 DEF Pending
      <3>3. Phase = "asked" /\ Phase' = "served"
        BY <2>2, <3>1, <3>2 DEF Phase
      <3>4. Sample = NoFrame /\ Sample' = NoFrame
        BY <1>0, <2>1, <3>1, <3>3 DEF Sample
      <3> QED BY <1>0, <2>1, <3>1, <3>3, <3>4, ServiceTerms
           DEF Service!ServiceNext, Service!ServeWrite
    <2>3. CASE ~(source = "I2C" /\ Pending /\ obdh.whole)
      <3>1. Phase' = Phase /\ Sample' = Sample
        <4>1. CASE source # "I2C"
          BY <1>0, <2>1, <4>1, SameService
        <4>2. CASE ~(Pending /\ obdh.whole)
          BY <1>0, <4>2 DEF Phase, Sample, Pending
        <4> QED BY <2>3, <4>1, <4>2
      <3>2. \A other \in Params \ {Decoded.adr} : eps_data'[other] = eps_data[other]
        BY <1>0, <2>1 DEF BufferWrite
      <3> QED BY <1>0, <3>1, <3>2, ServiceUpdate
    <2> QED BY <2>2, <2>3
  <1>3. CASE ExecuteRead
    <2>1. /\ pc = "decode" /\ Decoded.cmd = "read" /\ UNCHANGED eps_data
          /\ served' = IF source = "I2C" THEN served + 1 ELSE served
      BY <1>3 DEF ExecuteRead, Executed
    <2>2. CASE source # "I2C"
      <3>1. UNCHANGED <<eps_data, served, given>>
        BY <1>3, <2>1, <2>2 DEF ExecuteRead, Return
      <3> QED BY <1>1, <3>1
    <2>3. CASE source = "I2C" /\ ~(Pending /\ obdh.whole)
      <3>1. Phase' = Phase /\ Sample' = Sample
        BY <1>0, <2>3 DEF Phase, Sample, Pending
      <3> QED BY <1>0, <2>1, <3>1 DEF Service!service
    <2>4. CASE source = "I2C" /\ Pending /\ obdh.whole
      <3>1. served = 0 /\ Decoded = obdh.req
        BY <1>0, <2>1, <2>4, ExecutesRequest
      <3>2. Pending' /\ obdh'.whole /\ served' = 1
        BY <1>0, <2>1, <2>4, <3>1 DEF Pending
      <3>3. Phase = "asked" /\ Phase' = "served" /\ Sample = NoFrame
        BY <2>4, <3>1, <3>2 DEF Phase, Sample
      <3>4. Sample' = IF obdh.req.adr \in Params
                      THEN [cmd |-> "answer", adr |-> obdh.req.adr,
                            val |-> eps_data[obdh.req.adr]]
                      ELSE NoFrame
        <4>1. CASE obdh.req.adr \in Params
          <5>1. /\ reply' = [cmd |-> "answer", adr |-> obdh.req.adr,
                             val |-> eps_data[obdh.req.adr]]
                /\ given' = Append(given, reply')
            BY <1>3, <2>4, <3>1, <4>1 DEF ExecuteRead, BufferRead
          <5>2. reply' \in Frame
            BY DEF TypeOK, ServerTypeOK
          <5>3. given' # <<>> /\ Composed' = reply'
            BY <1>0, <5>1, <5>2, ComposedAppend
          <5> QED BY <1>0, <2>1, <3>1, <3>3, <4>1, <5>1, <5>3 DEF Sample, Composed
        <4>2. CASE obdh.req.adr \notin Params
          BY <1>0, <4>2 DEF Sample
        <4> QED BY <4>1, <4>2
      <3> QED BY <1>0, <2>1, <3>1, <3>3, <3>4, ServiceTerms
           DEF Service!ServiceNext, Service!ServeRead
    <2> QED BY <2>2, <2>3, <2>4
  <1>4. CASE ~ExecuteWrite /\ ~ExecuteRead
    <2>1. UNCHANGED <<eps_data, served, given>>
      BY <1>4 DEF Server, Wake, CallCopy, CopyByte, FetchSize, RejectCommand,
         StoreReplyByte, StoreReplySize, ResetReplyIndex, historyVars
    <2> QED BY <1>1, <2>1
  <1> QED BY <1>2, <1>3, <1>4

\* A step of the OBDH begins, asks or collects, or is none of the service.
LEMMA ServiceObdh ==
    ASSUME ObdhPatient, PatientInv, Obdh
    PROVE  [Service!ServiceNext]_(Service!service)
  <1>0. /\ UNCHANGED given /\ obdh \in ObdhState
        /\ TypeOK /\ LinkInv /\ DeliveryInv /\ FreshInv
    BY ObdhFootprint DEF PatientInv, TypeInv, TypeOK, PeersTypeOK
  <1>1. ASSUME NEW f \in ObdhRequests, ObdhStart(f)
        PROVE  [Service!ServiceNext]_(Service!service)
    <2>1. /\ obdh'.mode = "send" /\ obdh'.req = f /\ answer' = NoFrame
          /\ UNCHANGED eps_data /\ f \in Frame
      BY <1>0, <1>1, ConstantsAssumption DEF ObdhStart, ObdhState, Request
    <2>2. Phase' = "idle" /\ Sample' = NoFrame
      BY <2>1 DEF Phase, Sample, Pending
    <2>3. Phase \in {"idle", "served"}
      <3>1. ServerIdleFor("I2C")
        BY <1>1 DEF ObdhStart, MayStart
      <3>2. Pending /\ obdh.whole => served = 1
        BY <1>0, <3>1, RestServed
      <3> QED BY <3>2 DEF Phase
    <2> QED BY <2>1, <2>2, <2>3, ServiceTerms
         DEF Service!ServiceNext, Service!Begin
  <1>2. CASE ObdhSendByte
    <2>1. /\ obdh.mode = "send" /\ obdh'.mode = "send" /\ obdh'.req = obdh.req
          /\ UNCHANGED <<eps_data, answer>>
      BY <1>0, <1>2 DEF ObdhSendByte, ObdhState, historyVars
    <2>2. Phase' = Phase /\ Sample' = Sample
      BY <2>1 DEF Phase, Sample, Pending
    <2> QED BY <2>1, <2>2 DEF Service!service
  <1>3. CASE ObdhStop
    <2>1. /\ obdh.mode = "send" /\ obdh'.mode = "wait" /\ obdh'.req = obdh.req
          /\ UNCHANGED <<eps_data, answer, served>>
      BY <1>0, <1>3 DEF ObdhStop, ObdhState
    <2>2. served = 0 /\ obdh.req \in Request
      BY <1>0, <2>1, ConstantsAssumption DEF LinkInv
    <2>3. Phase = "idle" /\ Sample = NoFrame
      BY <2>1 DEF Phase, Sample, Pending
    <2>4. Phase' \in {"idle", "asked"} /\ Sample' = NoFrame
      BY <2>1, <2>2 DEF Phase, Sample
    <2>5. CASE Phase' = "idle"
      BY <2>1, <2>3, <2>4, <2>5 DEF Service!service
    <2>6. CASE Phase' = "asked"
      BY <2>1, <2>2, <2>3, <2>4, <2>6
         DEF Service!ServiceNext, Service!Ask, Request
    <2> QED BY <2>4, <2>5, <2>6
  <1>4. CASE ObdhReadStart \/ ObdhReadByte
    <2>1. /\ Pending /\ Pending' /\ obdh'.req = obdh.req
          /\ obdh'.whole = obdh.whole /\ UNCHANGED <<eps_data, answer, served>>
      <3>1. CASE ObdhReadStart
        BY <1>0, <3>1 DEF ObdhReadStart, ObdhState, Pending, historyVars
      <3>2. CASE ObdhReadByte
        BY <1>0, <3>2 DEF ObdhReadByte, ObdhState, Pending, historyVars
      <3> QED BY <1>4, <3>1, <3>2
    <2>2. Phase' = Phase /\ Sample' = Sample
      BY <1>0, <2>1 DEF Phase, Sample
    <2> QED BY <2>1, <2>2 DEF Service!service
  <1>5. CASE ObdhReadStop
    <2>1. /\ obdh.mode = "read" /\ Pending /\ Pending' /\ obdh'.req = obdh.req
          /\ obdh'.whole = obdh.whole /\ UNCHANGED <<eps_data, served>>
          /\ answer' = IF obdh.again THEN NoFrame ELSE Accepted
      BY <1>0, <1>5 DEF ObdhReadStop, ObdhState, Pending
    <2>2. Phase' = Phase /\ Sample' = Sample
      BY <1>0, <2>1 DEF Phase, Sample
    <2>3. ASSUME Asked
          PROVE  Phase = "served" /\ Sample = Composed /\ Sample # NoFrame
      <3>1. given # <<>> /\ Composed.cmd = "answer"
        BY <1>0, <2>3 DEF FreshInv, Answered
      <3>2. Phase = "served"
        BY <2>3 DEF Asked, Phase
      <3>3. Sample = Composed
        BY <2>3, <3>1, <3>2 DEF Asked, Sample, Composed
      <3> QED BY <3>1, <3>2, <3>3 DEF NoFrame
    <2>4. CASE answer' # NoFrame
      <3>1. Asked /\ answer' = Composed
        BY <1>0, <2>1, <2>4, LastAccepted
      <3> QED BY <2>1, <2>2, <2>3, <3>1, ServiceTerms
           DEF Service!ServiceNext, Service!Collect
    <2>5. CASE answer' = NoFrame /\ answer # NoFrame
      <3>1. Asked
        BY <1>0, <2>5 DEF FreshInv
      <3> QED BY <2>1, <2>2, <2>3, <2>5, <3>1, ServiceTerms
           DEF Service!ServiceNext, Service!Collect
    <2>6. CASE answer' = NoFrame /\ answer = NoFrame
      BY <2>1, <2>2, <2>6 DEF Service!service
    <2> QED BY <2>4, <2>5, <2>6
  <1> QED BY <1>1, <1>2, <1>3, <1>4, <1>5 DEF Obdh

\* A store of the sensors is one of another task.
LEMMA ServiceReadSensors ==
    ASSUME PatientInv, TypeOK', ReadSensors
    PROVE  [Service!ServiceNext]_(Service!service)
  <1>1. UNCHANGED <<obdh, given, answer>>
    BY ReadSensorsFootprint
  <1>2. TypeOK /\ eps_data \in [Params -> U32]
    BY DEF PatientInv, TypeInv, TypeOK, ServerTypeOK
  <1>3. /\ served' = served
        /\ \E id : \A other \in Params \ {id} : eps_data'[other] = eps_data[other]
    <2>1. ASSUME NEW w \in SensorWrites, SensorStore(w)
          PROVE  /\ served' = served
                 /\ \A other \in Params \ {w.adr} : eps_data'[other] = eps_data[other]
      <3>1. \E v : eps_data' = [eps_data EXCEPT ![w.adr] = v]
        BY <2>1 DEF SensorStore
      <3> QED BY <1>2, <2>1, <3>1 DEF SensorStore
    <2>2. CASE SensorStoreRest
      BY <1>2, <2>2 DEF SensorStoreRest
    <2> QED BY <2>1, <2>2 DEF ReadSensors
  <1> QED BY <1>1, <1>2, <1>3, SameService, ServiceUpdate

\* With an OBDH that waits, the server, its handlers and its links implement the
\* register service: a request acts in one step, and its answer is the register
\* as it was in that step.
THEOREM ServerImplementsService ==
    ASSUME ObdhPatient PROVE Spec => ImplementsService
  <1>1. Init => Service!ServiceInit
    <2>1. Init => eps_data \in [Params -> U32]
      BY TypeInit DEF TypeInv, TypeOK, ServerTypeOK
    <2>2. Init => Phase = "idle" /\ Sample = NoFrame
      BY DEF Init, Phase, Sample, Pending
    <2> QED BY <2>1, <2>2, ServiceTerms DEF Init, Service!ServiceInit
  <1>2. PatientInv /\ [Next]_vars => [Service!ServiceNext]_(Service!service)
    <2> SUFFICES ASSUME PatientInv, [Next]_vars
                 PROVE  [Service!ServiceNext]_(Service!service)
      OBVIOUS
    <2>1. TypeOK'
      BY TypeStep DEF PatientInv, TypeInv
    <2>2. CASE Ttc
      <3>1. UNCHANGED <<obdh, given, answer>>
        BY <2>2, TtcFootprint
      <3>2. UNCHANGED <<eps_data, served>>
        BY <2>2, TtcFootprint
      <3> QED BY <3>1, <3>2, SameService DEF Service!service
    <2>3. CASE UNCHANGED vars
      <3>1. UNCHANGED <<obdh, given, answer, eps_data, served>>
        BY <2>3 DEF vars, historyVars
      <3> QED BY <3>1, SameService DEF Service!service
    <2> QED BY <2>1, <2>2, <2>3, ServiceServer, ServiceObdh, ServiceReadSensors
         DEF Next
  <1> QED BY <1>1, <1>2, PatientInit, PatientStep, PTL
       DEF Spec, ImplementsService, Service!ServiceSpec

-----------------------------------------------------------------------------
(* Requests are served soon, and only whole ones write.                       *)

\* What the TTC has the server copy is no longer than its longest command, and
\* is never answered through the transmit buffer of the OBDH.
TtcServed ==
    source # "I2C" => /\ pc \notin {"store", "index"}
                      /\ pc = "copy" => count <= WRITE_COMMAND_MAX_SIZE

\* It holds initially, and every step keeps it.
LEMMA TtcServedStep ==
    /\ Init => TtcServed
    /\ TypeOK /\ TtcServed /\ [Next]_vars => TtcServed'
  <1>1. Init => TtcServed
    BY DEF Init, TtcServed
  <1>2. ASSUME TypeOK, TtcServed, [Next]_vars PROVE TtcServed'
    <2>1. CASE UNCHANGED serverVars
      BY <1>2, <2>1 DEF TtcServed, serverVars
    <2>2. CASE CallCopy
      BY <1>2, <2>2 DEF CallCopy, DataSize, TtcServed, TypeOK, UartTypeOK,
         READ_COMMAND_MAX_SIZE, WRITE_COMMAND_MAX_SIZE
    <2>3. CASE Wake \/ CopyByte \/ FetchSize \/ RejectCommand \/ ExecuteWrite
               \/ ResetReplyIndex
      BY <1>2, <2>3 DEF Wake, CopyByte, FetchSize, RejectCommand, ExecuteWrite,
         ResetReplyIndex, Return, TtcServed
    <2>4. CASE ExecuteRead \/ StoreReplyByte \/ StoreReplySize
      BY <1>2, <2>4 DEF ExecuteRead, StoreReplyByte, StoreReplySize, Return,
         TtcServed
    <2>5. CASE UNCHANGED vars
      BY <2>1, <2>5 DEF vars, serverVars
    <2> QED BY <1>2, <2>1, <2>2, <2>3, <2>4, <2>5, ObdhFootprint, TtcFootprint,
         ReadSensorsFootprint DEF Next, Server
  <1> QED BY <1>1, <1>2

\* The server has something to do for a request that is awaited: it is still to
\* be fetched, or on its way.
LEMMA AwaitedState ==
    ASSUME DeliveryInv, Awaited
    PROVE  Notified \/ (Serving /\ Fetched)
  BY DEF DeliveryInv, Awaited

\* The steps left are counted by natural numbers.
LEMMA StepsLeftRange ==
    ASSUME TypeOK, NEW n \in {2, 6, 7}, pc = "copy" => count <= n
    PROVE  StepsLeft(n) \in 1..n + 3
  <1>1. count \in 0..15 /\ copied \in 0..15
    BY DEF TypeOK, ServerTypeOK
  <1> QED BY <1>1 DEF StepsLeft

\* There are at most 20 of them.
LEMMA RemainingRange ==
    ASSUME TypeOK, TtcServed, DeliveryInv, Awaited
    PROVE  Remaining \in 1..20
  <1>1. Size(obdh.req) \in {2, 6}
    BY SizeValue
  <1>2. CASE pc = "wait"
    BY <1>1, <1>2 DEF Remaining
  <1>3. CASE pc # "wait" /\ source = "I2C"
    <2>1. pc = "copy" => count <= Size(obdh.req)
      BY <1>1, <1>3, AwaitedState DEF Notified, Fetched
    <2>2. StepsLeft(Size(obdh.req)) \in 1..Size(obdh.req) + 3
      BY <1>1, <2>1, StepsLeftRange
    <2> QED BY <1>1, <1>3, <2>2 DEF Remaining
  <1>4. CASE pc # "wait" /\ source # "I2C"
    <2>1. StepsLeft(7) \in 1..7 + 3
      BY <1>4, StepsLeftRange DEF TtcServed, WRITE_COMMAND_MAX_SIZE
    <2> QED BY <1>1, <1>4, <2>1 DEF Remaining, WRITE_COMMAND_MAX_SIZE
  <1> QED BY <1>2, <1>3, <1>4

\* Within one command, each step of the server takes one from what is left.
LEMMA StepsLeftServer ==
    ASSUME TypeOK, NEW n \in {2, 6, 7}, UNCHANGED source,
           CallCopy \/ CopyByte \/ FetchSize,
           pc = "call" => DataSize \in 0..n
    PROVE  /\ StepsLeft(n) \in Int /\ StepsLeft(n)' \in Int
           /\ StepsLeft(n)' < StepsLeft(n)
  <1>1. count \in 0..15 /\ copied \in 0..15
    BY DEF TypeOK, ServerTypeOK
  <1>2. CASE CallCopy
    <2> DEFINE d == DataSize
    <2>1. pc = "call" /\ pc' = "copy" /\ count' = d /\ copied' = 0 /\ d \in 0..n
      BY <1>2 DEF CallCopy
    <2>2. StepsLeft(n) = n + 3
      BY <2>1 DEF StepsLeft
    <2>3. StepsLeft(n)' = (IF 0 < d THEN d - 0 ELSE 0) + 2
      BY <2>1 DEF StepsLeft
    <2> HIDE DEF d
    <2> QED BY <2>1, <2>2, <2>3
  <1>3. CASE CopyByte
    <2> DEFINE c == copied
               k == count
    <2>1. pc = "copy" /\ pc' = "copy" /\ count' = k /\ copied' = c + 1 /\ c < k
          /\ c \in 0..15 /\ k \in 0..15
      BY <1>1, <1>3 DEF CopyByte
    <2>2. StepsLeft(n) = (k - c) + 2
      BY <2>1 DEF StepsLeft
    <2>3. StepsLeft(n)' = (IF c + 1 < k THEN k - (c + 1) ELSE 0) + 2
      BY <2>1 DEF StepsLeft
    <2> HIDE DEF c, k
    <2> QED BY <2>1, <2>2, <2>3
  <1>4. CASE FetchSize
    <2>1. pc = "copy" /\ pc' = "decode" /\ ~(copied < count)
      BY <1>1, <1>4 DEF FetchSize
    <2> QED BY <2>1 DEF StepsLeft
  <1> QED BY <1>2, <1>3, <1>4

\* A step of the server brings the execution of an awaited request nearer.
LEMMA RemainingServer ==
    ASSUME TypeOK, TtcServed, LinkInv, DeliveryInv, Server, Awaited, Awaited'
    PROVE  Remaining' < Remaining
  <1> DEFINE n == Size(obdh.req)
  <1>1. n \in {2, 6} /\ Size(obdh.req)' = n
    BY SizeValue, ServerFootprint
  <1>2. CASE Notified /\ Wake
    <2>1. pc = "wait" /\ source' = "I2C" /\ pc' = "call"
      BY <1>2 DEF Notified, Wake
    <2>2. Remaining = n + 4 /\ Remaining' = n + 3
      BY <1>1, <2>1 DEF Remaining, StepsLeft
    <2> QED BY <1>1, <2>2
  <1>3. CASE Notified /\ ~Wake
    <2>1. UNCHANGED <<source, notification>> /\ pc # "wait" /\ source # "I2C"
          /\ pc \notin {"store", "index"}
      BY <1>3, ServerStays DEF Server, Wake, CallCopy, CopyByte, FetchSize,
         RejectCommand, ExecuteWrite, ExecuteRead, StoreReplyByte, StoreReplySize,
         ResetReplyIndex, Notified, TtcServed
    <2>2. CASE CallCopy \/ CopyByte \/ FetchSize
      <3>1. pc' # "wait"
        BY <2>1, <2>2 DEF CallCopy, CopyByte, FetchSize
      <3>2. DataSize \in 0..7
        BY <2>1 DEF DataSize, TypeOK, UartTypeOK, READ_COMMAND_MAX_SIZE,
           WRITE_COMMAND_MAX_SIZE
      <3> DEFINE s == StepsLeft(7)
      <3>3. s \in Int /\ s' \in Int /\ s' < s
        BY <2>1, <2>2, <3>2, StepsLeftServer
      <3>4. Remaining = s + n + 4 /\ Remaining' = s' + n + 4
        BY <1>1, <2>1, <3>1 DEF Remaining, WRITE_COMMAND_MAX_SIZE
      <3> HIDE DEF s
      <3> QED BY <1>1, <3>3, <3>4
    <2>3. CASE RejectCommand \/ ExecuteWrite \/ ExecuteRead
      <3>1. pc' = "wait" /\ pc = "decode"
        BY <2>1, <2>3 DEF RejectCommand, ExecuteWrite, ExecuteRead, Return
      <3>2. Remaining = 1 + n + 4 /\ Remaining' = n + 4
        BY <1>1, <2>1, <3>1 DEF Remaining, StepsLeft
      <3> QED BY <1>1, <3>2
    <2> QED BY <1>3, <2>1, <2>2, <2>3
         DEF Server, StoreReplyByte, StoreReplySize, ResetReplyIndex
  <1>4. CASE Serving /\ Fetched
    <2>1. UNCHANGED <<source, notification>> /\ source = "I2C" /\ pc # "wait"
      BY <1>4, ServerStays DEF Serving, Fetched, Wake
    <2>2. CASE CallCopy \/ CopyByte \/ FetchSize
      <3>1. pc' # "wait"
        BY <2>1, <2>2 DEF CallCopy, CopyByte, FetchSize
      <3>2. pc = "call" => DataSize \in 0..n
        BY <1>1, <1>4, <2>1 DEF DataSize, Fetched, Received
      <3>3. StepsLeft(n)' < StepsLeft(n)
        BY <1>1, <2>1, <2>2, <3>2, StepsLeftServer
      <3> QED BY <1>1, <2>1, <3>1, <3>3 DEF Remaining
    <2>3. CASE ~(CallCopy \/ CopyByte \/ FetchSize)
      <3>1. pc = "decode" /\ size = n /\ Sent(buf, size)
        BY <1>4, <2>1, <2>3 DEF Fetched, Server, Wake, RejectCommand, ExecuteWrite,
           ExecuteRead, StoreReplyByte, StoreReplySize, ResetReplyIndex
      <3>2. Decoded # NoFrame
        BY <1>4, <3>1, DecodedIsRequest DEF Awaited
      <3>3. ExecuteWrite \/ ExecuteRead
        BY <2>3, <3>1, <3>2 DEF Server, Wake, RejectCommand, StoreReplyByte,
           StoreReplySize, ResetReplyIndex
      <3>4. served' = 1
        BY <2>1, <3>3 DEF ExecuteWrite, ExecuteRead, Executed, Awaited
      <3> QED BY <3>4 DEF Awaited
    <2> QED BY <2>2, <2>3
  <1> QED BY <1>2, <1>3, <1>4, AwaitedState

\* What is left is not changed by the OBDH, which waits, nor by the others.
LEMMA RemainingOthers ==
    ASSUME ObdhPatient, LinkInv, DeliveryInv, [Next]_vars, ~Server, Awaited
    PROVE  Remaining' = Remaining
  <1>1. ~ServerIdleFor("I2C")
    BY RestServed DEF Awaited
  <1>2. obdh.mode = "wait"
    BY <1>1 DEF LinkInv
  <1>3. ~Obdh
    <2>1. ASSUME NEW f PROVE ~ObdhStart(f)
      BY <1>1 DEF ObdhStart, MayStart
    <2>2. ~ObdhSendByte /\ ~ObdhStop
      BY <1>2 DEF ObdhSendByte, ObdhStop
    <2>3. ~ObdhReadStart
      BY <1>1 DEF ObdhReadStart, MayStart
    <2>4. ~ObdhReadByte /\ ~ObdhReadStop
      BY <1>2 DEF ObdhReadByte, ObdhReadStop
    <2> QED BY <2>1, <2>2, <2>3, <2>4 DEF Obdh
  <1>4. UNCHANGED <<serverVars, obdh>>
    BY <1>3, TtcFootprint, ReadSensorsFootprint DEF Next, vars
  <1> QED BY <1>4 DEF Remaining, StepsLeft, serverVars

\* The invariant that follows a whole request to its execution.
ServedInv == TypeInv /\ LinkInv /\ DeliveryInv /\ TtcServed

\* It is inductive for an OBDH that waits.
LEMMA ServedInductive ==
    /\ Init => ServedInv
    /\ ObdhPatient /\ ServedInv /\ [Next]_vars => ServedInv'
  BY TypeInit, TypeStep, DeliveryInit, DeliveryStep, TtcServedStep
  DEF ServedInv, TypeInv

\* A request an OBDH that waits has sent whole is executed within 20 steps of the
\* server: the bound and the measure that EventuallyServed needs nothing but
\* the fairness of the server besides.
THEOREM RequestsServedSoon == ASSUME ObdhPatient PROVE Spec => ServedSoon
  <1>1. ServedInv => (Awaited => /\ Remaining \in 1..20
                                 /\ pc = "wait" => "I2C" \in notification)
    <2> SUFFICES ASSUME ServedInv, Awaited
                 PROVE  /\ Remaining \in 1..20
                        /\ pc = "wait" => "I2C" \in notification
      OBVIOUS
    <2>1. Remaining \in 1..20
      BY RemainingRange DEF ServedInv, TypeInv
    <2>2. pc = "wait" => "I2C" \in notification
      BY AwaitedState DEF ServedInv, Notified, Fetched
    <2> QED BY <2>1, <2>2
  <1>2. ASSUME ServedInv, [Next]_vars, Awaited, Awaited'
        PROVE  IF Server THEN Remaining' < Remaining ELSE Remaining' <= Remaining
    <2>1. CASE Server
      BY <1>2, <2>1, RemainingServer DEF ServedInv, TypeInv
    <2>2. CASE ~Server
      <3>1. Remaining' = Remaining /\ Remaining \in 1..20
        BY <1>2, <2>2, RemainingOthers, RemainingRange DEF ServedInv, TypeInv
      <3> QED BY <2>2, <3>1
    <2> QED BY <2>1, <2>2
  <1>3. ServedInv /\ [Next]_vars
           => [Awaited /\ Awaited' => IF Server THEN Remaining' < Remaining
                                     ELSE Remaining' <= Remaining]_vars
    BY <1>2
  <1> QED BY <1>1, <1>3, ServedInductive, PTL DEF Spec, ServedSoon

\* What a request cut short leaves in the driver, and what the server may fetch
\* of it: fewer bytes than a request has.
CutInv ==
    obdh.mode = "wait" /\ ~obdh.whole =>
        /\ obdh.pos < Size(obdh.req)
        /\ i2c_rx_data_size = obdh.pos
        /\ source = "I2C" /\ pc = "decode" => size = obdh.pos

\* It is inductive for an OBDH that waits.
LEMMA CutInductive ==
    /\ Init => CutInv
    /\ ObdhPatient /\ ServedInv /\ CutInv /\ [Next]_vars => CutInv'
  <1>1. Init => CutInv
    BY DEF Init, CutInv
  <1>2. ASSUME ObdhPatient, ServedInv, CutInv, [Next]_vars PROVE CutInv'
    <2>1. CASE UNCHANGED <<i2cVars, serverVars, obdh>>
      BY <1>2, <2>1 DEF CutInv, i2cVars, rxVars, serverVars
    <2>2. CASE Server
      <3>1. UNCHANGED <<i2c_rx_data_size, obdh>>
        BY <2>2, ServerFootprint DEF rxVars
      <3>2. pc' = "decode" /\ source' = "I2C"
              => \/ size' = i2c_rx_data_size
                 \/ pc = "decode" /\ source = "I2C" /\ size' = size
        BY <2>2 DEF Server, Wake, CallCopy, CopyByte, FetchSize, DataSize,
           RejectCommand, ExecuteWrite, ExecuteRead, StoreReplyByte,
           StoreReplySize, ResetReplyIndex, Return
      <3> QED BY <1>2, <3>1, <3>2 DEF CutInv
    <2>3. CASE Obdh
      <3>0. UNCHANGED <<pc, source, size>> /\ obdh \in ObdhState
        BY <1>2, <2>3, ObdhFootprint
        DEF serverVars, ServedInv, TypeInv, TypeOK, PeersTypeOK
      <3>1. CASE ObdhStop
        <4>1. /\ obdh.mode = "send" /\ i2c_rx_data_size' = i2c_rx_buffer_index
              /\ obdh' = [obdh EXCEPT !.mode = "wait",
                                      !.whole = obdh.pos = Size(obdh.req)]
          BY <3>1 DEF ObdhStop, IsrStop
        <4>2. /\ obdh'.pos = obdh.pos /\ obdh'.req = obdh.req
              /\ obdh'.whole = (obdh.pos = Size(obdh.req))
          BY <3>0, <4>1 DEF ObdhState
        <4>3. /\ i2c_rx_data_size' = obdh.pos /\ obdh.pos <= Size(obdh.req)
              /\ ServerIdleFor("I2C")
          BY <1>2, <4>1 DEF ServedInv, LinkInv
        <4>4. obdh.pos \in Int /\ Size(obdh.req) \in Int
          BY <3>0, SizeValue DEF ObdhState
        <4>5. obdh.pos # Size(obdh.req) => obdh.pos < Size(obdh.req)
          BY <4>3, <4>4
        <4>6. ~(source' = "I2C" /\ pc' = "decode")
          BY <3>0, <4>3 DEF ServerIdleFor
        <4> QED BY <4>2, <4>3, <4>5, <4>6 DEF CutInv
      <3>2. CASE ObdhReadStop
        BY <1>2, <3>0, <3>2 DEF ObdhReadStop, ServedInv, LinkInv, ObdhState, CutInv
      <3>3. CASE ~ObdhStop /\ ~ObdhReadStop
        <4>1. ASSUME NEW f, ObdhStart(f) PROVE obdh'.mode = "send"
          BY <3>0, <4>1 DEF ObdhStart, ObdhState
        <4>2. CASE ObdhSendByte
          BY <3>0, <4>2 DEF ObdhSendByte, ObdhState, CutInv
        <4>3. CASE ObdhReadStart \/ ObdhReadByte
          <5>1. obdh'.mode = "read"
            BY <3>0, <4>3 DEF ObdhReadStart, ObdhReadByte, ObdhState
          <5> QED BY <5>1 DEF CutInv
        <4> QED BY <2>3, <3>3, <4>1, <4>2, <4>3 DEF Obdh, CutInv
      <3> QED BY <3>1, <3>2, <3>3
    <2> QED BY <1>2, <2>1, <2>2, <2>3, TtcFootprint, ReadSensorsFootprint
         DEF Next, vars
  <1> QED BY <1>1, <1>2

\* Only six bytes are decoded as a write of the OBDH.
LEMMA DecodedWrite ==
    ASSUME source = "I2C", Decoded.cmd = "write"
    PROVE  size = 6
  BY DEF Decoded, ObdhDecode, ObdhDecodeAs, Assembled, NoFrame,
     OBDH_COMMAND_WRITE_SIZE, OBDH_COMMAND_READ_SIZE

\* With an OBDH that waits, a register is written for it only by the request it
\* has just sent whole; the frame of zeros, which the CRC lets through, is no
\* exception to that.
THEOREM OnlyWholeRequestsWrite == ASSUME ObdhPatient PROVE Spec => OnlyRequestsWrite
  <1>1. ASSUME ServedInv, CutInv, ExecuteWrite, source = "I2C"
        PROVE  Pending /\ obdh.whole /\ served = 0 /\ Decoded = obdh.req
    <2>1. pc = "decode" /\ Decoded.cmd = "write"
      BY <1>1 DEF ExecuteWrite
    <2>2. obdh.mode = "wait"
      BY <1>1, <2>1 DEF ServedInv, LinkInv, ServerIdleFor
    <2>3. size = 6
      BY <1>1, <2>1, DecodedWrite
    <2>4. obdh.whole
      BY <1>1, <2>1, <2>2, <2>3, SizeValue DEF CutInv
    <2>5. Pending
      BY <2>2 DEF Pending
    <2> QED BY <1>1, <2>1, <2>4, <2>5, ExecutesRequest DEF ServedInv, TypeInv
  <1>2. ServedInv /\ CutInv /\ [Next]_vars
           => [ExecuteWrite /\ source = "I2C" =>
                  Pending /\ obdh.whole /\ served = 0 /\ Decoded = obdh.req]_vars
    BY <1>1
  <1> QED BY <1>2, ServedInductive, CutInductive, PTL DEF Spec, OnlyRequestsWrite

-----------------------------------------------------------------------------
(* The bytes of the commands, whatever the links do.                       *)

\* The OBDH has begun to send its requests only; a part of the one it sends is
\* in the receive buffer, whose bytes, and those of the copy, are in their places.
PiecesInv ==
    /\ PiecesSent
    /\ \A k \in 1..Len(log["I2C"]) : log["I2C"][k] \in ObdhRequests
    /\ \A i \in 0..15 : PieceSent(i, i2c_rx_buffer[i])
    /\ source = "I2C" => \A i \in 0..15 : PieceSent(i, buf[i])
    /\ pc = "wait" => buf = EmptyBuf
    /\ obdh.mode = "send" =>
          /\ i2c_rx_buffer_index = obdh.pos
          /\ \E k \in 1..Len(log["I2C"]) : log["I2C"][k] = obdh.req
    /\ obdh.mode # "send" => i2c_rx_buffer_index = 0

\* Initially the buffers are empty.
LEMMA PiecesInit == Init => PiecesInv
  <1> SUFFICES ASSUME Init PROVE PiecesInv
    OBVIOUS
  <1>1. /\ \A i \in 0..15 : i2c_rx_buffer[i] = ZeroByte /\ buf[i] = ZeroByte
        /\ i2c_rx_buffer_index = 0 /\ buf = EmptyBuf
        /\ obdh.mode = "idle" /\ cmd = NoFrame /\ log["I2C"] = <<>>
    BY DEF Init, I2cInit, EmptyBuf, I2C_RX_BUFFER_MAX_SIZE, Links
  <1> QED BY <1>1 DEF PiecesInv, PiecesSent, PieceSent

\* The OBDH's log only grows, by its requests.
LEMMA LogChange ==
    ASSUME TypeOK, [Next]_vars
    PROVE  \/ log'["I2C"] = log["I2C"]
           \/ \E f \in ObdhRequests : log'["I2C"] = Append(log["I2C"], f)
  <1>1. log \in [Links -> Seq(Frame)] /\ "I2C" \in Links /\ "UART" \in Links
    BY DEF TypeOK, HistoryTypeOK, Links
  <1>2. CASE Obdh
    <2>1. ASSUME NEW f \in ObdhRequests, ObdhStart(f)
          PROVE  log'["I2C"] = Append(log["I2C"], f)
      BY <1>1, <2>1 DEF ObdhStart
    <2>2. CASE ObdhSendByte \/ ObdhStop
      BY <2>2 DEF ObdhSendByte, ObdhStop, historyVars
    <2>3. CASE ObdhReadStart \/ ObdhReadByte
      BY <2>3, Zenon DEF ObdhReadStart, ObdhReadByte, historyVars
    <2>4. CASE ObdhReadStop
      BY <2>4 DEF ObdhReadStop
    <2> QED BY <1>2, <2>1, <2>2, <2>3, <2>4 DEF Obdh
  <1>3. CASE Ttc
    <2>1. ASSUME NEW f, TtcStart(f) PROVE log'["I2C"] = log["I2C"]
      BY <1>1, <2>1 DEF TtcStart
    <2>2. CASE TtcSendByte \/ TtcSpareByte
      <3>1. UNCHANGED log
        BY <2>2, Zenon DEF TtcSendByte, TtcSpareByte, historyVars
      <3> QED BY <3>1
    <2> QED BY <1>3, <2>1, <2>2 DEF Ttc
  <1>4. CASE Server \/ ReadSensors \/ UNCHANGED vars
    BY <1>4, ServerFootprint, ReadSensorsFootprint DEF vars, historyVars
  <1> QED BY <1>2, <1>3, <1>4 DEF Next

\* So what was sent stays sent.
LEMMA PieceGrows ==
    ASSUME TypeOK, [Next]_vars
    PROVE  /\ \A i, b : PieceSent(i, b) => PieceSent(i, b)'
           /\ \A f : (\E k \in 1..Len(log["I2C"]) : log["I2C"][k] = f)
                       => \E k \in 1..Len(log'["I2C"]) : log'["I2C"][k] = f
           /\ (\A k \in 1..Len(log["I2C"]) : log["I2C"][k] \in ObdhRequests)
                => \A k \in 1..Len(log'["I2C"]) : log'["I2C"][k] \in ObdhRequests
  <1> DEFINE s == log["I2C"]
  <1>1. s \in Seq(Frame)
    BY DEF TypeOK, HistoryTypeOK, Links
  <1>2. CASE log'["I2C"] = s
    BY <1>2 DEF PieceSent
  <1>3. CASE \E f \in ObdhRequests : log'["I2C"] = Append(s, f)
    <2>1. PICK f \in ObdhRequests : log'["I2C"] = Append(s, f)
      BY <1>3
    <2>2. /\ \A k \in 1..Len(s) : /\ k \in 1..Len(log'["I2C"])
                                  /\ log'["I2C"][k] = s[k]
          /\ \A k \in 1..Len(log'["I2C"]) :
                \/ k \in 1..Len(s) /\ log'["I2C"][k] = s[k]
                \/ log'["I2C"][k] = f
      <3> HIDE DEF s
      <3> QED BY <1>1, <2>1
    <2>3. \A i, b : PieceSent(i, b) => PieceSent(i, b)'
      BY <2>2 DEF PieceSent
    <2> QED BY <2>1, <2>2, <2>3
  <1> QED BY <1>2, <1>3, LogChange

\* What a step of the server makes of its copy: a byte it had, of the receive
\* buffer of its link, or none.
LEMMA CopyServer ==
    ASSUME TypeOK, pc = "wait" => buf = EmptyBuf, Server
    PROVE  /\ pc' = "wait" => buf' = EmptyBuf
           /\ \A i \in 0..15 :
                 \/ buf'[i] = ZeroByte
                 \/ source' = source /\ buf'[i] \in {buf[i], RxByte(i)}
  <1>1. buf \in [0..15 -> Byte]
    BY DEF TypeOK, ServerTypeOK
  <1>2. \A i \in 0..15 : EmptyBuf[i] = ZeroByte
    BY DEF EmptyBuf
  <1>3. CASE Wake
    BY <1>2, <1>3 DEF Wake
  <1>4. CASE CallCopy \/ FetchSize
    BY <1>4 DEF CallCopy, FetchSize
  <1>5. CASE CopyByte
    <2>1. /\ buf' = [buf EXCEPT ![copied] = RxByte(copied)]
          /\ UNCHANGED <<source, pc>> /\ pc = "copy"
      BY <1>5 DEF CopyByte
    <2>2. \A i \in 0..15 : buf'[i] \in {buf[i], RxByte(i)}
      BY <1>1, <2>1
    <2> QED BY <2>1, <2>2
  <1>6. CASE RejectCommand \/ ExecuteWrite \/ ResetReplyIndex
    BY <1>2, <1>6 DEF RejectCommand, ExecuteWrite, ResetReplyIndex, Return
  <1>7. CASE ExecuteRead
    <2>1. Return \/ (UNCHANGED <<buf, source>> /\ pc' = "store")
      BY <1>7 DEF ExecuteRead
    <2> QED BY <1>2, <2>1 DEF Return
  <1>8. CASE StoreReplyByte \/ StoreReplySize
    BY <1>8 DEF StoreReplyByte, StoreReplySize
  <1> QED BY <1>3, <1>4, <1>5, <1>6, <1>7, <1>8 DEF Server

\* The command is kept, forgotten, or the one just decoded.
LEMMA CommandServer ==
    ASSUME Server
    PROVE  cmd' = NoFrame \/ (source' = source /\ cmd' \in {cmd, Decoded})
  <1>1. CASE Wake
    BY <1>1 DEF Wake
  <1>2. CASE CallCopy \/ CopyByte \/ FetchSize \/ RejectCommand
    BY <1>2 DEF CallCopy, CopyByte, FetchSize, RejectCommand
  <1>3. CASE ExecuteWrite \/ ExecuteRead
    BY <1>3 DEF ExecuteWrite, ExecuteRead, Executed
  <1>4. CASE StoreReplyByte \/ StoreReplySize \/ ResetReplyIndex
    BY <1>4 DEF StoreReplyByte, StoreReplySize, ResetReplyIndex
  <1> QED BY <1>1, <1>2, <1>3, <1>4 DEF Server

\* The bytes of what the server decodes are those of its copy.
LEMMA DecodedBytes ==
    ASSUME TypeOK, source = "I2C", Decoded # NoFrame
    PROVE  \A i \in 0..Size(Decoded) - 1 :
              i \in 0..15 /\ ByteAt(Decoded, i) = buf[i]
  <1>1. \A i \in 0..5 : buf[i] \in Byte
    BY DEF TypeOK, ServerTypeOK
  <1>2. Decoded = ObdhDecode(buf, size)
    BY DEF Decoded
  <1>3. \A i \in 0..Size(Decoded) - 1 :
           i \in 0..5 /\ ByteAt(Decoded, i) = buf[i]
    BY <1>1, <1>2, DecodedPieces
  <1> QED BY <1>3

\* A step of the server keeps every byte in its place.
LEMMA PiecesServer == ASSUME TypeOK, PiecesInv, Server PROVE PiecesInv'
  <1>1. /\ UNCHANGED <<rxVars, obdh, log>> /\ [Next]_vars
        /\ UNCHANGED <<i2c_rx_buffer, i2c_rx_buffer_index>>
    BY ServerFootprint DEF rxVars, Next
  <1>2. \A i, b : PieceSent(i, b)' <=> PieceSent(i, b)
    BY <1>1 DEF PieceSent
  <1>3. PiecesSent'
    <2> SUFFICES ASSUME cmd' # NoFrame, source' = "I2C",
                        NEW i \in 0..Size(cmd') - 1
                 PROVE  PieceSent(i, ByteAt(cmd', i))
      BY <1>2 DEF PiecesSent
    <2>1. CASE source' = source /\ cmd' = cmd
      BY <2>1 DEF PiecesInv, PiecesSent
    <2>2. CASE source' = source /\ cmd' = Decoded
      <3>1. i \in 0..15 /\ ByteAt(cmd', i) = buf[i]
        BY <2>2, DecodedBytes
      <3> QED BY <2>2, <3>1 DEF PiecesInv
    <2> QED BY <2>1, <2>2, CommandServer
  <1>4. ASSUME source' = "I2C", NEW i \in 0..15 PROVE PieceSent(i, buf'[i])
    <2>1. buf'[i] = ZeroByte \/ (source = "I2C" /\ buf'[i] \in {buf[i], RxByte(i)})
      BY <1>4, CopyServer DEF PiecesInv
    <2>2. CASE buf'[i] = ZeroByte
      BY <2>2 DEF PieceSent
    <2>3. CASE source = "I2C" /\ buf'[i] = buf[i]
      BY <2>3 DEF PiecesInv
    <2>4. CASE source = "I2C" /\ buf'[i] = RxByte(i)
      BY <2>4 DEF PiecesInv, RxByte
    <2> QED BY <2>1, <2>2, <2>3, <2>4
  <1>5. pc' = "wait" => buf' = EmptyBuf
    BY CopyServer DEF PiecesInv
  <1> QED BY <1>1, <1>2, <1>3, <1>4, <1>5 DEF PiecesInv

\* So does a step of the OBDH.
LEMMA PiecesObdh == ASSUME TypeOK, PiecesInv, Obdh PROVE PiecesInv'
  <1>0. /\ UNCHANGED <<pc, source, buf, cmd>> /\ [Next]_vars
        /\ obdh \in ObdhState
    BY ObdhFootprint DEF serverVars, Next, TypeOK, PeersTypeOK
  <1>1. /\ PiecesSent'
        /\ \A k \in 1..Len(log'["I2C"]) : log'["I2C"][k] \in ObdhRequests
        /\ source' = "I2C" => \A i \in 0..15 : PieceSent(i, buf[i])'
        /\ pc' = "wait" => buf' = EmptyBuf
    BY <1>0, PieceGrows DEF PiecesInv, PiecesSent
  <1>2. ASSUME UNCHANGED i2c_rx_buffer, obdh'.mode # "send",
               i2c_rx_buffer_index' = 0
        PROVE  PiecesInv'
    <2>1. \A i \in 0..15 : PieceSent(i, i2c_rx_buffer[i])'
      BY <1>0, <1>2, PieceGrows DEF PiecesInv
    <2> QED BY <1>1, <1>2, <2>1 DEF PiecesInv
  <1>3. ASSUME NEW f \in ObdhRequests, ObdhStart(f) PROVE PiecesInv'
    <2>1. /\ obdh.mode # "send" /\ obdh'.mode = "send" /\ obdh'.pos = 0
          /\ obdh'.req = f /\ UNCHANGED <<i2c_rx_buffer, i2c_rx_buffer_index>>
      BY <1>0, <1>3 DEF ObdhStart, ObdhState, i2cVars, rxVars
    <2>2. \E k \in 1..Len(log'["I2C"]) : log'["I2C"][k] = f
      <3>1. log["I2C"] \in Seq(Frame) /\ log'["I2C"] = Append(log["I2C"], f)
        BY <1>3 DEF ObdhStart, TypeOK, HistoryTypeOK, Links
      <3>2. /\ Len(log["I2C"]) + 1 \in 1..Len(log'["I2C"])
            /\ log'["I2C"][Len(log["I2C"]) + 1] = f
        BY <3>1
      <3> QED BY <3>2
    <2>3. \A i \in 0..15 : PieceSent(i, i2c_rx_buffer[i])'
      BY <1>0, <2>1, PieceGrows DEF PiecesInv
    <2>4. i2c_rx_buffer_index = 0
      BY <2>1 DEF PiecesInv
    <2> QED BY <1>1, <2>1, <2>2, <2>3, <2>4 DEF PiecesInv
  <1>4. CASE ObdhSendByte
    <2>1. /\ obdh.mode = "send" /\ obdh.pos < Size(obdh.req)
          /\ i2c_rx_buffer' = [i2c_rx_buffer EXCEPT ![i2c_rx_buffer_index] =
                                   ByteAt(obdh.req, obdh.pos)]
          /\ i2c_rx_buffer_index' = (i2c_rx_buffer_index + 1) % 16
      BY <1>4 DEF ObdhSendByte, IsrReceive, I2C_RX_BUFFER_MAX_SIZE
    <2>2. /\ obdh'.mode = "send" /\ obdh'.req = obdh.req
          /\ obdh'.pos = obdh.pos + 1
      BY <1>0, <1>4 DEF ObdhSendByte, ObdhState
    <2>3. /\ obdh.pos \in 0..6 /\ i2c_rx_buffer \in [0..15 -> Byte]
      BY <1>0 DEF ObdhState, TypeOK, I2cTypeOK, I2C_RX_BUFFER_MAX_SIZE
    <2>4. i2c_rx_buffer_index = obdh.pos
      BY <2>1 DEF PiecesInv
    <2>5. PICK k \in 1..Len(log["I2C"]) : log["I2C"][k] = obdh.req
      BY <2>1 DEF PiecesInv
    <2>6. PieceSent(obdh.pos, ByteAt(obdh.req, obdh.pos))
      BY <2>1, <2>5 DEF PieceSent
    <2>7. \A i \in 0..15 :
             \/ i2c_rx_buffer'[i] = i2c_rx_buffer[i]
             \/ i = obdh.pos /\ i2c_rx_buffer'[i] = ByteAt(obdh.req, obdh.pos)
      BY <2>1, <2>3, <2>4
    <2>8. \A i \in 0..15 : PieceSent(i, i2c_rx_buffer'[i])
      BY <2>6, <2>7 DEF PiecesInv
    <2>9. \A i \in 0..15 : PieceSent(i, i2c_rx_buffer[i])'
      BY <1>0, <2>8, PieceGrows
    <2>10. i2c_rx_buffer_index' = obdh'.pos
      BY <2>1, <2>2, <2>3, <2>4
    <2>11. \E j \in 1..Len(log'["I2C"]) : log'["I2C"][j] = obdh'.req
      BY <1>0, <2>2, <2>5, PieceGrows
    <2> QED BY <1>1, <2>2, <2>9, <2>10, <2>11 DEF PiecesInv
  <1>5. CASE ObdhStop
    <2>1. /\ obdh'.mode = "wait" /\ UNCHANGED i2c_rx_buffer
          /\ i2c_rx_buffer_index' = 0
      BY <1>0, <1>5 DEF ObdhStop, IsrStop, ObdhState
    <2> QED BY <1>2, <2>1
  <1>6. CASE ObdhReadStart
    <2>1. /\ obdh.mode = "wait" /\ obdh'.mode = "read"
          /\ UNCHANGED <<i2c_rx_buffer, i2c_rx_buffer_index>>
      BY <1>0, <1>6 DEF ObdhReadStart, ObdhState, i2cVars, rxVars
    <2>2. i2c_rx_buffer_index = 0
      BY <2>1 DEF PiecesInv
    <2> QED BY <1>2, <2>1, <2>2
  <1>7. CASE ObdhReadByte
    <2>1. UNCHANGED <<i2c_rx_buffer, i2c_rx_buffer_index>>
      BY <1>7 DEF ObdhReadByte, IsrTransmit, rxVars
    <2>2. obdh.mode = "read"
      BY <1>7 DEF ObdhReadByte
    <2>3. \E b : obdh' = [obdh EXCEPT !.got = Append(@, b)]
      BY <1>7, Zenon DEF ObdhReadByte
    <2>4. obdh'.mode = "read"
      BY <1>0, <2>2, <2>3 DEF ObdhState
    <2>5. i2c_rx_buffer_index = 0
      BY <2>2 DEF PiecesInv
    <2> QED BY <1>2, <2>1, <2>4, <2>5
  <1>8. CASE ObdhReadStop
    <2>1. UNCHANGED i2c_rx_buffer /\ i2c_rx_buffer_index' = 0
      BY <1>8 DEF ObdhReadStop, IsrStop
    <2>2. obdh'.mode = "wait"
      BY <1>0, <1>8, Zenon DEF ObdhReadStop, ObdhState
    <2> QED BY <1>2, <2>1, <2>2
  <1> QED BY <1>3, <1>4, <1>5, <1>6, <1>7, <1>8 DEF Obdh

\* Every step keeps it.
LEMMA PiecesStep == ASSUME TypeOK, PiecesInv, [Next]_vars PROVE PiecesInv'
  <1>1. CASE Server
    BY <1>1, PiecesServer
  <1>2. CASE Obdh
    BY <1>2, PiecesObdh
  <1>3. CASE Ttc \/ ReadSensors \/ UNCHANGED vars
    <2>1. UNCHANGED <<i2cVars, serverVars, obdh>>
      BY <1>3, TtcFootprint, ReadSensorsFootprint DEF vars
    <2>2. UNCHANGED <<i2c_rx_buffer, i2c_rx_buffer_index, pc, source, buf, cmd>>
      BY <2>1 DEF i2cVars, rxVars, serverVars
    <2> QED BY <2>1, <2>2, PieceGrows DEF PiecesInv, PiecesSent
  <1> QED BY <1>1, <1>2, <1>3 DEF Next

\* However the frames of the OBDH are cut, and whenever its handler runs while the
\* server copies, each byte of a command the server executes for it is in the place
\* where the OBDH sent it, or zero.
THEOREM CommandPieces == Spec => []PiecesSent
  <1>1. TypeInv => TypeOK
    BY DEF TypeInv
  <1>2. PiecesInv => PiecesSent
    BY DEF PiecesInv
  <1>3. TypeInv /\ PiecesInv /\ [Next]_vars => TypeInv' /\ PiecesInv'
    BY <1>1, TypeStep, PiecesStep
  <1> QED BY <1>2, <1>3, TypeInit, PiecesInit, PTL DEF Spec

-----------------------------------------------------------------------------
(* Registers are whole between the stores.                                   *)

\* A byte of a frame the TTC may send, or what the buffers hold before.
TtcByte(b) ==
    \/ b = ZeroByte
    \/ \E f \in TtcRequests : \E i \in 0..TtcSize(f) - 1 : b = TtcByteAt(f, i)

\* The bytes received from the TTC are bytes it sent, in whatever order.
TtcBytesInv ==
    /\ \A i \in 0..15 : TtcByte(uart_rx_buffer[i])
    /\ source = "UART" => \A i \in 0..15 : TtcByte(buf[i])
    /\ TtcSending => ttc.req \in TtcRequests

\* Between the two stores of a register it holds the word stored first.
HalfStored ==
    Storing =>
        /\ \E w \in SensorWrites :
              w.adr = sensor.adr /\ sensor.val = Truncate(w.adr, w.val)
        /\ Unaddressed(sensor.adr) =>
              IF sensor.first = "hi"
              THEN eps_data[sensor.adr].hi = sensor.val.hi
              ELSE eps_data[sensor.adr].lo = sensor.val.lo

WholeInv == TtcBytesInv /\ HalfStored /\ WholeUnlessStoring

\* The startup values are stored, and nothing is received.
LEMMA WholeInit == Init => WholeInv
  <1> SUFFICES ASSUME Init PROVE WholeInv
    OBVIOUS
  <1>1. /\ \A i \in 0..15 : uart_rx_buffer[i] = ZeroByte
        /\ source = "I2C" /\ ~TtcSending
    BY DEF Init, UartInit, UART_RX_BUFFER_MAX_SIZE, TtcSending
  <1>2. TtcBytesInv
    BY <1>1 DEF TtcBytesInv, TtcByte
  <1>3. HalfStored /\ WholeUnlessStoring
    BY DEF Init, HalfStored, Storing, WholeUnlessStoring, Stored
  <1> QED BY <1>2, <1>3 DEF WholeInv

\* A step of the TTC puts a byte of a frame of its own into the buffer.
LEMMA TtcBytesTtc == ASSUME TypeInv, TtcBytesInv, Ttc PROVE TtcBytesInv'
  <1>0. UNCHANGED serverVars /\ TypeOK
    BY TtcFootprint DEF TypeInv
  <1>1. /\ ttc \in TtcState /\ ttc.pos \in Nat /\ ttc.pos < TtcSize(ttc.req)
        /\ uart_rx_buffer \in [0..15 -> Byte]
    BY <1>0 DEF TypeInv, TypeOK, PeersTypeOK, TtcState, UartTypeOK,
                UART_RX_BUFFER_MAX_SIZE
  <1>2. source' = "UART" => \A i \in 0..15 : TtcByte(buf'[i])
    BY <1>0 DEF TtcBytesInv, serverVars
  <1>3. ASSUME NEW b, Receive(b), TtcByte(b)
        PROVE  \A i \in 0..15 : TtcByte(uart_rx_buffer'[i])
    <2>1. uart_rx_buffer' = [uart_rx_buffer EXCEPT ![uart_rx_buffer_index] = b]
      BY <1>3 DEF Receive, IsrByte
    <2>2. \A i \in 0..15 : uart_rx_buffer'[i] \in {uart_rx_buffer[i], b}
      BY <1>1, <2>1
    <2> QED BY <1>3, <2>2 DEF TtcBytesInv
  <1>4. \A b : TtcByte(b)' <=> TtcByte(b)
    BY DEF TtcByte
  <1>5. ASSUME NEW f \in TtcRequests, TtcStart(f) PROVE TtcBytesInv'
    <2>1. 0 \in 0..TtcSize(f) - 1
      BY SizeValue DEF TtcSize
    <2>2. TtcByte(TtcByteAt(f, 0))
      BY <2>1 DEF TtcByte
    <2>3. Receive(TtcByteAt(f, 0)) /\ ttc'.req = f
      BY <1>1, <1>5, Zenon DEF TtcStart, TtcState
    <2>4. \A i \in 0..15 : TtcByte(uart_rx_buffer'[i])
      BY <1>3, <2>2, <2>3
    <2> QED BY <1>2, <1>4, <2>3, <2>4 DEF TtcBytesInv
  <1>6. CASE TtcSendByte
    <2>1. TtcSending /\ Receive(TtcByteAt(ttc.req, ttc.pos))
      BY <1>6 DEF TtcSendByte
    <2>2. PICK next \in {0, ttc.pos + 1} \ {TtcSize(ttc.req)} :
             ttc' = [ttc EXCEPT !.pos = next,
                                !.whole = ttc.pos + 1 = TtcSize(ttc.req)]
      BY <1>6, Zenon DEF TtcSendByte
    <2>3. ttc'.req = ttc.req
      BY <1>1, <2>2, Zenon DEF TtcState
    <2>4. ttc.req \in TtcRequests
      BY <2>1 DEF TtcBytesInv
    <2>5. ttc.pos \in 0..TtcSize(ttc.req) - 1
      BY <1>1, SizeValue DEF TtcSize
    <2>6. TtcByte(TtcByteAt(ttc.req, ttc.pos))
      BY <2>4, <2>5 DEF TtcByte
    <2>7. \A i \in 0..15 : TtcByte(uart_rx_buffer'[i])
      BY <1>3, <2>1, <2>6
    <2> QED BY <1>2, <1>4, <2>3, <2>4, <2>7 DEF TtcBytesInv
  <1>7. CASE TtcSpareByte
    <2>1. Receive(ZeroByte) /\ ~TtcSending
      BY <1>7 DEF TtcSpareByte
    <2>2. ttc'.pos = ttc.pos
      BY <1>1, <1>7 DEF TtcSpareByte, TtcState
    <2>3. \A i \in 0..15 : TtcByte(uart_rx_buffer'[i])
      BY <1>3, <2>1 DEF TtcByte
    <2> QED BY <1>2, <1>4, <2>1, <2>2, <2>3 DEF TtcBytesInv, TtcSending
  <1> QED BY <1>5, <1>6, <1>7 DEF Ttc

\* Every step keeps it: the server copies what is in the buffer.
LEMMA TtcBytesStep ==
    ASSUME TypeInv, PiecesInv, TtcBytesInv, [Next]_vars
    PROVE  TtcBytesInv'
  <1>0. \A b : TtcByte(b)' <=> TtcByte(b)
    BY DEF TtcByte
  <1>1. CASE Server
    <2>1. UNCHANGED <<uart_rx_buffer, ttc>>
      BY <1>1, ServerFootprint DEF uartVars
    <2>2. ASSUME source' = "UART", NEW i \in 0..15 PROVE TtcByte(buf'[i])
      <3>1. \/ buf'[i] = ZeroByte
            \/ source = "UART" /\ buf'[i] \in {buf[i], RxByte(i)}
        BY <1>1, <2>2, CopyServer DEF TypeInv, PiecesInv
      <3>2. source = "UART" => RxByte(i) = uart_rx_buffer[i]
        BY DEF RxByte
      <3> QED BY <3>1, <3>2 DEF TtcBytesInv, TtcByte
    <2> QED BY <1>0, <2>1, <2>2 DEF TtcBytesInv, TtcSending
  <1>2. CASE Ttc
    BY <1>2, TtcBytesTtc
  <1>3. CASE Obdh \/ ReadSensors \/ UNCHANGED vars
    <2>1. UNCHANGED <<uartVars, serverVars, ttc>>
      BY <1>3, ObdhFootprint, ReadSensorsFootprint DEF vars
    <2> QED BY <1>0, <2>1 DEF TtcBytesInv, TtcSending, uartVars, serverVars
  <1> QED BY <1>1, <1>2, <1>3 DEF Next

\* The address of a command is a byte that came over the link it came from.
LEMMA UnaddressedKept ==
    ASSUME TypeOK, PiecesInv, TtcBytesInv, ExecuteWrite, NEW id \in Params,
           Unaddressed(id)
    PROVE  eps_data'[id] = eps_data[id]
  <1>1. /\ Decoded.cmd = "write" /\ eps_data \in [Params -> U32]
        /\ eps_data' = BufferWrite(eps_data, Decoded.adr, Decoded.val)
        /\ source \in Links
    BY DEF ExecuteWrite, TypeOK, ServerTypeOK
  <1>2. Decoded # NoFrame
    BY <1>1 DEF NoFrame
  <1>3. CASE source = "I2C"
    <2>1. 0 \in 0..Size(Decoded) - 1 /\ ByteAt(Decoded, 0) = Decoded.adr
      BY SizeValue, DecodedType, FrameBytes
    <2>2. PieceSent(0, Decoded.adr)
      BY <1>2, <1>3, <2>1, DecodedBytes DEF PiecesInv
    <2>3. ASSUME NEW k \in 1..Len(log["I2C"])
          PROVE  ByteAt(log["I2C"][k], 0) # id
      <3>1. log["I2C"][k] \in ObdhRequests
        BY DEF PiecesInv
      <3>2. log["I2C"][k] \in Frame
        BY <3>1, ConstantsAssumption DEF Request
      <3> QED BY <3>1, <3>2, FrameBytes DEF Unaddressed
    <2>4. Decoded.adr # id
      BY <2>2, <2>3 DEF PieceSent, Unaddressed, ZeroByte
    <2> QED BY <1>1, <2>4 DEF BufferWrite
  <1>4. CASE source = "UART"
    <2>1. Decoded = TtcDecodeAs("write", buf, 6)
          \/ Decoded = TtcDecodeAs("read", buf, 2)
      BY <1>2, <1>4 DEF Decoded, TtcDecode
    <2>2. \E c : Decoded = Assembled(c, buf, 1)
      BY <1>2, <2>1 DEF TtcDecodeAs
    <2>3. Decoded.adr = buf[1]
      BY <2>2 DEF Assembled
    <2>4. TtcByte(Decoded.adr)
      BY <1>4, <2>3 DEF TtcBytesInv
    <2>5. Decoded.adr # id
      BY <2>4 DEF TtcByte, Unaddressed, ZeroByte
    <2> QED BY <1>1, <2>5 DEF BufferWrite
  <1> QED BY <1>1, <1>3, <1>4 DEF Links

\* A step that neither stores nor executes a write keeps the registers.
LEMMA WholeKept ==
    ASSUME HalfStored, WholeUnlessStoring, UNCHANGED sensor,
           \A id \in Params : Unaddressed(id) => eps_data'[id] = eps_data[id],
           sensor.adr \in Params \cup {-1}
    PROVE  HalfStored' /\ WholeUnlessStoring'
  <1>1. \A id, v : Stored(id, v)' = Stored(id, v)
    BY DEF Stored
  <1>2. HalfStored'
    BY DEF HalfStored, Storing
  <1> QED BY <1>1, <1>2 DEF WholeUnlessStoring

\* A store of ReadSensors, the first or the only one.
LEMMA WholeStore ==
    ASSUME TypeOK, HalfStored, WholeUnlessStoring, NEW w \in SensorWrites,
           SensorStore(w)
    PROVE  HalfStored' /\ WholeUnlessStoring'
  <1> DEFINE new == Truncate(w.adr, w.val)
             old == eps_data[w.adr]
  <1>1. w.adr \in Params /\ w.val \in U32
    BY ConstantsAssumption
  <1>2. /\ ~Storing /\ eps_data \in [Params -> U32] /\ sensor \in StoreState
        /\ -1 \notin Params
    BY ParamsAssumption
    DEF SensorStore, TypeOK, ServerTypeOK, PeersTypeOK, ParamIds
  <1>3. \A id, v : Stored(id, v)' = Stored(id, v)
    BY DEF Stored
  <1>4. CASE w.adr \in Uint32Ids
    <2>1. PICK first \in {"hi", "lo"} :
             /\ eps_data' = [eps_data EXCEPT ![w.adr] =
                    [hi |-> IF first = "hi" THEN new.hi ELSE old.hi,
                     lo |-> IF first = "lo" THEN new.lo ELSE old.lo]]
             /\ sensor' = [adr |-> w.adr, val |-> new, first |-> first,
                           writes |-> sensor.writes + 1]
      BY <1>4 DEF SensorStore
    <2>2. /\ sensor'.adr = w.adr /\ sensor'.val = new /\ sensor'.first = first
          /\ eps_data'[w.adr].hi = (IF first = "hi" THEN new.hi ELSE old.hi)
          /\ eps_data'[w.adr].lo = (IF first = "lo" THEN new.lo ELSE old.lo)
          /\ \A id \in Params \ {w.adr} : eps_data'[id] = eps_data[id]
      BY <1>1, <1>2, <2>1
    <2>3. HalfStored'
      BY <2>1, <2>2 DEF HalfStored
    <2>4. \A id \in Params : sensor.adr # id
      BY <1>2 DEF Storing
    <2> QED BY <1>3, <2>2, <2>3, <2>4 DEF WholeUnlessStoring
  <1>5. CASE w.adr \notin Uint32Ids
    <2>1. /\ eps_data' = [eps_data EXCEPT ![w.adr] = new]
          /\ sensor' = [sensor EXCEPT !.writes = @ + 1]
      BY <1>5 DEF SensorStore
    <2>2. sensor'.adr = -1 /\ sensor.adr = -1
      BY <1>2, <2>1 DEF Storing, StoreState
    <2>3. Stored(w.adr, new)
      BY DEF Stored
    <2>4. eps_data'[w.adr] = new /\ \A id \in Params \ {w.adr} : eps_data'[id] = eps_data[id]
      BY <1>1, <1>2, <2>1
    <2> QED BY <1>2, <1>3, <2>2, <2>3, <2>4
         DEF HalfStored, Storing, WholeUnlessStoring
  <1> QED BY <1>4, <1>5

\* And the second one, which completes the value.
LEMMA WholeStoreRest ==
    ASSUME TypeOK, HalfStored, WholeUnlessStoring, SensorStoreRest
    PROVE  HalfStored' /\ WholeUnlessStoring'
  <1> DEFINE a == sensor.adr
             old == eps_data[a]
  <1>1. /\ Storing /\ eps_data \in [Params -> U32] /\ sensor \in StoreState
        /\ a \in Params /\ -1 \notin Params
    BY ParamsAssumption
    DEF SensorStoreRest, Storing, TypeOK, ServerTypeOK, PeersTypeOK, ParamIds,
        StoreState
  <1>2. \A id, v : Stored(id, v)' = Stored(id, v)
    BY DEF Stored
  <1>3. /\ sensor'.adr = -1
        /\ eps_data'[a] = [hi |-> IF sensor.first = "lo" THEN sensor.val.hi ELSE old.hi,
                           lo |-> IF sensor.first = "hi" THEN sensor.val.lo ELSE old.lo]
        /\ \A id \in Params \ {a} : eps_data'[id] = eps_data[id]
    BY <1>1 DEF SensorStoreRest
  <1>4. Unaddressed(a) => Stored(a, eps_data'[a])
    <2> SUFFICES ASSUME Unaddressed(a) PROVE Stored(a, eps_data'[a])
      OBVIOUS
    <2>1. sensor.val \in U32 /\ sensor.first \in {"hi", "lo"}
      BY <1>1 DEF StoreState
    <2>2. eps_data'[a] = [hi |-> sensor.val.hi, lo |-> sensor.val.lo]
      BY <1>1, <1>3, <2>1 DEF HalfStored
    <2>3. eps_data'[a] = sensor.val
      BY <2>1, <2>2 DEF U32
    <2> QED BY <1>1, <2>3 DEF HalfStored, Stored
  <1>5. HalfStored'
    BY <1>3 DEF HalfStored, Storing
  <1> QED BY <1>2, <1>3, <1>4, <1>5 DEF WholeUnlessStoring

\* Of the steps of the server, a write changes the parameters; of those of the
\* OBDH, none does.
LEMMA ParametersKept ==
    ASSUME (Server /\ ~ExecuteWrite) \/ Obdh
    PROVE  UNCHANGED <<eps_data, sensor>>
  <1>1. UNCHANGED sensor
    BY ServerFootprint, ObdhFootprint
  <1>2. CASE Server /\ ~ExecuteWrite
    <2>1. CASE Wake \/ CallCopy \/ CopyByte \/ FetchSize
      BY <2>1 DEF Wake, CallCopy, CopyByte, FetchSize
    <2>2. CASE RejectCommand \/ ExecuteRead
      BY <2>2 DEF RejectCommand, ExecuteRead
    <2>3. CASE StoreReplyByte \/ StoreReplySize \/ ResetReplyIndex
      BY <2>3 DEF StoreReplyByte, StoreReplySize, ResetReplyIndex
    <2> QED BY <1>1, <1>2, <2>1, <2>2, <2>3 DEF Server
  <1>3. CASE Obdh
    <2>1. ASSUME NEW f, ObdhStart(f) PROVE UNCHANGED eps_data
      BY <2>1 DEF ObdhStart
    <2>2. CASE ObdhSendByte \/ ObdhReadStart
      BY <2>2 DEF ObdhSendByte, ObdhReadStart
    <2>3. CASE ObdhReadByte
      BY <2>3, Zenon DEF ObdhReadByte
    <2>4. CASE ObdhStop
      BY <2>4 DEF ObdhStop
    <2>5. CASE ObdhReadStop
      BY <2>5 DEF ObdhReadStop
    <2> QED BY <1>1, <1>3, <2>1, <2>2, <2>3, <2>4, <2>5 DEF Obdh
  <1> QED BY <1>2, <1>3

\* No step disturbs a whole value.
LEMMA WholeStep ==
    ASSUME TypeInv, PiecesInv, WholeInv, [Next]_vars
    PROVE  WholeInv'
  <1>1. TypeOK /\ sensor.adr \in Params \cup {-1}
    BY DEF TypeInv, TypeOK, PeersTypeOK, StoreState
  <1>2. TtcBytesInv'
    BY TtcBytesStep DEF WholeInv
  <1>3. CASE ReadSensors
    BY <1>1, <1>2, <1>3, WholeStore, WholeStoreRest DEF ReadSensors, WholeInv
  <1>4. CASE ExecuteWrite
    <2>1. UNCHANGED sensor
      BY <1>4 DEF ExecuteWrite
    <2> QED BY <1>1, <1>2, <1>4, <2>1, UnaddressedKept, WholeKept DEF WholeInv
  <1>5. CASE ~ReadSensors /\ ~ExecuteWrite
    <2>1. UNCHANGED <<eps_data, sensor>>
      BY <1>5, ParametersKept, TtcFootprint DEF Next, vars
    <2> QED BY <1>1, <1>2, <2>1, WholeKept DEF WholeInv
  <1> QED BY <1>3, <1>4, <1>5

\* A register no telecommand can address is whole but between the two stores of
\* its value, whatever the OBDH and the TTC send, and whatever the server puts
\* together from it.
THEOREM RegistersWhole == Spec => []WholeUnlessStoring
  <1>1. Spec => [](TypeInv /\ PiecesInv /\ WholeInv)
    <2>1. TypeInv => TypeOK
      BY DEF TypeInv
    <2>2. TypeInv /\ PiecesInv /\ WholeInv /\ [Next]_vars
             => TypeInv' /\ PiecesInv' /\ WholeInv'
      BY <2>1, TypeStep, PiecesStep, WholeStep
    <2> QED BY <2>2, TypeInit, PiecesInit, WholeInit, PTL DEF Spec
  <1>2. WholeInv => WholeUnlessStoring
    BY DEF WholeInv
  <1> QED BY <1>1, <1>2, PTL

-----------------------------------------------------------------------------
(* What the size the UART handler reports for a read makes of it.          *)

\* A read of the TTC is never executed.
TtcReadsDropped == source = "UART" => cmd.cmd # "read"

\* The size the decoder is given is one the handler reports.
TtcSized ==
    source = "UART" /\ pc = "decode" =>
        size \in {0, READ_COMMAND_MAX_SIZE, WRITE_COMMAND_MAX_SIZE}

\* None of them is the size it decodes a read with.
LEMMA TtcNoReadDecoded ==
    ASSUME TtcSized, source = "UART", pc = "decode"
    PROVE  Decoded.cmd # "read"
  <1>1. size - 1 # OBDH_COMMAND_READ_SIZE
    BY DEF TtcSized, READ_COMMAND_MAX_SIZE, WRITE_COMMAND_MAX_SIZE,
       OBDH_COMMAND_READ_SIZE
  <1>2. Decoded \in {NoFrame, TtcDecodeAs("write", buf, 6)}
    BY <1>1 DEF Decoded, TtcDecode
  <1>3. TtcDecodeAs("write", buf, 6) \in {NoFrame, Assembled("write", buf, 1)}
    BY DEF TtcDecodeAs
  <1> QED BY <1>2, <1>3 DEF NoFrame, Assembled

\* No step lets one through.
LEMMA TtcReadsStep ==
    ASSUME TypeOK, TtcSized, TtcReadsDropped, [Next]_vars
    PROVE  TtcSized' /\ TtcReadsDropped'
  <1>1. CASE UNCHANGED serverVars
    BY <1>1 DEF TtcSized, TtcReadsDropped, serverVars
  <1>2. CASE FetchSize
    BY <1>2 DEF FetchSize, DataSize, TtcSized, TtcReadsDropped, TypeOK, UartTypeOK
  <1>3. CASE Wake
    BY <1>3 DEF Wake, TtcSized, TtcReadsDropped, NoFrame
  <1>4. CASE CallCopy \/ CopyByte \/ RejectCommand \/ StoreReplyByte
             \/ StoreReplySize \/ ResetReplyIndex
    BY <1>4 DEF CallCopy, CopyByte, RejectCommand, StoreReplyByte, StoreReplySize,
       ResetReplyIndex, Return, TtcSized, TtcReadsDropped
  <1>5. CASE ExecuteWrite
    BY <1>5 DEF ExecuteWrite, Executed, Return, TtcSized, TtcReadsDropped
  <1>6. CASE ExecuteRead
    BY <1>6, TtcNoReadDecoded
    DEF ExecuteRead, Executed, Return, TtcSized, TtcReadsDropped
  <1>7. CASE UNCHANGED vars
    BY <1>1, <1>7 DEF vars, serverVars
  <1> QED BY <1>1, <1>2, <1>3, <1>4, <1>5, <1>6, <1>7, ObdhFootprint,
       TtcFootprint, ReadSensorsFootprint DEF Next, Server

\* No read of the TTC is executed, whatever the two links do: the handler
\* reports 4 bytes, the decoder takes 3.
THEOREM NoTtcRead == Spec => []TtcReadsDropped
  <1>1. Init => TtcSized /\ TtcReadsDropped
    BY DEF Init, TtcSized, TtcReadsDropped, NoFrame
  <1> QED BY <1>1, TtcReadsStep, TypeCorrect, PTL DEF Spec
=============================================================================
