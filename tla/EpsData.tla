------------------------------ MODULE EpsData ------------------------------
(***************************************************************************)
(* The EPS parameter buffer eps_data_buff (app/structs/eps2_data.c): the   *)
(* table of registers every task of the firmware reads and writes through  *)
(* eps_buffer_write and eps_buffer_read.                                   *)
(*                                                                         *)
(* A uint32_t is a pair of 16-bit words, as the MSP430 stores it; a field  *)
(* of the buffer narrower than 32 bits keeps the low bits of what is       *)
(* written to it.                                                          *)
(***************************************************************************)
EXTENDS Integers

CONSTANT
    Params      \* the parameter IDs of eps2_param_id_e this instance keeps

ParamIds == 0..48

ASSUME ParamsAssumption == Params \subseteq ParamIds

Word == 0..65535
U32  == [hi : Word, lo : Word]
U8   == 0..255

\* A uint32_t that fits in 16 bits.
Short(w) == [hi |-> 0, lo |-> w]
Zero32   == Short(0)

(***************************************************************************)
(* Widths of the fields the IDs select.  HW_VERSION (41) selects the field *)
(* firmware_version (uint32_t) and FW_VERSION (42) the field               *)
(* hardware_version (uint8_t): the two cases are crossed in the code.      *)
(***************************************************************************)
HW_VERSION == 41
FW_VERSION == 42
DEVICE_ID  == 48

Uint32Ids == {0} \cup 19..25 \cup {HW_VERSION}
Uint8Ids  == {3} \cup 14..16 \cup 32..34 \cup 37..40 \cup 42..47

\* What the field selected by id holds after "field = v" (eps_buffer_write).
Truncate(id, v) ==
    [hi |-> IF id \in Uint32Ids THEN v.hi ELSE 0,
     lo |-> IF id \in Uint8Ids THEN v.lo % 256 ELSE v.lo]

FIRMWARE_VERSION == Short(768)      \* .firmware_version = 0x00000300

\* The initialiser of eps_data_buff: duty cycles 50, the versions, the
\* device ID 0xEEE2, every other field 0.
DefaultValue(id) ==
    CASE id \in 14..16 \cup 39..40 -> Short(50)
      [] id = HW_VERSION           -> FIRMWARE_VERSION
      [] id = DEVICE_ID            -> Short(61154)
      [] OTHER                     -> Zero32

InitialData == [id \in Params |-> DefaultValue(id)]

\* Mutant: a case without its break runs into the next one.
BugBufferWrite(data, id, v) ==
    [i \in DOMAIN data |-> IF i \in {id, id + 1} THEN Truncate(i, v) ELSE data[i]]

\* eps_buffer_write: an unknown ID is refused (-1) and changes nothing.
BufferWrite(data, id, v) ==
    [i \in DOMAIN data |-> IF i = id THEN Truncate(id, v) ELSE data[i]]

\* The value eps_buffer_read hands out: every narrower field is zero-extended.
BufferRead(data, id) == data[id]

(***************************************************************************)
(* The buffer when Startup has run: its initial contents with the hardware *)
(* version and the cause of the last reset written by vTaskStartup.        *)
(***************************************************************************)
StartupData(hw, cause) ==
    BufferWrite(BufferWrite(InitialData, HW_VERSION, Short(hw)), 3, Short(cause))
=============================================================================
