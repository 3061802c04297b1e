--------------------------- MODULE BatteryMonitor ---------------------------
(***************************************************************************)
(* Configuring the fuel gauge of the battery (battery_monitor.c,           *)
(* ds277Xg.c) at every boot.  ds277Xg_init sets the charge and discharge   *)
(* bits of the protection register, compares the parameter registers with  *)
(* their values one after the other and writes those that differ, and has  *)
(* the gauge copy its shadow RAM to its EEPROM if it wrote any.            *)
(*                                                                         *)
(* Any transfer may fail, and a write that fails may have taken effect.    *)
(* The processor may be reset at any moment, which the gauge does not      *)
(* notice; when the power goes the gauge loads its RAM from its EEPROM.    *)
(***************************************************************************)
EXTENDS Integers

CONSTANT N   \* the number of parameter registers, in the order of the code

ASSUME RegistersAssumption == N \in Nat \ {0}

Registers == 1 .. N
Bits == {"charge", "discharge"}

VARIABLES
    ram,          \* the registers with the right value in the gauge's shadow RAM
    eeprom,       \* and in its EEPROM
    enabled,      \* the bits set in the protection register
    phase,        \* what ds277Xg_init does, or has returned
    reg,          \* the register it is at
    copy,         \* copy_to_eeprom_flag
    interrupted   \* history: since power-up an initialisation did not get through

vars == <<ram, eeprom, enabled, phase, reg, copy, interrupted>>

TypeOK ==
    /\ ram \subseteq Registers
    /\ eeprom \subseteq Registers
    /\ enabled \subseteq Bits
    /\ phase \in Bits \cup {"check", "copy", "ok", "failed"}
    /\ reg \in Registers
    /\ copy \in BOOLEAN
    /\ interrupted \in BOOLEAN

\* Power-up of a gauge that nobody has configured, or only in part.
Init ==
    /\ eeprom \in SUBSET Registers
    /\ ram = eeprom
    /\ enabled \in SUBSET Bits
    /\ phase = "charge"
    /\ reg = 1
    /\ copy = FALSE
    /\ interrupted = FALSE
-----------------------------------------------------------------------------
\* return -1, which battery_monitor_init passes on and Startup counts.
Fail == phase' = "failed" /\ interrupted' = TRUE /\ UNCHANGED <<reg, copy>>

\* i2c_write: what it leaves of the gauge when it returns an error.
MaybeWritten(written, v) == written \/ UNCHANGED v

\* Mutant: the protection register is written with the one bit alone.
BugSetBit(bit) == {bit}

SetBit(bit) == enabled \cup {bit}

\* ds277Xg_enable_charge, ds277Xg_enable_discharge: read, set the bit, write.
Enable(bit) ==
    /\ phase = bit
    /\ UNCHANGED <<ram, eeprom>>
    /\ \/ /\ enabled' = SetBit(bit)
          /\ phase' = IF bit = "charge" THEN "discharge" ELSE "check"
          /\ UNCHANGED <<reg, copy, interrupted>>
       \/ /\ MaybeWritten(enabled' = SetBit(bit), enabled)
          /\ Fail

\* Mutant: one register too many.
BugAdvance ==
    IF reg > N THEN phase' = "copy" /\ UNCHANGED reg
    ELSE reg' = reg + 1 /\ UNCHANGED phase

\* The next register; after the last one, the copy.
Advance ==
    IF reg = N THEN phase' = "copy" /\ UNCHANGED reg
    ELSE reg' = reg + 1 /\ UNCHANGED phase

\* Mutant: the registers are copied to the EEPROM one by one.
BugCheck ==
    /\ phase = "check"
    /\ ram' = ram \cup {reg}
    /\ eeprom' = eeprom \cup {reg}
    /\ Advance
    /\ UNCHANGED <<enabled, copy, interrupted>>

\* Read a parameter register, and write it if its value is not the right one.
Check ==
    /\ phase = "check"
    /\ UNCHANGED <<eeprom, enabled>>
    /\ \/ reg \in ram /\ Advance /\ UNCHANGED <<ram, copy, interrupted>>
       \/ /\ reg \notin ram
          /\ ram' = ram \cup {reg}
          /\ copy' = TRUE
          /\ Advance
          /\ UNCHANGED interrupted
       \/ /\ MaybeWritten(ram' = ram \cup {reg}, ram)
          /\ Fail

\* Mutant: the copy is left to the next boot.
BugCopy ==
    /\ phase = "copy"
    /\ phase' = "ok"
    /\ UNCHANGED <<ram, eeprom, enabled, reg, copy, interrupted>>

\* The copy, if a register was written.
Copy ==
    /\ phase = "copy"
    /\ UNCHANGED <<ram, enabled>>
    /\ \/ /\ IF copy THEN eeprom' = ram ELSE UNCHANGED eeprom
          /\ phase' = "ok"
          /\ UNCHANGED <<reg, copy, interrupted>>
       \/ /\ copy
          /\ MaybeWritten(eeprom' = ram, eeprom)
          /\ Fail

Boot == phase' = "charge" /\ reg' = 1 /\ copy' = FALSE

\* The watchdog or the periodic reset, within the initialisation or long after.
Reset ==
    /\ Boot
    /\ interrupted' = (interrupted \/ phase # "ok")
    /\ UNCHANGED <<ram, eeprom, enabled>>

\* The gauge comes up with what its EEPROM has.
PowerLoss ==
    /\ Boot
    /\ ram' = eeprom
    /\ enabled' \in SUBSET Bits
    /\ interrupted' = FALSE
    /\ UNCHANGED eeprom

Next == (\E bit \in Bits : Enable(bit)) \/ Check \/ Copy \/ Reset \/ PowerLoss

Spec == Init /\ [][Next]_vars
-----------------------------------------------------------------------------
\* An initialisation that reports success has left the battery able to charge
\* and discharge and every parameter right, whatever failed or was cut off in
\* earlier ones.
OkMeansConfigured ==
    phase = "ok" => ram = Registers /\ enabled = Bits

\* An initialisation that reports success has the parameters in the EEPROM too,
\* for the next loss of power.  This needs the power-up to have been the last
\* thing to go wrong: a write before a failure or a reset hides the difference
\* from the next boot, which then finds nothing to copy.
CopyKept ==
    phase = "ok" /\ ~interrupted => eeprom = Registers

\* The EEPROM, which can be written only so often, changes at most to the whole
\* configuration, never to a part of it.
EepromWhole == [][eeprom' # eeprom => eeprom' = Registers]_vars
=============================================================================
