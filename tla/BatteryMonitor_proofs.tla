----------------------- MODULE BatteryMonitor_proofs -----------------------
(***************************************************************************)
(* Proofs about BatteryMonitor, for any number of registers.               *)
(***************************************************************************)
EXTENDS BatteryMonitor, TLAPS

\* The variables of the initialisation, and of the gauge, keep their types.
THEOREM GaugeTypeCorrect == Spec => []TypeOK
<1>1. Init => TypeOK
  <2>1. 1 \in Registers
    BY RegistersAssumption DEF RegistersAssumption, Registers
  <2> QED BY <2>1 DEF Init, TypeOK, Bits
<1>2. TypeOK /\ [Next]_vars => TypeOK'
  <2> SUFFICES ASSUME TypeOK, [Next]_vars PROVE TypeOK'
    OBVIOUS
  <2>0. N \in Nat \ {0} /\ 1 \in Registers
    BY RegistersAssumption DEF RegistersAssumption, Registers
  <2>1. ASSUME NEW bit \in Bits, Enable(bit) PROVE TypeOK'
    BY <2>1 DEF Enable, Fail, MaybeWritten, SetBit, TypeOK, Bits
  <2>2. CASE Check
    <3>1. Advance => reg' \in Registers /\ phase' \in {"check", "copy"}
      BY <2>0, <2>2 DEF Check, Advance, TypeOK, Registers
    <3> QED BY <2>2, <3>1 DEF Check, Fail, MaybeWritten, TypeOK
  <2>3. CASE Copy
    BY <2>3 DEF Copy, Fail, MaybeWritten, TypeOK
  <2>4. CASE Reset
    BY <2>0, <2>4 DEF Reset, Boot, TypeOK, Bits
  <2>5. CASE PowerLoss
    BY <2>0, <2>5 DEF PowerLoss, Boot, TypeOK, Bits
  <2>6. CASE UNCHANGED vars
    BY <2>6 DEF vars, TypeOK
  <2> QED BY <2>1, <2>2, <2>3, <2>4, <2>5, <2>6 DEF Next
<1> QED BY <1>1, <1>2, PTL DEF Spec
-----------------------------------------------------------------------------
(* What an initialisation has done, and what the flag tells.                *)

\* How far it has come.
Configured ==
    /\ phase \in Bits => reg = 1
    /\ phase \in {"discharge", "check", "copy", "ok"} => "charge" \in enabled
    /\ phase \in {"check", "copy", "ok"} => "discharge" \in enabled
    /\ phase = "check" => 1 .. reg - 1 \subseteq ram
    /\ phase \in {"copy", "ok"} => ram = Registers

\* Since power-up RAM and EEPROM have come to differ only by writes that the
\* flag tells of, and that are not copied yet.
CopyDue ==
    /\ phase = "failed" => interrupted
    /\ ~interrupted /\ (phase = "ok" \/ ~copy) => ram = eeprom

GaugeInv == TypeOK /\ Configured /\ CopyDue

LEMMA EnableInv ==
    ASSUME GaugeInv, NEW bit \in Bits, Enable(bit)
    PROVE  Configured' /\ CopyDue'
<1>1. CASE phase' = "failed"
  BY <1>1 DEF Enable, Fail, Bits, Configured, CopyDue
<1>2. CASE phase' # "failed"
  <2>1. /\ phase = bit /\ reg = 1 /\ enabled' = enabled \cup {bit}
        /\ phase' = IF bit = "charge" THEN "discharge" ELSE "check"
        /\ UNCHANGED <<ram, eeprom, reg, copy, interrupted>>
    BY <1>2 DEF Enable, Fail, SetBit, GaugeInv, Configured
  <2>2. 1 .. reg - 1 = {}
    BY <2>1
  <2>3. Configured'
    BY <2>1, <2>2 DEF GaugeInv, Configured, Bits
  <2>4. CopyDue'
    BY <2>1 DEF GaugeInv, CopyDue, Bits
  <2> QED BY <2>3, <2>4
<1> QED BY <1>1, <1>2

LEMMA CheckInv ==
    ASSUME GaugeInv, Check
    PROVE  Configured' /\ CopyDue'
<1>1. CASE phase' = "failed"
  BY <1>1 DEF Check, Fail, Advance, Bits, GaugeInv, Configured, CopyDue
<1>2. CASE phase' # "failed"
  <2>1. /\ phase = "check" /\ Advance /\ ram' = ram \cup {reg}
        /\ UNCHANGED <<eeprom, enabled, interrupted>>
        /\ (ram' = ram /\ copy' = copy) \/ copy'
    BY <1>2 DEF Check, Fail
  <2>2. /\ N \in Nat /\ reg \in 1 .. N /\ ram \subseteq 1 .. N
        /\ 1 .. reg - 1 \subseteq ram
    BY <2>1, RegistersAssumption
       DEF RegistersAssumption, GaugeInv, TypeOK, Configured, Registers
  <2>3. 1 .. reg \subseteq ram'
    BY <2>1, <2>2
  <2>4. Configured'
    <3>1. CASE reg = N
      <4>1. ram' = Registers /\ phase' = "copy"
        BY <2>1, <2>2, <2>3, <3>1 DEF Advance, Registers
      <4> QED BY <2>1, <4>1 DEF GaugeInv, Configured, Bits
    <3>2. CASE reg # N
      <4>1. phase' = "check" /\ 1 .. reg' - 1 \subseteq ram'
        BY <2>1, <2>2, <2>3, <3>2 DEF Advance
      <4> QED BY <2>1, <4>1 DEF GaugeInv, Configured, Bits
    <3> QED BY <3>1, <3>2
  <2>5. phase' \in {"check", "copy"}
    BY <2>1 DEF Advance
  <2>6. CopyDue'
    BY <2>1, <2>5 DEF GaugeInv, CopyDue
  <2> QED BY <2>4, <2>6
<1> QED BY <1>1, <1>2

LEMMA CopyInv ==
    ASSUME GaugeInv, Copy
    PROVE  Configured' /\ CopyDue'
BY DEF Copy, Fail, MaybeWritten, GaugeInv, TypeOK, Configured, CopyDue, Bits

LEMMA BootInv ==
    ASSUME GaugeInv, Reset \/ PowerLoss
    PROVE  Configured' /\ CopyDue'
<1>1. phase' = "charge" /\ reg' = 1 /\ Configured'
  BY DEF Reset, PowerLoss, Boot, Configured, Bits
<1>2. CopyDue'
  BY DEF Reset, PowerLoss, Boot, GaugeInv, CopyDue
<1> QED BY <1>1, <1>2

LEMMA GaugeInvariant == Spec => []GaugeInv
<1>1. Init => Configured /\ CopyDue
  BY DEF Init, Configured, CopyDue, Bits
<1>2. GaugeInv /\ [Next]_vars => Configured' /\ CopyDue'
  <2> SUFFICES ASSUME GaugeInv, [Next]_vars PROVE Configured' /\ CopyDue'
    OBVIOUS
  <2>1. CASE UNCHANGED vars
    BY <2>1 DEF vars, GaugeInv, Configured, CopyDue
  <2> QED BY <2>1, EnableInv, CheckInv, CopyInv, BootInv DEF Next
<1> QED BY <1>1, <1>2, GaugeTypeCorrect, PTL DEF Spec, GaugeInv

\* An initialisation of the gauge that reports success has set both bits and
\* every parameter, whatever failed before.
THEOREM OkIsConfigured == Spec => []OkMeansConfigured
<1>1. GaugeInv => OkMeansConfigured
  BY DEF GaugeInv, TypeOK, Configured, OkMeansConfigured, Bits
<1> QED BY <1>1, GaugeInvariant, PTL

\* And the parameters are in the EEPROM, unless an earlier one since power-up
\* was cut short.
THEOREM OkIsKept == Spec => []CopyKept
<1>1. GaugeInv => CopyKept
  BY DEF GaugeInv, Configured, CopyDue, CopyKept
<1> QED BY <1>1, GaugeInvariant, PTL

\* The EEPROM is only ever written whole.
THEOREM EepromWrittenWhole == Spec => EepromWhole
<1>1. GaugeInv /\ [Next]_vars => (eeprom' # eeprom => eeprom' = Registers)
  BY DEF Next, Enable, Check, Copy, Reset, PowerLoss, vars, GaugeInv,
     Configured, MaybeWritten
<1>2. GaugeInv /\ [Next]_vars => [eeprom' # eeprom => eeprom' = Registers]_vars
  BY <1>1
<1> QED BY <1>2, GaugeInvariant, PTL DEF Spec, EepromWhole
=============================================================================
