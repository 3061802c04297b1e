-------------------------- MODULE RegisterService --------------------------
(***************************************************************************)
(* What the parameter server promises to an OBDH that waits for it: a      *)
(* table of registers on which every complete request acts in one atomic   *)
(* step, and an answer that is the register as it was in that step.  Other *)
(* parts of the firmware may store into a register at any time.            *)
(***************************************************************************)
EXTENDS Frames

VARIABLES
    regs,       \* the registers
    phase,      \* "idle", or a request was "asked", or it was "served"
    req,        \* the request
    sample,     \* the answer to it, NoFrame for a write or an unknown register
    collected   \* what the OBDH has of that answer

service == <<regs, phase, req, sample, collected>>

ServiceInit ==
    /\ regs \in [Params -> U32]
    /\ phase = "idle" /\ req = NoFrame
    /\ sample = NoFrame /\ collected = NoFrame

\* The OBDH begins a new request, or has completed it.
Begin ==
    /\ phase \in {"idle", "served"}
    /\ phase' = "idle" /\ req' \in Frame
    /\ sample' = NoFrame /\ collected' = NoFrame
    /\ UNCHANGED regs

Ask ==
    /\ phase = "idle" /\ req.cmd \in {"read", "write"}
    /\ phase' = "asked"
    /\ UNCHANGED <<regs, req, sample, collected>>

ServeWrite ==
    /\ phase = "asked" /\ req.cmd = "write"
    /\ phase' = "served"
    /\ regs' = BufferWrite(regs, req.adr, req.val)
    /\ UNCHANGED <<req, sample, collected>>

ServeRead ==
    /\ phase = "asked" /\ req.cmd = "read"
    /\ phase' = "served"
    /\ sample' = IF req.adr \in Params
                 THEN [cmd |-> "answer", adr |-> req.adr, val |-> regs[req.adr]]
                 ELSE NoFrame
    /\ UNCHANGED <<regs, req, collected>>

\* The OBDH collects the answer, or fails to.
Collect ==
    /\ phase = "served" /\ sample # NoFrame
    /\ collected' \in {sample, NoFrame}
    /\ UNCHANGED <<regs, phase, req, sample>>

\* A store of another task.
Update ==
    /\ \E id \in Params : \A other \in Params \ {id} : regs'[other] = regs[other]
    /\ regs' \in [Params -> U32]
    /\ UNCHANGED <<phase, req, sample, collected>>

ServiceNext == Begin \/ Ask \/ ServeWrite \/ ServeRead \/ Collect \/ Update

ServiceSpec == ServiceInit /\ [][ServiceNext]_service
=============================================================================
