---------------------------- MODULE MutexService ----------------------------
(***************************************************************************)
(* What xSemaphoreTake and xSemaphoreGive promise of a mutex to its users, *)
(* with none of the waiting: a task that asks comes to be in, or is        *)
(* refused.                                                                *)
(***************************************************************************)
CONSTANTS Tasks, None

VARIABLES owner,   \* the task that is in, or None
          status   \* of each task: out, asking, in or refused

Become(t, s) == status' = [status EXCEPT ![t] = s]

Init == owner = None /\ status = [t \in Tasks |-> "out"]

Ask(t) == status[t] = "out" /\ Become(t, "asking") /\ UNCHANGED owner

Grant(t) ==
    /\ status[t] = "asking"
    /\ owner = None
    /\ owner' = t
    /\ Become(t, "in")

\* Only while another task is in.
Refuse(t) ==
    /\ status[t] = "asking"
    /\ owner \notin {None, t}
    /\ Become(t, "refused")
    /\ UNCHANGED owner

Give(t) ==
    /\ status[t] = "in"
    /\ owner = t
    /\ owner' = None
    /\ Become(t, "out")

\* The give of a task that was refused does nothing to a free mutex.
GiveFree(t) ==
    /\ status[t] = "refused"
    /\ owner = None
    /\ Become(t, "out")
    /\ UNCHANGED owner

Next == \E t \in Tasks : Ask(t) \/ Grant(t) \/ Refuse(t) \/ Give(t) \/ GiveFree(t)

Spec == Init /\ [][Next]_<<owner, status>>
=============================================================================
