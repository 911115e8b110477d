------------------------------ MODULE TaskRegister ------------------------------
(***************************************************************************)
(* The abstract view of canonical TASK that every mutator of               *)
(* contexttx.transition_task relies on: a compare-and-set register.  A     *)
(* writer reads the value, installs its own value only over the one it     *)
(* read, may have it undone while the update is not acknowledged, and is   *)
(* never undone once it is.                                                *)
(***************************************************************************)
CONSTANT Writers
VARIABLES value, base, acked

Read(w) ==
    /\ w \notin acked
    /\ base' = [base EXCEPT ![w] = value]
    /\ UNCHANGED <<value, acked>>

Install(w) ==
    /\ w \notin acked
    /\ value = base[w]
    /\ value' = w
    /\ UNCHANGED <<base, acked>>

Undo(w) ==
    /\ w \notin acked
    /\ value = w
    /\ value' = base[w]
    /\ UNCHANGED <<base, acked>>

Acknowledge(w) ==
    /\ value = w
    /\ acked' = acked \cup {w}
    /\ UNCHANGED <<value, base>>

Step == \E w \in Writers : Read(w) \/ Install(w) \/ Undo(w) \/ Acknowledge(w)

Init == acked = {} /\ \A w \in Writers : base[w] = value
Spec == Init /\ [][Step]_<<value, base, acked>>
=============================================================================
