------------------------------ MODULE SkillRegister -----------------------------
(***************************************************************************)
(* What the mutations of the dynamic Skills promise: the register and the  *)
(* directory of active Skills change together and at once, one Skill at a  *)
(* time, and every change spends a human decision of its own.              *)
(***************************************************************************)
EXTENDS Naturals

CONSTANTS
    Skills,     \* ids of the dynamic Skills
    Entries,    \* what the register says of a Skill that is registered, its bundle too
    None        \* what it says of one that is not

VARIABLES
    register,   \* entry of each Skill
    present,    \* bundle each active directory holds
    events,     \* lifecycle events recorded
    spent       \* human decisions consumed

vars == <<register, present, events, spent>>

Init ==
    /\ register = [s \in Skills |-> None]
    /\ present = [s \in Skills |-> None]
    /\ events = 0
    /\ spent = 0

Change(s, e) ==
    /\ register' = [register EXCEPT ![s] = e]
    /\ present' = [present EXCEPT ![s] = IF e = None THEN None ELSE e.bundle]
    /\ events' \in {events, events + 1}
    /\ events' = events => register'[s] # None    \* only an installation records no event
    /\ spent' = spent + 1

Next == \E s \in Skills, e \in Entries \cup {None} : Change(s, e)

Spec == Init /\ [][Next]_vars
=============================================================================
