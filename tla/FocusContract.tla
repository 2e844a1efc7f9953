------------------------------ MODULE FocusContract ------------------------------
(* What a call of adapter.Focus promises its callers, without the three ways in    *)
(* which it looks for the conversation: if it fails, it has clicked nothing; it    *)
(* clicks twice at most, and what it clicks last is what it says it went by.       *)
EXTENDS Naturals

VARIABLES
    phase,     \* "idle", "focusing"
    clicks,    \* of the call
    outcome    \* of the call that is over: "failed", "success"; else "none"

vars == <<phase, clicks, outcome>>

Init == phase = "idle" /\ clicks = 0 /\ outcome = "none"

Call ==
    /\ phase = "idle"
    /\ phase' = "focusing" /\ clicks' = 0 /\ outcome' = "none"

\* Only before the first click.
Refuse ==
    /\ phase = "focusing" /\ clicks = 0
    /\ phase' = "idle" /\ outcome' = "failed"
    /\ UNCHANGED clicks

Click ==
    /\ phase = "focusing" /\ clicks = 0
    /\ clicks' = 1
    /\ UNCHANGED <<phase, outcome>>

\* The second click, if there is one, is the last step.
Answer ==
    /\ phase = "focusing"
    /\ phase' = "idle" /\ outcome' = "success"
    /\ clicks' \in {clicks, clicks + 1}

\* Another operation of the adapter.
Other ==
    /\ phase = "idle"
    /\ outcome' = "none"
    /\ UNCHANGED <<phase, clicks>>

Next == Call \/ Refuse \/ Click \/ Answer \/ Other

Spec == Init /\ [][Next]_vars
================================================================================
