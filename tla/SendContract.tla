------------------------------ MODULE SendContract ------------------------------
(* What a call of adapter.Send promises its callers, without the stages: until    *)
(* Enter is pressed it may fail, and then nothing was sent; Enter is pressed at   *)
(* most once; after it the call never says that it failed before it.              *)
EXTENDS Naturals

VARIABLES
    phase,     \* "idle", "trying", "pressed"
    presses,   \* how often Enter was pressed
    outcome    \* of the call that is over: "failed", "verified", "unverified"; else "none"

vars == <<phase, presses, outcome>>

Init == phase = "idle" /\ presses = 0 /\ outcome = "none"

Call ==
    /\ phase = "idle"
    /\ phase' = "trying"
    /\ outcome' = "none"
    /\ UNCHANGED presses

GiveUp ==
    /\ phase = "trying"
    /\ phase' = "idle"
    /\ outcome' = "failed"
    /\ UNCHANGED presses

Press ==
    /\ phase = "trying"
    /\ phase' = "pressed"
    /\ presses' = presses + 1
    /\ UNCHANGED outcome

Report ==
    /\ phase = "pressed"
    /\ phase' = "idle"
    /\ outcome' \in {"verified", "unverified"}
    /\ UNCHANGED presses

Next == Call \/ GiveUp \/ Press \/ Report

Spec == Init /\ [][Next]_vars
================================================================================
