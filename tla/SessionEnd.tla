------------------------------ MODULE SessionEnd ------------------------------
(***************************************************************************)
(* What a worker promises about a session it has reported as started: it   *)
(* finalizes the session only after the last process of its scope is gone, *)
(* or else keeps it for ever.                                              *)
(***************************************************************************)
VARIABLES phase, payload

vars == <<phase, payload>>

Phases == {"launching", "running", "finalizing", "retained", "ended", "crashed"}

Init == phase = "launching" /\ payload = FALSE

Populate == phase = "launching" /\ payload' = TRUE /\ UNCHANGED phase
PayloadEnds == payload /\ payload' = FALSE /\ UNCHANGED phase
Start == phase = "launching" /\ phase' = "running" /\ UNCHANGED payload
\* A launch is undone; what it had started may be killed in the same step.
LaunchFails ==
    /\ phase = "launching" /\ phase' \in {"ended", "retained"} /\ UNCHANGED payload
Finalize == phase = "running" /\ ~payload /\ phase' = "finalizing" /\ UNCHANGED payload
Retain == phase = "running" /\ phase' = "retained" /\ UNCHANGED payload
End == phase = "finalizing" /\ phase' = "ended" /\ UNCHANGED payload
Crash == phase # "ended" /\ phase' = "crashed" /\ UNCHANGED payload

Next == Populate \/ PayloadEnds \/ Start \/ LaunchFails \/ Finalize \/ Retain
        \/ End \/ Crash

Spec == Init /\ [][Next]_vars
=============================================================================
