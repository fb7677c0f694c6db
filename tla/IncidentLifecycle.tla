------------------------- MODULE IncidentLifecycle -------------------------
(***************************************************************************)
(* What the life of an incident amounts to for everything outside the      *)
(* coordinator: it is opened, investigated, reviewed and closed, or closed *)
(* after its investigation failed, and it never reopens.  These are the    *)
(* steps AnomalyIntake takes for granted of the coordinator;               *)
(* IncidentWorkflow, the coordinator itself, is shown to implement them.   *)
(***************************************************************************)
CONSTANT Incidents

VARIABLE phase

Init == phase = [i \in Incidents |-> "ABSENT"]

Move(i, from, to) == phase[i] = from /\ phase' = [phase EXCEPT ![i] = to]

Open(i)         == Move(i, "ABSENT", "ACTIVE")
Investigated(i) == Move(i, "ACTIVE", "REVIEW")
Reviewed(i)     == Move(i, "REVIEW", "DONE")
Failed(i)       == Move(i, "ACTIVE", "DONE")

Next == \E i \in Incidents : Open(i) \/ Investigated(i) \/ Reviewed(i) \/ Failed(i)

Spec == Init /\ [][Next]_phase
=============================================================================
