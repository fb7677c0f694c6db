--------------------------- MODULE TaskLifecycle ---------------------------
(***************************************************************************)
(* What a durable investigation task promises, with no database, no        *)
(* concurrent callers and no restart in sight: a task is created once,     *)
(* consumes one attempt each time it is handed to a specialist, is retried *)
(* only while an attempt is left, and ends for good.  AgentTasks is shown  *)
(* to implement this specification.                                        *)
(***************************************************************************)
EXTENDS Naturals

CONSTANTS Tasks,         \* identities of the durable tasks
          MaxAttempts    \* dispatches a task may consume

VARIABLES state, attempt
vars == <<state, attempt>>

Waiting  == {"PENDING", "RETRYING"}
InFlight == {"DISPATCHED", "RUNNING"}

Init == /\ state = [t \in Tasks |-> "ABSENT"]
        /\ attempt = [t \in Tasks |-> 0]

Move(t, from, to) == /\ state[t] \in from
                     /\ state' = [state EXCEPT ![t] = to]

Create(t)   == /\ Move(t, {"ABSENT"}, "PENDING")
               /\ attempt' = [attempt EXCEPT ![t] = 0]

Dispatch(t) == /\ Move(t, Waiting, "DISPATCHED")
               /\ attempt[t] < MaxAttempts
               /\ attempt' = [attempt EXCEPT ![t] = @ + 1]

Accept(t)   == Move(t, {"DISPATCHED"}, "RUNNING") /\ UNCHANGED attempt

Retry(t)    == /\ Move(t, InFlight, "RETRYING")
               /\ attempt[t] < MaxAttempts
               /\ UNCHANGED attempt

Complete(t) == Move(t, {"RUNNING"}, "COMPLETED") /\ UNCHANGED attempt

Fail(t)     == Move(t, Waiting \cup InFlight, "FAILED") /\ UNCHANGED attempt

Next == \E t \in Tasks : \/ Create(t) \/ Dispatch(t) \/ Accept(t)
                         \/ Retry(t)  \/ Complete(t) \/ Fail(t)

Spec == Init /\ [][Next]_vars
=============================================================================
