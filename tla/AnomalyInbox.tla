---------------------------- MODULE AnomalyInbox ----------------------------
(***************************************************************************)
(* The durable anomaly inbox (integrations/anomaly_inbox.py): one document *)
(* per OpenSearch result.  Every method is one atomic MongoDB update, so   *)
(* each is given here as the function it applies to a document, or to the  *)
(* whole inbox for the update_many methods.  Labels, timestamps and counts *)
(* that nothing branches on are left out.                                  *)
(***************************************************************************)
EXTENDS Naturals

CONSTANT Keys                \* deduplication keys of OpenSearch results

NoIncident == 0              \* incident_id is null; incidents are numbered from 1

States == {"ABSENT", "WAITING", "RECOVERY", "PROCESSING", "COMPLETED", "DISMISSED"}
Final  == {"COMPLETED", "DISMISSED"}
Open   == {"WAITING", "RECOVERY", "PROCESSING"}

Docs == [state : States, incident : Nat]

Missing == [state |-> "ABSENT", incident |-> NoIncident]

(* find_one_and_update with a filter on the state                          *)
Move(doc, from, to) == IF doc.state \in from THEN [doc EXCEPT !.state = to] ELSE doc

Recorded(doc) == Move(doc, {"ABSENT"}, "WAITING")

Processing(doc) == Move(doc, {"WAITING", "RECOVERY"}, "PROCESSING")

(* mark_anomaly_processing also returns a document already PROCESSING.     *)
ProcessingFound(doc) == doc.state \in Open

Completed(doc) == Move(doc, Open, "COMPLETED")

ReopenDismissed(doc) ==                \* mutant: only COMPLETED is left alone
    Move(doc, Open \cup {"DISMISSED"}, "WAITING")

Retryable(doc) == Move(doc, Open, "WAITING")

DismissProcessing(doc) ==              \* mutant: work in progress is dismissed
    doc.state \in {"WAITING", "PROCESSING"} /\ doc.incident = NoIncident

Dismissable(doc) == doc.state = "WAITING" /\ doc.incident = NoIncident

Dismissed(doc) == IF Dismissable(doc) THEN [doc EXCEPT !.state = "DISMISSED"] ELSE doc

LinkFound(doc) == doc.state \notin {"ABSENT", "DISMISSED"}

Linked(doc, i) == IF LinkFound(doc) THEN [doc EXCEPT !.incident = i] ELSE doc

Released(doc) ==
    IF doc.state \in Open THEN [state |-> "WAITING", incident |-> NoIncident] ELSE doc

(* update_many over the documents linked to one incident                   *)
OfIncident(box, i, from, to) ==
    [k \in Keys |-> IF box[k].incident = i THEN Move(box[k], from, to) ELSE box[k]]

RecoveryQueued(box, i) == OfIncident(box, i, {"WAITING"}, "RECOVERY")

IncidentProcessing(box, i) == OfIncident(box, i, {"WAITING", "RECOVERY"}, "PROCESSING")

CompleteEveryone(box, i) ==            \* mutant: the filter has no incident
    [k \in Keys |-> Move(box[k], Open, "COMPLETED")]

IncidentCompleted(box, i) == OfIncident(box, i, Open, "COMPLETED")

RecoveryOnlyInterrupted(box) ==        \* mutant: PROCESSING is not reset
    [k \in Keys |-> Move(box[k], {"RECOVERY"}, "WAITING")]

Interrupted(box) == [k \in Keys |-> Move(box[k], {"PROCESSING", "RECOVERY"}, "WAITING")]
=============================================================================
