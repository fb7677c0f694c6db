-------------------------- MODULE IncidentWorkflow --------------------------
(***************************************************************************)
(* The incident coordinator: incidents/workflow.py, coordinator.py,        *)
(* react_coordinator.py and evidence_coordinator.py, over the incidents    *)
(* and agent_tasks collections.                                            *)
(*                                                                         *)
(* The worker is the single FIFO consumer.  Each of its steps ends at an   *)
(* await.  update_incident is a read, a merge and a replacement of the     *)
(* whole document, hence two steps: BeginUpdate reads and merges, Replace  *)
(* writes.  An exception of a dependency may hit any await; it fails the   *)
(* work item, except inside the three try blocks (dispatch, collection,    *)
(* review).  The only other writer is the test-completion hook.            *)
(*                                                                         *)
(* The FIFO is a set of work items here (AnomalyIntake has the queue): a   *)
(* fresh anomaly, or the recovery of an incident, which exists until it is *)
(* taken.  An anomaly whose processing failed is parked: it stays in the   *)
(* inbox until it is offered again or the backend restarts.  A specialist  *)
(* is what its messages are: an agreement or not, a result or a failure.   *)
(***************************************************************************)
EXTENDS TaskDocument, FiniteSets

CONSTANTS Detectors, Roles, None,
          ListLimit,     \* WAITING documents the startup reads, 4096
          RecoverLimit,  \* in-flight tasks and, per status, incidents it reads, 500
          MaxIncidents,  \* bound: incidents opened
          MaxArrivals,   \* bound: anomalies detected
          MaxFaults,     \* bound: exceptions of a dependency
          MaxCrashes,    \* bound: crashes of the backend
          MaxHookCalls   \* bound: requests of the completion hook

Incidents == 1 .. MaxIncidents         \* incident_id has a running number

ASSUME NoneAssumption == None \notin Roles /\ None \notin Incidents /\ None \notin Detectors
ASSUME BoundsAssumption ==
    /\ ListLimit \in Nat /\ RecoverLimit \in Nat
    /\ MaxIncidents \in Nat /\ MaxArrivals \in Nat /\ MaxFaults \in Nat
    /\ MaxCrashes \in Nat /\ MaxHookCalls \in Nat

Statuses == {"ABSENT", "NEW", "TAKEN_IN_CHARGE", "TRIAGED", "UNDER_ANALYSIS", "RESOLVED"}
Active   == {"NEW", "TAKEN_IN_CHARGE", "TRIAGED", "UNDER_ANALYSIS"}

(* What the diagnosis of a resolved incident rests on: the Technical Lead's*)
(* review, the specialist's result alone, the failure of the task, or the  *)
(* completion hook.                                                        *)
Conclusions == {"none", "reviewed", "fallback", "failed", "accepted"}

IncidentDocs == [status : Statuses, detector : Detectors \cup {None},
                 role : Roles \cup {None},    \* agentic.primary_investigator
                 task : Roles \cup {None},    \* agentic.investigation_task_id
                 conclusion : Conclusions]

NoDoc == [status |-> "ABSENT", detector |-> None, role |-> None, task |-> None,
          conclusion |-> "none"]

(* A recovery always names its incident.                                   *)
Items == {item \in [detector : Detectors, incident : Incidents \cup {None},
                    recovery : BOOLEAN, parked : BOOLEAN] :
            item.recovery => item.incident # None}
Fresh(d) == [detector |-> d, incident |-> None, recovery |-> FALSE, parked |-> FALSE]
Parked(item)   == [item EXCEPT !.parked = TRUE]
Unparked(item) == [item EXCEPT !.parked = FALSE]

WorkerSteps == {"idle", "handle", "replace", "resume", "link", "advance", "dispatch",
                "agreed", "undelivered", "accepted", "handled", "loop", "completing",
                "completed", "review", "reviewed", "fallback", "failRetryable",
                "failFinal", "marked", "release"}

VARIABLES incidents,  \* the incidents collection
          tasks,      \* the agent_tasks collection: idempotency key -> document
          work,       \* work items waiting for the worker, or parked
          worker,     \* the consumer: step, item, incident, in-memory document
          hook,       \* the request of the completion hook
          up,         \* the backend runs
          arrivals, faults, crashes, hookCalls
durable == <<incidents, tasks>>
bounds  == <<arrivals, faults, crashes, hookCalls>>
vars    == <<durable, work, worker, hook, up, bounds>>

IdleWorker == [pc |-> "idle", item |-> None, incident |-> None, doc |-> NoDoc,
               next |-> "idle", resuming |-> FALSE]
IdleHook   == [pc |-> "idle", incident |-> None, doc |-> NoDoc]

Workers == [pc : WorkerSteps, item : Items \cup {None}, incident : Incidents \cup {None},
            doc : IncidentDocs, next : WorkerSteps, resuming : BOOLEAN]
Hooks   == [pc : {"idle", "complete", "read", "replace", "answered"},
            incident : Incidents \cup {None}, doc : IncidentDocs]

TypeOK ==
    /\ incidents \in [Incidents -> IncidentDocs]
    /\ tasks \in [Incidents \X Roles -> Docs]
    /\ work \in SUBSET Items
    /\ worker \in Workers /\ hook \in Hooks
    /\ up \in BOOLEAN
    /\ arrivals \in 0 .. MaxArrivals /\ faults \in 0 .. MaxFaults
    /\ crashes \in 0 .. MaxCrashes /\ hookCalls \in 0 .. MaxHookCalls

Init ==
    /\ incidents = [i \in Incidents |-> NoDoc]
    /\ tasks = [t \in Incidents \X Roles |-> NewDoc]
    /\ work = {} /\ worker = IdleWorker /\ hook = IdleHook /\ up = TRUE
    /\ arrivals = 0 /\ faults = 0 /\ crashes = 0 /\ hookCalls = 0

-----------------------------------------------------------------------------
At(pc)   == worker.pc = pc
Goto(pc) == worker' = [worker EXCEPT !.pc = pc]
Incident == worker.incident

(* The task an incident document refers to, and its state.                 *)
HasTask(doc)   == doc.task # None
TaskOf(i, doc) == tasks[<<i, doc.task>>]
Linked(i)      == HasTask(incidents[i])
TaskState(i)   == TaskOf(i, incidents[i]).state

Held == TaskOf(Incident, worker.doc)     \* the task of the document in memory
WriteTask(role, w) == tasks' = [tasks EXCEPT ![<<Incident, role>>] = Written(@, w)]

(* update_incident reads, merges the patch (doc) and replaces.             *)
BeginUpdate(doc, next) ==
    worker' = [worker EXCEPT !.pc = "replace", !.doc = doc, !.next = next]
Current == incidents[Incident]

Replace ==
    /\ At("replace")
    /\ incidents' = [incidents EXCEPT ![Incident] = worker.doc]
    /\ Goto(worker.next)
    /\ UNCHANGED <<tasks, work, hook, up, bounds>>

-----------------------------------------------------------------------------
(* Work arrives, and handle_anomaly puts it on an incident.                *)

Arrive(d) ==
    /\ up
    /\ arrivals < MaxArrivals /\ arrivals' = arrivals + 1
    /\ work' = work \cup {Fresh(d)}
    /\ UNCHANGED <<durable, worker, hook, up, faults, crashes, hookCalls>>

(* The watcher polls the result again, within its lookback window.         *)
OfferAgain(item) ==
    /\ up /\ item \in work /\ item.parked
    /\ work' = (work \ {item}) \cup {Unparked(item)}
    /\ UNCHANGED <<durable, worker, hook, up, bounds>>

Take(item) ==
    /\ up /\ At("idle") /\ item \in work /\ ~ item.parked
    /\ work' = work \ {item}
    /\ worker' = [IdleWorker EXCEPT
                    !.pc = IF item.recovery THEN "resume" ELSE "handle",
                    !.item = item, !.resuming = TRUE,
                    !.incident = IF item.recovery THEN item.incident ELSE None,
                    !.doc = IF item.recovery THEN incidents[item.incident] ELSE NoDoc]
    /\ UNCHANGED <<durable, hook, up, bounds>>

CanCorrelate(i) ==
    incidents[i].status \in Active /\ incidents[i].detector = worker.item.detector

Correlate(i) ==
    /\ At("handle")
    /\ CanCorrelate(i)
    /\ worker' = [worker EXCEPT !.pc = "replace", !.incident = i,
                                !.doc = incidents[i], !.next = "resume"]
    /\ UNCHANGED <<durable, work, hook, up, bounds>>

(* No active incident of the detector, or it is outside the window.        *)
OpenIncident(i) ==
    /\ At("handle")
    /\ incidents[i].status = "ABSENT" /\ \A j \in 1 .. i - 1 : incidents[j].status # "ABSENT"
    /\ LET doc == [NoDoc EXCEPT !.status = "NEW", !.detector = worker.item.detector] IN
         /\ incidents' = [incidents EXCEPT ![i] = doc]
         /\ worker' = [worker EXCEPT !.pc = "resume", !.incident = i, !.doc = doc]
    /\ UNCHANGED <<tasks, work, hook, up, bounds>>

-----------------------------------------------------------------------------
(* _resume_incident, by the status of the document in memory.              *)

Resuming(status) == At("resume") /\ worker.doc.status = status

TakeInCharge ==
    /\ Resuming("NEW")
    /\ BeginUpdate([Current EXCEPT !.status = "TAKEN_IN_CHARGE"], "resume")
    /\ UNCHANGED <<durable, work, hook, up, bounds>>

ForgetfulTriage(r) ==                  \* mutant: triage starts over when TRIAGED
    /\ Resuming("TAKEN_IN_CHARGE") \/ (Resuming("TRIAGED") /\ ~ HasTask(worker.doc))
    /\ BeginUpdate([Current EXCEPT !.status = "TRIAGED", !.role = r], "resume")
    /\ UNCHANGED <<durable, work, hook, up, bounds>>

Triage(r) ==
    /\ Resuming("TAKEN_IN_CHARGE")
    /\ BeginUpdate([Current EXCEPT !.status = "TRIAGED", !.role = r], "resume")
    /\ UNCHANGED <<durable, work, hook, up, bounds>>

(* create_task finds the task again by its idempotency key, which is the   *)
(* incident and the investigator.                                          *)
CreateTask ==
    /\ Resuming("TRIAGED") /\ ~ HasTask(worker.doc)
    /\ LET t == <<Incident, worker.doc.role>> IN
         tasks' = IF tasks[t].state = "ABSENT" THEN [tasks EXCEPT ![t] = CreatedDoc] ELSE tasks
    /\ Goto("link")
    /\ UNCHANGED <<incidents, work, hook, up, bounds>>

LinkTask ==
    /\ At("link")
    /\ BeginUpdate([Current EXCEPT !.task = worker.doc.role], "advance")
    /\ UNCHANGED <<durable, work, hook, up, bounds>>

ResumeTask ==
    /\ Resuming("TRIAGED") /\ HasTask(worker.doc)
    /\ Goto("advance")
    /\ UNCHANGED <<durable, work, hook, up, bounds>>

ResumeNothing ==
    /\ Resuming("UNDER_ANALYSIS") \/ Resuming("RESOLVED")
    /\ Goto("handled")
    /\ UNCHANGED <<durable, work, hook, up, bounds>>

-----------------------------------------------------------------------------
(* _advance_investigation_task, called by _resume_incident and by the loop.*)

Return == IF worker.resuming THEN "handled" ELSE "loop"

(* DISPATCHED without RUNNING: the delivery is uncertain.                  *)
MarkUncertain ==
    /\ At("advance") /\ Held.state = "DISPATCHED"
    /\ WriteTask(worker.doc.task, FailureWrite(Held, TRUE))
    /\ Goto(Return)
    /\ UNCHANGED <<incidents, work, hook, up, bounds>>

AdvanceNothing ==
    /\ At("advance") /\ Held.state \notin {"PENDING", "RETRYING", "DISPATCHED"}
    /\ Goto(Return)
    /\ UNCHANGED <<durable, work, hook, up, bounds>>

MarkDispatched ==
    /\ At("advance") /\ Held.state \in {"PENDING", "RETRYING"}
    /\ WriteTask(worker.doc.task, DispatchWrite(Held))
    /\ Goto(IF DispatchWrite(Held).to = "FAILED" THEN Return ELSE "dispatch")
    /\ UNCHANGED <<incidents, work, hook, up, bounds>>

(* The specialist agreed in time, or refused, timed out or is unreachable. *)
DispatchAnswered ==
    /\ At("dispatch")
    /\ Goto("agreed") \/ Goto("undelivered")
    /\ UNCHANGED <<durable, work, hook, up, bounds>>

MarkUndelivered ==
    /\ At("undelivered")
    /\ WriteTask(worker.doc.task, FailureWrite(Held, TRUE))
    /\ Goto(Return)
    /\ UNCHANGED <<incidents, work, hook, up, bounds>>

MarkRunning ==
    /\ At("agreed")
    /\ WriteTask(worker.doc.task, RunningWrite)
    /\ Goto("accepted")
    /\ UNCHANGED <<incidents, work, hook, up, bounds>>

MarkUnderAnalysis ==
    /\ At("accepted")
    /\ BeginUpdate([Current EXCEPT !.status = "UNDER_ANALYSIS"], Return)
    /\ UNCHANGED <<durable, work, hook, up, bounds>>

(* handle_anomaly has returned: main.py links a fresh anomaly and waits.   *)
LinkAnomaly ==
    /\ At("handled")
    /\ worker' = [worker EXCEPT !.pc = "loop", !.resuming = FALSE, !.item.incident = Incident]
    /\ UNCHANGED <<durable, work, hook, up, bounds>>

-----------------------------------------------------------------------------
(* wait_until_workflow_terminal.  A COMPLETED task has no step: the loop   *)
(* sleeps.                                                                 *)

Waiting(states) ==
    At("loop") /\ Current.status # "RESOLVED" /\ Linked(Incident) /\ TaskState(Incident) \in states

Release ==
    /\ At("release") \/ (At("loop") /\ Current.status = "RESOLVED")
    /\ worker' = IdleWorker
    /\ UNCHANGED <<durable, work, hook, up, bounds>>

Resolved(conclusion) == [Current EXCEPT !.status = "RESOLVED", !.conclusion = conclusion]

PersistTaskFailure ==
    /\ Waiting({"FAILED"})
    /\ BeginUpdate(Resolved("failed"), "release")
    /\ UNCHANGED <<durable, work, hook, up, bounds>>

LoopAdvancePending ==                  \* mutant: the loop does not retry
    /\ Waiting({"PENDING", "DISPATCHED"})
    /\ worker' = [worker EXCEPT !.pc = "advance", !.doc = Current]
    /\ UNCHANGED <<durable, work, hook, up, bounds>>

LoopAdvance ==
    /\ Waiting({"PENDING", "RETRYING", "DISPATCHED"})
    /\ worker' = [worker EXCEPT !.pc = "advance", !.doc = Current]
    /\ UNCHANGED <<durable, work, hook, up, bounds>>

(* collect_investigation_result: a valid result, a failure message, or an  *)
(* invalid message (which raises and is retryable).                        *)
CollectResult ==
    /\ Waiting({"RUNNING"})
    /\ \E pc \in {"completing", "failRetryable", "failFinal"} :
         worker' = [worker EXCEPT !.pc = pc, !.doc = Current]
    /\ UNCHANGED <<durable, work, hook, up, bounds>>

MarkCompleted ==
    /\ At("completing") /\ Held.state = "RUNNING"
    /\ WriteTask(worker.doc.task, CompleteWrite)
    /\ Goto("completed")
    /\ UNCHANGED <<incidents, work, hook, up, bounds>>

PersistResultForgets ==                \* mutant: the agentic subdocument is rebuilt
    /\ At("completed")
    /\ BeginUpdate([Current EXCEPT !.status = "UNDER_ANALYSIS", !.task = None], "review")
    /\ UNCHANGED <<durable, work, hook, up, bounds>>

PersistResult ==
    /\ At("completed")
    /\ BeginUpdate([Current EXCEPT !.status = "UNDER_ANALYSIS"], "review")
    /\ UNCHANGED <<durable, work, hook, up, bounds>>

(* The review, in a try block with its own persistence.                    *)
PersistReview ==
    /\ At("review")
    /\ BeginUpdate(Resolved("reviewed"), "reviewed")
    /\ UNCHANGED <<durable, work, hook, up, bounds>>

ReviewFails ==
    /\ At("review")
    /\ Goto("fallback")
    /\ UNCHANGED <<durable, work, hook, up, bounds>>

ReviewRecorded ==
    /\ At("reviewed")
    /\ Goto("loop")
    /\ UNCHANGED <<durable, work, hook, up, bounds>>

PersistFallback ==
    /\ At("fallback")
    /\ BeginUpdate(Resolved("fallback"), "loop")
    /\ UNCHANGED <<durable, work, hook, up, bounds>>

Failing == At("failRetryable") \/ At("failFinal")

MarkFailed ==
    /\ Failing
    /\ IF Held.state \in Terminal
       THEN UNCHANGED tasks
       ELSE WriteTask(worker.doc.task, FailureWrite(Held, At("failRetryable")))
    /\ Goto("marked")
    /\ UNCHANGED <<incidents, work, hook, up, bounds>>

NoteFailure ==
    /\ At("marked")
    /\ BeginUpdate(Current, "loop")
    /\ UNCHANGED <<durable, work, hook, up, bounds>>

-----------------------------------------------------------------------------
(* A raised exception ends the item: a fresh anomaly goes back to WAITING. *)
FailItem == /\ worker' = IdleWorker
            /\ work' = IF worker.item.recovery THEN work ELSE work \cup {Parked(worker.item)}

(* The hook completed the task first: the compare-and-set finds it so.     *)
LosesRace ==
    /\ At("completing") \/ Failing
    /\ Held.state = "COMPLETED"
    /\ FailItem
    /\ UNCHANGED <<durable, hook, up, bounds>>

InReview == At("reviewed") \/ (At("replace") /\ worker.next = "reviewed")

WorkerRaises ==
    /\ ~ At("idle")
    /\ faults < MaxFaults /\ faults' = faults + 1
    /\ IF InReview THEN Goto("fallback") /\ UNCHANGED work ELSE FailItem
    /\ UNCHANGED <<durable, hook, up, arrivals, crashes, hookCalls>>

(* POST /internal/v1/test/incidents/{id}/complete                          *)
HookGoto(pc) == hook' = [hook EXCEPT !.pc = pc]

HookCheck(i) ==
    /\ up /\ hook.pc = "idle"
    /\ hookCalls < MaxHookCalls /\ hookCalls' = hookCalls + 1
    /\ incidents[i].status \in Active /\ Linked(i)
    /\ TaskState(i) \in {"RUNNING", "COMPLETED"}
    /\ hook' = [IdleHook EXCEPT !.incident = i,
                                !.pc = IF TaskState(i) = "RUNNING" THEN "complete" ELSE "read"]
    /\ UNCHANGED <<durable, work, worker, up, arrivals, faults, crashes>>

UncheckedHookComplete ==               \* mutant: the hook completes any task
    /\ hook.pc = "complete"
    /\ tasks' = [tasks EXCEPT ![<<hook.incident, incidents[hook.incident].task>>] =
                                    Written(@, CompleteWrite)]
    /\ HookGoto("read")
    /\ UNCHANGED <<incidents, work, worker, up, bounds>>

HookComplete ==
    /\ hook.pc = "complete"
    /\ LET t == <<hook.incident, incidents[hook.incident].task>> IN
         IF tasks[t].state = "RUNNING"
         THEN tasks' = [tasks EXCEPT ![t] = Written(@, CompleteWrite)] /\ HookGoto("read")
         ELSE hook' = IdleHook /\ UNCHANGED tasks
    /\ UNCHANGED <<incidents, work, worker, up, bounds>>

HookRead ==
    /\ hook.pc = "read"
    /\ hook' = [hook EXCEPT !.pc = "replace",
                  !.doc = [incidents[hook.incident] EXCEPT !.status = "RESOLVED",
                                                           !.conclusion = "accepted"]]
    /\ UNCHANGED <<durable, work, worker, up, bounds>>

HookReplace ==
    /\ hook.pc = "replace"
    /\ incidents' = [incidents EXCEPT ![hook.incident] = hook.doc]
    /\ HookGoto("answered")
    /\ UNCHANGED <<tasks, work, worker, up, bounds>>

HookEnds ==
    /\ hook.pc = "answered"
    /\ hook' = IdleHook
    /\ UNCHANGED <<durable, work, worker, up, bounds>>

-----------------------------------------------------------------------------
(* A fresh anomaly survives a crash in the inbox; the claim of an incident *)
(* does not.                                                               *)
Crash ==
    /\ up /\ up' = FALSE
    /\ crashes < MaxCrashes /\ crashes' = crashes + 1
    /\ work' = {item \in work \cup ({worker.item} \ {None}) : ~ item.recovery}
    /\ worker' = IdleWorker /\ hook' = IdleHook
    /\ UNCHANGED <<durable, arrivals, faults, hookCalls>>

AwaitsReviewOnly(i) ==
    incidents[i].status = "UNDER_ANALYSIS" /\ Linked(i) /\ TaskState(i) = "COMPLETED"

RecoverDispatched(i) ==                \* mutant: only incidents that have a task
    Linked(i) /\ incidents[i].status \in Active /\ ~ AwaitsReviewOnly(i)

(* build_recovery_observations                                             *)
Recoverable(i) == incidents[i].status \in Active /\ ~ AwaitsReviewOnly(i)

RecoveryOf(i) == [detector |-> incidents[i].detector, incident |-> i, recovery |-> TRUE,
                  parked |-> FALSE]

(* A query that lists fewer than its limit has listed everything.          *)
Listed(matching, limit) ==
    {S \in SUBSET matching : Cardinality(S) < limit => S = matching}

Interrupted == {t \in DOMAIN tasks : tasks[t].state \in InFlight}
Unfinished  == {i \in Incidents : incidents[i].status \in Active}

TasksRecovered(listed) ==
    [t \in DOMAIN tasks |-> IF t \in listed
                            THEN Written(tasks[t], FailureWrite(tasks[t], TRUE))
                            ELSE tasks[t]]

(* The scan of the waiting anomalies that are listed: an unlinked one is   *)
(* fresh work, one of an open incident becomes its recovery, one of a      *)
(* closed incident is completed.  The others stay in the inbox.            *)
WorkRecovered(anomalies, known) ==
    LET linked == {item.incident : item \in anomalies} \ {None}
        again  == {i \in known : Recoverable(i)} \cup (linked \cap Unfinished)
    IN  {Unparked(item) : item \in {a \in anomalies : a.incident = None}}
        \cup {Parked(item) : item \in work \ anomalies}
        \cup {RecoveryOf(i) : i \in again}

(* recover_incomplete_tasks, the recovery observations, the scan.          *)
Restart ==
    /\ ~ up /\ up' = TRUE
    /\ \E listed \in Listed(Interrupted, RecoverLimit) : tasks' = TasksRecovered(listed)
    /\ \E anomalies \in Listed(work, ListLimit), known \in Listed(Unfinished, RecoverLimit) :
         work' = WorkRecovered(anomalies, known)
    /\ UNCHANGED <<incidents, worker, hook, bounds>>

-----------------------------------------------------------------------------
WorkerStep ==
    \/ Replace \/ (\E item \in work : Take(item))
    \/ (\E i \in Incidents : Correlate(i) \/ OpenIncident(i))
    \/ TakeInCharge \/ (\E r \in Roles : Triage(r)) \/ CreateTask \/ LinkTask
    \/ ResumeTask \/ ResumeNothing
    \/ MarkUncertain \/ AdvanceNothing \/ MarkDispatched \/ DispatchAnswered
    \/ MarkUndelivered \/ MarkRunning \/ MarkUnderAnalysis \/ LinkAnomaly
    \/ Release \/ PersistTaskFailure \/ LoopAdvance \/ CollectResult
    \/ MarkCompleted \/ PersistResult \/ PersistReview \/ ReviewFails
    \/ ReviewRecorded \/ PersistFallback \/ MarkFailed \/ NoteFailure \/ LosesRace

HookStep == HookComplete \/ HookRead \/ HookReplace \/ HookEnds

Next ==
    \/ WorkerStep \/ WorkerRaises \/ HookStep \/ Crash \/ Restart
    \/ \E d \in Detectors : Arrive(d)
    \/ \E item \in work : OfferAgain(item)
    \/ \E i \in Incidents : HookCheck(i)

Spec == Init /\ [][Next]_vars

(* The event loop runs what can run, and a backend that is down comes up.  *)
(* Nobody has to offer an anomaly again, and nothing makes a specialist    *)
(* answer: the wait for the outcome of a RUNNING task has no timeout.      *)
AwaitsOutcome == Waiting({"RUNNING"})
FairSpec == /\ Spec
            /\ WF_vars(~ AwaitsOutcome /\ WorkerStep)
            /\ WF_vars(HookStep) /\ WF_vars(Restart)

-----------------------------------------------------------------------------
(* Properties.                                                             *)

Exists(i) == incidents[i].status # "ABSENT"

(* The conclusion of a resolved incident and the end of its task agree, in  *)
(* every interleaving with the completion hook, retry and restart: it is   *)
(* closed as a diagnostic failure only over a FAILED task, and with a      *)
(* diagnosis only over a COMPLETED one, never over one still in flight.    *)
ConclusionMatchesTask ==
    \A i \in Incidents : incidents[i].status = "RESOLVED" =>
      /\ incidents[i].conclusion # "none"
      /\ Linked(i)
      /\ TaskState(i) = IF incidents[i].conclusion = "failed" THEN "FAILED" ELSE "COMPLETED"

(* However often a work item is retried, correlated or recovered, an       *)
(* incident has one task: triage, which may choose another specialist each *)
(* time it runs, is not repeated once a task may exist.                    *)
OneTaskPerIncident ==
    \A i \in Incidents : \A r, s \in Roles :
      tasks[<<i, r>>].state # "ABSENT" /\ tasks[<<i, s>>].state # "ABSENT" => r = s

Investigated(i) == Linked(i) /\ TaskState(i) = "COMPLETED"

(* The coordinator implements the life of an incident that the intake      *)
(* relies on.                                                              *)
Phase(i) == IF ~ Exists(i) THEN "ABSENT"
            ELSE IF incidents[i].status = "RESOLVED" THEN "DONE"
            ELSE IF Investigated(i) THEN "REVIEW" ELSE "ACTIVE"
Lifecycle == INSTANCE IncidentLifecycle WITH phase <- [i \in Incidents |-> Phase(i)]
ImplementsLifecycle == Lifecycle!Spec

(* The review of an investigated incident is lost: nobody is concluding it,*)
(* neither the worker, which stores the result, reviews it and resolves the*)
(* incident, nor the hook.                                                 *)
BeingConcluded(i) ==
    \/ Incident = i /\ worker.pc \in {"completed", "review", "reviewed", "fallback"}
    \/ Incident = i /\ At("replace") /\ (worker.next \in {"review", "reviewed"}
                                       \/ worker.doc.status = "RESOLVED")
    \/ hook.incident = i /\ hook.pc \in {"read", "replace"}
ReviewLost(i) == incidents[i].status \in Active /\ Investigated(i) /\ ~ BeingConcluded(i)

(* Nobody in this process is going to take the incident up.                *)
Abandoned(i) ==
    /\ incidents[i].status \in Active /\ Incident # i
    /\ \A item \in work : item.incident = i => item.parked

(* The consumer sleeps on an incident whose review was lost.               *)
HeldByReview == At("loop") /\ ReviewLost(Incident)

(* Every incident is resolved, whatever the specialists answer and wherever*)
(* a crash falls, unless, for good: its review was lost, to a crash or to  *)
(* an exception after the completion of its task; or the consumer never    *)
(* gets to it, held by an incident of which that is true; or an exception  *)
(* left it to nobody, and no restart came after; or the consumer waits for *)
(* an outcome that never comes.                                            *)
EveryIncidentEnds == <>[]AwaitsOutcome \/
    \A i \in Incidents :
      \/ Exists(i) ~> incidents[i].status = "RESOLVED"
      \/ <>[](crashes + faults > 0 /\ (ReviewLost(i) \/ HeldByReview))
      \/ <>[](faults > 0 /\ Abandoned(i))

(* The consumer is always released, by a resolved incident or by a failure,*)
(* unless it waits on an incident whose review was lost, or for an outcome *)
(* that never comes.                                                       *)
FifoAdvances == <>[]AwaitsOutcome \/ (~ At("idle") ~> At("idle") \/ HeldByReview)

(* Requirements.md 223: transient workflow failures must not lose completed*)
(* specialist evidence: an incident whose task is COMPLETED is concluded.  *)
EvidenceIsConcluded ==
    \A i \in Incidents : Investigated(i) ~> incidents[i].status = "RESOLVED"
=============================================================================
