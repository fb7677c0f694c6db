----------------------- MODULE IncidentWorkflowProofs -----------------------
(***************************************************************************)
(* Proofs about IncidentWorkflow for every number of incidents, every set  *)
(* of detectors and specialists, every attempt budget and every number of  *)
(* exceptions, crashes and requests of the completion hook.                *)
(***************************************************************************)
EXTENDS IncidentWorkflow, TLAPS

(* The statuses of an incident that has no task yet.                       *)
Early == {"ABSENT", "NEW", "TAKEN_IN_CHARGE"}

(* A document of incident i, in the collection or on its way there, knows  *)
(* every task of the incident, and a conclusion it has is the one of its   *)
(* task.                                                                   *)
Concluded(i, doc) ==
    /\ doc.conclusion # "none"
    /\ doc.task # None
    /\ TaskOf(i, doc).state = IF doc.conclusion = "failed" THEN "FAILED" ELSE "COMPLETED"

DocSound(i, doc) ==
    /\ \A r \in Roles :
         tasks[<<i, r>>].state # "ABSENT" => doc.role = r /\ doc.status \notin Early
    /\ doc.status # "ABSENT" => doc.detector # None
    /\ doc.status \notin Early => doc.role # None
    /\ doc.task # None => doc.task = doc.role /\ doc.status \notin Early
    /\ doc.status = "RESOLVED" => Concluded(i, doc)

IncidentsSound == \A i \in Incidents : DocSound(i, incidents[i])

(* What the worker relies on at each of its steps.                         *)
Delivering == {"dispatch", "agreed", "undelivered"}
Collecting == {"completing", "failRetryable", "failFinal"}
Concluding == {"completed", "review", "reviewed", "fallback"}

Finished(i) == Linked(i) /\ TaskState(i) = "COMPLETED"

ItemSound ==
    /\ ~ At("idle") => worker.item \in Items
    /\ ~ (At("idle") \/ At("handle")) => Incident \in Incidents

ResumeSound ==
    At("resume") => /\ worker.doc.role = Current.role
                    /\ worker.doc.task = Current.task
                    /\ worker.doc.status \in Early \/ Current.status \in Early
                         => worker.doc.status = Current.status

LinkSound == At("link") => worker.doc.role = Current.role /\ Current.status \notin Early

ReplaceSound ==
    At("replace") =>
      /\ DocSound(Incident, worker.doc)
      /\ Linked(Incident) => worker.doc.task = Current.task
      /\ worker.next \in {"resume", "advance", "handled", "loop", "release", "review", "reviewed"}
      /\ worker.next = "advance" => HasTask(worker.doc)
      /\ worker.next \in {"review", "reviewed"} => Finished(Incident)

HoldSound ==
    worker.pc \in {"advance"} \cup Delivering \cup Collecting =>
      /\ HasTask(worker.doc) /\ worker.doc.task = Current.task
      /\ worker.pc \in Delivering => Held.state = "DISPATCHED"
      /\ worker.pc \in Collecting => Held.state \in {"RUNNING", "COMPLETED"}

ConcludeSound ==
    /\ worker.pc \in Concluding => Finished(Incident)
    /\ At("accepted") => Linked(Incident)

WorkerSound ==
    ItemSound /\ ResumeSound /\ LinkSound /\ ReplaceSound /\ HoldSound /\ ConcludeSound

(* The hook works on a linked incident and resolves it over a finished task*)
HookSound ==
    /\ hook.pc \in {"complete", "read", "replace"} =>
         hook.incident \in Incidents /\ Linked(hook.incident)
    /\ hook.pc \in {"read", "replace"} => Finished(hook.incident)
    /\ hook.pc = "replace" => /\ hook.doc.role = incidents[hook.incident].role
                              /\ hook.doc.task = incidents[hook.incident].task
                              /\ hook.doc.detector # None
                              /\ hook.doc.status = "RESOLVED"
                              /\ hook.doc.conclusion = "accepted"

IInv == TypeOK /\ IncidentsSound /\ WorkerSound /\ HookSound

USE NoneAssumption, BoundsAssumption, AttemptsAssumption

-----------------------------------------------------------------------------
(* Facts about documents and writes.                                       *)
LEMMA TaskDocs == NewDoc \in Docs /\ CreatedDoc \in Docs /\ NewDoc.state = "ABSENT"
                  /\ CreatedDoc.state = "PENDING"
  BY DEF NewDoc, CreatedDoc, Docs, States, Errors

LEMMA WrittenFacts ==
    ASSUME NEW doc \in Docs, NEW w \in Writes
    PROVE  Written(doc, w) \in Docs /\ Written(doc, w).state = w.to
  BY DEF Written, Docs, Writes, Errors

LEMMA WriteFacts ==
    ASSUME NEW doc \in Docs, NEW retryable \in BOOLEAN
    PROVE  /\ FailureWrite(doc, retryable) \in Writes
           /\ FailureWrite(doc, retryable).to \in {"RETRYING", "FAILED"}
           /\ DispatchWrite(doc) \in Writes
           /\ DispatchWrite(doc).to \in {"DISPATCHED", "FAILED"}
           /\ RunningWrite \in Writes /\ RunningWrite.to = "RUNNING"
           /\ CompleteWrite \in Writes /\ CompleteWrite.to = "COMPLETED"
  BY DEF FailureWrite, DispatchWrite, RunningWrite, CompleteWrite, Writes, States, Errors

LEMMA NoDocFacts == NoDoc \in IncidentDocs /\ NoDoc.status = "ABSENT" /\ NoDoc.task = None
  BY DEF NoDoc, IncidentDocs, Statuses, Conclusions

LEMMA IdleFacts == IdleWorker \in Workers /\ IdleHook \in Hooks
                   /\ IdleWorker.pc = "idle" /\ IdleHook.pc = "idle"
  BY NoDocFacts DEF IdleWorker, IdleHook, Workers, Hooks, WorkerSteps

LEMMA GotoFacts ==
    ASSUME TypeOK, NEW pc \in WorkerSteps, Goto(pc)
    PROVE  /\ worker' \in Workers
           /\ worker'.pc = pc /\ worker'.item = worker.item
           /\ worker'.incident = worker.incident /\ worker'.doc = worker.doc
           /\ worker'.next = worker.next
  BY DEF TypeOK, Goto, Workers

LEMMA BeginFacts ==
    ASSUME TypeOK, NEW doc \in IncidentDocs, NEW next \in WorkerSteps, BeginUpdate(doc, next)
    PROVE  /\ worker' \in Workers
           /\ worker'.pc = "replace" /\ worker'.item = worker.item
           /\ worker'.incident = worker.incident /\ worker'.doc = doc
           /\ worker'.next = next
  BY DEF TypeOK, BeginUpdate, Workers, WorkerSteps

LEMMA DocUpdates ==
    ASSUME NEW doc \in IncidentDocs, NEW s \in Statuses, NEW r \in Roles \cup {None},
           NEW c \in Conclusions
    PROVE  /\ [doc EXCEPT !.status = s] \in IncidentDocs
           /\ [doc EXCEPT !.status = s, !.role = r] \in IncidentDocs
           /\ [doc EXCEPT !.task = r] \in IncidentDocs
           /\ [doc EXCEPT !.status = s, !.conclusion = c] \in IncidentDocs
  BY DEF IncidentDocs

LEMMA CurrentFacts ==
    ASSUME TypeOK, Incident \in Incidents
    PROVE  Current \in IncidentDocs /\ \A c \in Conclusions : Resolved(c) \in IncidentDocs
<1>1. Current \in IncidentDocs
  BY DEF TypeOK, Current
<1>2. "RESOLVED" \in Statuses
  BY DEF Statuses
<1>3. ASSUME NEW c \in Conclusions PROVE Resolved(c) \in IncidentDocs
  BY <1>1, <1>2, DocUpdates DEF Resolved
<1>4. QED
  BY <1>1, <1>3

-----------------------------------------------------------------------------
(* Three ways in which a step of the worker leaves the shared state sound: *)
(* it writes nothing, it moves the task it holds, or it replaces the       *)
(* document of its incident.                                               *)
LEMMA QuietStep ==
    ASSUME IInv, UNCHANGED <<durable, hook>>
    PROVE  /\ IncidentsSound' /\ HookSound'
           /\ \A i \in Incidents : Finished(i)' <=> Finished(i)
           /\ \A i \in Incidents : Linked(i)' <=> Linked(i)
  BY DEF IInv, IncidentsSound, DocSound, Concluded, HookSound, Finished, Linked, HasTask,
         TaskState, TaskOf, durable

LEMMA TaskStep ==
    ASSUME IInv, HasTask(worker.doc), worker.doc.task = Current.task, Incident \in Incidents,
           Held.state \notin Terminal,
           NEW w \in Writes, WriteTask(worker.doc.task, w), UNCHANGED <<incidents, hook>>
    PROVE  /\ IncidentsSound' /\ HookSound'
           /\ tasks' \in [Incidents \X Roles -> Docs]
           /\ tasks'[<<Incident, worker.doc.task>>].state = w.to
<1> DEFINE t == <<Incident, worker.doc.task>>
<1>1. t \in Incidents \X Roles /\ Held = tasks[t] /\ tasks[t] \in Docs
  BY DEF IInv, TypeOK, Current, HasTask, IncidentDocs, Held, TaskOf
<1>2. tasks' = [tasks EXCEPT ![t] = Written(tasks[t], w)]
  BY DEF WriteTask
<1>3. Written(tasks[t], w) \in Docs /\ Written(tasks[t], w).state = w.to
  BY <1>1, WrittenFacts
<1>4. tasks' \in [Incidents \X Roles -> Docs] /\ tasks'[t].state = w.to
  BY <1>1, <1>2, <1>3 DEF IInv, TypeOK
<1>5. \A u \in Incidents \X Roles : u # t => tasks'[u] = tasks[u]
  BY <1>1, <1>2 DEF IInv, TypeOK
<1>6. tasks[t].state \notin {"COMPLETED", "FAILED"}
  BY <1>1 DEF Terminal
<1>7. ASSUME NEW i \in Incidents PROVE DocSound(i, incidents[i])'
  <2>1. DocSound(i, incidents[i]) /\ incidents'[i] = incidents[i] /\ incidents[i] \in IncidentDocs
    BY DEF IInv, IncidentsSound, TypeOK
  <2>2. DocSound(Incident, Current)
    BY DEF IInv, IncidentsSound, Current
  <2>3. ASSUME NEW r \in Roles, tasks'[<<i, r>>].state # "ABSENT"
        PROVE  incidents[i].role = r /\ incidents[i].status \notin Early
    <3>1. CASE <<i, r>> = t
      BY <3>1, <2>2 DEF DocSound, HasTask, Current
    <3>2. CASE <<i, r>> # t
      BY <3>2, <2>3, <2>1, <1>5 DEF DocSound
    <3>3. QED
      BY <3>1, <3>2
  <2>4. ASSUME incidents[i].status = "RESOLVED"
        PROVE  Concluded(i, incidents[i])'
    <3>1. Concluded(i, incidents[i])
      BY <2>4, <2>1 DEF DocSound
    <3>2. <<i, incidents[i].task>> \in Incidents \X Roles
      BY <3>1, <2>1 DEF Concluded, IncidentDocs
    <3>3. tasks'[<<i, incidents[i].task>>] = tasks[<<i, incidents[i].task>>]
      BY <3>1, <3>2, <1>5, <1>6 DEF Concluded, TaskOf
    <3>4. QED
      BY <3>1, <3>3, <2>1 DEF Concluded, TaskOf
  <2>5. QED
    BY <2>1, <2>3, <2>4 DEF DocSound
<1>8. HookSound'
  <2>1. hook.pc \in {"read", "replace"} =>
           tasks'[<<hook.incident, incidents[hook.incident].task>>]
             = tasks[<<hook.incident, incidents[hook.incident].task>>]
    BY <1>5, <1>6 DEF IInv, HookSound, Finished, Linked, HasTask, TaskState, TaskOf, TypeOK, IncidentDocs
  <2>2. QED
    BY <2>1 DEF IInv, HookSound, Finished, Linked, HasTask, TaskState, TaskOf
<1>9. QED
  BY <1>4, <1>7, <1>8 DEF IncidentsSound

LEMMA ReplaceStep ==
    ASSUME IInv, NEW i \in Incidents, NEW doc \in IncidentDocs,
           DocSound(i, doc), Linked(i) => doc.task = incidents[i].task,
           incidents' = [incidents EXCEPT ![i] = doc],
           UNCHANGED tasks
    PROVE  /\ incidents' \in [Incidents -> IncidentDocs] /\ incidents'[i] = doc
           /\ IncidentsSound'
           /\ UNCHANGED hook => HookSound'
           /\ \A j \in Incidents : Finished(j) => Finished(j)'
<1>1. /\ incidents' \in [Incidents -> IncidentDocs] /\ incidents'[i] = doc
      /\ \A j \in Incidents : j # i => incidents'[j] = incidents[j]
  BY DEF IInv, TypeOK
<1>2. \A j \in Incidents : \A d : DocSound(j, d)' <=> DocSound(j, d)
  BY DEF DocSound, Concluded, TaskOf
<1>3. IncidentsSound'
  BY <1>1, <1>2 DEF IInv, IncidentsSound
<1>4. DocSound(i, incidents[i])
  BY DEF IInv, IncidentsSound
<1>5. Linked(i) => doc.task = incidents[i].task /\ doc.role = incidents[i].role
  BY <1>4 DEF DocSound, Linked, HasTask
<1>6. \A j \in Incidents : Linked(j) => /\ incidents'[j].task = incidents[j].task
                                        /\ incidents'[j].role = incidents[j].role
  BY <1>1, <1>5
<1>7. \A j \in Incidents : Finished(j) => Finished(j)'
  BY <1>6 DEF Finished, Linked, HasTask, TaskState, TaskOf
<1>8. ASSUME UNCHANGED hook PROVE HookSound'
  BY <1>8, <1>6, <1>7 DEF IInv, HookSound, Finished, Linked, HasTask
<1>9. QED
  BY <1>1, <1>3, <1>7, <1>8

-----------------------------------------------------------------------------
(* The worker.                                                             *)

(* A step that only moves the worker and keeps what it holds.              *)
LEMMA WorkerStays ==
    ASSUME IInv, UNCHANGED <<durable, hook>>,
           worker' \in Workers, WorkerSound',
           work' \in SUBSET Items, UNCHANGED <<up, arrivals, crashes, hookCalls>>,
           faults' \in 0 .. MaxFaults
    PROVE  IInv'
<1>1. TypeOK'
  BY DEF IInv, TypeOK, durable
<1>2. QED
  BY <1>1, QuietStep DEF IInv

(* What a worker that is neither idle nor new to its item can rely on.     *)
LEMMA WorkerFacts ==
    ASSUME IInv, ~ At("idle"), ~ At("handle")
    PROVE  /\ worker.item \in Items /\ Incident \in Incidents
           /\ worker.doc \in IncidentDocs /\ worker.next \in WorkerSteps
           /\ Current = incidents[Incident] /\ Current \in IncidentDocs
           /\ DocSound(Incident, Current)
  BY CurrentFacts DEF IInv, WorkerSound, ItemSound, TypeOK, Workers, IncidentsSound, Current

(* A step that only changes pc, to one at which nothing particular is held.*)
Free == {"handled", "loop", "marked", "release"}

LEMMA GotoFree ==
    ASSUME IInv, ~ At("idle"), ~ At("handle"), NEW pc \in Free, Goto(pc)
    PROVE  worker' \in Workers /\ WorkerSound'
<1>1. TypeOK /\ pc \in WorkerSteps
  BY DEF IInv, Free, WorkerSteps
<1>2. QED
  BY <1>1, GotoFacts, WorkerFacts
  DEF WorkerSound, ItemSound, ResumeSound, LinkSound, ReplaceSound, HoldSound, ConcludeSound,
      At, Free, Delivering, Collecting, Concluding, Incident

(* A step that begins an update of the incident.                           *)
LEMMA BeginKeeps ==
    ASSUME IInv, ~ At("idle"), ~ At("handle"),
           NEW doc \in IncidentDocs, DocSound(Incident, doc),
           Linked(Incident) => doc.task = Current.task,
           NEW next \in {"resume", "advance", "handled", "loop", "release", "review", "reviewed"},
           next = "advance" => HasTask(doc),
           next \in {"review", "reviewed"} => Finished(Incident),
           BeginUpdate(doc, next), UNCHANGED <<durable, work, hook, up, bounds>>
    PROVE  IInv'
<1>1. TypeOK /\ next \in WorkerSteps
  BY DEF IInv, WorkerSteps
<1>2. /\ worker' \in Workers /\ worker'.pc = "replace" /\ worker'.item = worker.item
      /\ worker'.incident = worker.incident /\ worker'.doc = doc /\ worker'.next = next
  BY <1>1, BeginFacts
<1>3. Incident' = Incident /\ Incident \in Incidents /\ Current' = Current
  BY <1>2, WorkerFacts DEF Incident, Current, durable
<1>4. DocSound(Incident, doc)' /\ (Linked(Incident)' <=> Linked(Incident))
      /\ (Finished(Incident)' <=> Finished(Incident))
  BY <1>3 DEF DocSound, Concluded, TaskOf, Linked, Finished, TaskState, HasTask, durable
<1>5. ReplaceSound'
  BY <1>2, <1>3, <1>4 DEF ReplaceSound, HasTask
<1>6. WorkerSound'
  BY <1>2, <1>3, <1>5, WorkerFacts
  DEF WorkerSound, ItemSound, ResumeSound, LinkSound, HoldSound, ConcludeSound,
      At, Delivering, Collecting, Concluding
<1>7. work' \in SUBSET Items /\ faults' \in 0 .. MaxFaults
      /\ UNCHANGED <<up, arrivals, crashes, hookCalls>>
  BY DEF IInv, TypeOK, bounds
<1>8. QED
  BY <1>2, <1>6, <1>7, WorkerStays DEF durable

(* A step that moves the task the worker holds.                            *)
LEMMA TaskMoveKeeps ==
    ASSUME IInv, ~ At("idle"), ~ At("handle"),
           HasTask(worker.doc), worker.doc.task = Current.task, Held.state \notin Terminal,
           NEW w \in Writes, WriteTask(worker.doc.task, w),
           NEW pc \in Free \cup {"dispatch", "accepted", "completed"}, Goto(pc),
           pc = "dispatch" => w.to = "DISPATCHED",
           pc = "completed" => w.to = "COMPLETED",
           UNCHANGED <<incidents, work, hook, up, bounds>>
    PROVE  IInv'
<1>1. Incident \in Incidents /\ TypeOK /\ pc \in WorkerSteps
  BY WorkerFacts DEF IInv, Free, WorkerSteps
<1>2. /\ IncidentsSound' /\ HookSound'
      /\ tasks' \in [Incidents \X Roles -> Docs]
      /\ tasks'[<<Incident, worker.doc.task>>].state = w.to
  BY <1>1, TaskStep
<1>3. /\ worker' \in Workers /\ worker'.pc = pc /\ worker'.item = worker.item
      /\ worker'.incident = worker.incident /\ worker'.doc = worker.doc
  BY <1>1, GotoFacts
<1>4. WorkerSound'
  <2>1. CASE pc \in Free
    BY <2>1, GotoFree
  <2>2. CASE pc = "dispatch"
    <3>1. HoldSound'
      BY <1>1, <1>2, <1>3, <2>2
      DEF HoldSound, At, Delivering, Collecting, HasTask, Held, TaskOf, Current, Incident
    <3>2. QED
      BY <1>3, <2>2, <3>1, WorkerFacts
      DEF WorkerSound, ItemSound, ResumeSound, LinkSound, ReplaceSound, ConcludeSound, At,
          Concluding, Incident
  <2>3. CASE pc = "accepted"
    <3>1. Linked(Incident)' /\ Incident' = Incident
      BY <1>1, <1>3 DEF Linked, HasTask, Current, Incident
    <3>2. QED
      BY <1>1, <1>3, <2>3, <3>1, WorkerFacts
      DEF WorkerSound, ItemSound, ResumeSound, LinkSound, ReplaceSound, HoldSound, ConcludeSound,
          At, Delivering, Collecting, Concluding, Incident
  <2>4. CASE pc = "completed"
    <3>1. Finished(Incident)' /\ Incident' = Incident
      BY <1>1, <1>2, <1>3, <2>4
      DEF Finished, Linked, HasTask, TaskState, TaskOf, Current, Incident
    <3>2. QED
      BY <1>1, <1>3, <2>4, <3>1, WorkerFacts
      DEF WorkerSound, ItemSound, ResumeSound, LinkSound, ReplaceSound, HoldSound, ConcludeSound,
          At, Delivering, Collecting, Incident
  <2>5. QED
    BY <2>1, <2>2, <2>3, <2>4
<1>5. TypeOK'
  BY <1>2, <1>3 DEF IInv, TypeOK, bounds
<1>6. QED
  BY <1>2, <1>4, <1>5 DEF IInv

(* A step that only changes pc and keeps what the worker holds.            *)
LEMMA GotoKeeps ==
    ASSUME IInv, ~ At("idle"), ~ At("handle"), NEW pc \in Free, Goto(pc),
           UNCHANGED <<durable, work, hook, up, bounds>>
    PROVE  IInv'
<1>1. work' \in SUBSET Items /\ faults' \in 0 .. MaxFaults
      /\ UNCHANGED <<up, arrivals, crashes, hookCalls>>
  BY DEF IInv, TypeOK, bounds
<1>2. QED
  BY <1>1, GotoFree, WorkerStays DEF durable

-----------------------------------------------------------------------------
(* _resume_incident.                                                       *)

LEMMA TakeInChargeKeeps ==
    ASSUME IInv, TakeInCharge
    PROVE  IInv'
<1> DEFINE doc == [Current EXCEPT !.status = "TAKEN_IN_CHARGE"]
<1>1. ~ At("idle") /\ ~ At("handle") /\ At("resume") /\ worker.doc.status = "NEW"
  BY DEF TakeInCharge, Resuming, At
<1>2. Current \in IncidentDocs /\ DocSound(Incident, Current) /\ Incident \in Incidents
  BY <1>1, WorkerFacts
<1>3. Current.status = "NEW"
  BY <1>1 DEF IInv, WorkerSound, ResumeSound, Early
<1>4. doc \in IncidentDocs /\ DocSound(Incident, doc) /\ doc.task = Current.task
  BY <1>2, <1>3 DEF DocSound, Concluded, Early, IncidentDocs, Statuses, Conclusions
<1>5. QED
  BY <1>1, <1>4, BeginKeeps DEF TakeInCharge

LEMMA TriageKeeps ==
    ASSUME IInv, NEW r \in Roles, Triage(r)
    PROVE  IInv'
<1> DEFINE doc == [Current EXCEPT !.status = "TRIAGED", !.role = r]
<1>1. ~ At("idle") /\ ~ At("handle") /\ At("resume") /\ worker.doc.status = "TAKEN_IN_CHARGE"
  BY DEF Triage, Resuming, At
<1>2. Current \in IncidentDocs /\ DocSound(Incident, Current) /\ Incident \in Incidents
  BY <1>1, WorkerFacts
<1>3. Current.status = "TAKEN_IN_CHARGE"
  BY <1>1 DEF IInv, WorkerSound, ResumeSound, Early
<1>4. doc \in IncidentDocs /\ DocSound(Incident, doc) /\ doc.task = Current.task
  BY <1>2, <1>3 DEF DocSound, Concluded, Early, IncidentDocs, Statuses, Conclusions
<1>5. QED
  BY <1>1, <1>4, BeginKeeps DEF Triage

LEMMA LinkTaskKeeps ==
    ASSUME IInv, LinkTask
    PROVE  IInv'
<1> DEFINE doc == [Current EXCEPT !.task = worker.doc.role]
<1>1. ~ At("idle") /\ ~ At("handle") /\ At("link")
  BY DEF LinkTask, At
<1>2. Current \in IncidentDocs /\ DocSound(Incident, Current) /\ Incident \in Incidents
      /\ Current = incidents[Incident]
  BY <1>1, WorkerFacts
<1>3. worker.doc.role = Current.role /\ Current.status \notin Early
  BY <1>1 DEF IInv, WorkerSound, LinkSound
<1>4. Current.role # None
  BY <1>2, <1>3 DEF DocSound
<1>5. doc \in IncidentDocs /\ doc.role = Current.role /\ doc.task = Current.role
      /\ doc.status = Current.status /\ doc.conclusion = Current.conclusion
  BY <1>2, <1>3 DEF IncidentDocs
<1>6. Linked(Incident) => doc.task = Current.task
  BY <1>2, <1>5 DEF Linked, HasTask, DocSound
<1>7. DocSound(Incident, doc)
  BY <1>2, <1>3, <1>4, <1>5 DEF DocSound, Concluded, TaskOf
<1>8. HasTask(doc)
  BY <1>4, <1>5 DEF HasTask
<1>9. QED
  BY <1>1, <1>5, <1>6, <1>7, <1>8, BeginKeeps DEF LinkTask

LEMMA ResumeTaskKeeps ==
    ASSUME IInv, ResumeTask
    PROVE  IInv'
<1>1. ~ At("idle") /\ ~ At("handle") /\ At("resume") /\ HasTask(worker.doc)
  BY DEF ResumeTask, Resuming, At
<1>2. "advance" \in WorkerSteps /\ TypeOK
  BY DEF IInv, WorkerSteps
<1>3. /\ worker' \in Workers /\ worker'.pc = "advance" /\ worker'.item = worker.item
      /\ worker'.incident = worker.incident /\ worker'.doc = worker.doc
  BY <1>2, GotoFacts DEF ResumeTask
<1>4. worker.doc.task = Current.task
  BY <1>1 DEF IInv, WorkerSound, ResumeSound
<1>5. HoldSound'
  BY <1>1, <1>3, <1>4
  DEF HoldSound, Delivering, Collecting, HasTask, Current, Incident, ResumeTask, durable
<1>6. WorkerSound'
  BY <1>1, <1>3, <1>5, WorkerFacts
  DEF WorkerSound, ItemSound, ResumeSound, LinkSound, ReplaceSound, ConcludeSound, At,
      Concluding, Incident
<1>7. work' \in SUBSET Items /\ faults' \in 0 .. MaxFaults
      /\ UNCHANGED <<up, arrivals, crashes, hookCalls>>
  BY DEF IInv, TypeOK, bounds, ResumeTask
<1>8. QED
  BY <1>3, <1>6, <1>7, WorkerStays DEF durable, ResumeTask

LEMMA ResumeNothingKeeps ==
    ASSUME IInv, ResumeNothing
    PROVE  IInv'
  BY GotoKeeps DEF ResumeNothing, Resuming, At, Free

LEMMA CreateTaskKeeps ==
    ASSUME IInv, CreateTask
    PROVE  IInv'
<1> DEFINE t == <<Incident, worker.doc.role>>
<1>1. At("resume") /\ worker.doc.status = "TRIAGED" /\ worker.doc.task = None
  BY DEF CreateTask, Resuming, HasTask
<1>2. /\ Incident \in Incidents /\ worker.doc \in IncidentDocs
      /\ Current \in IncidentDocs /\ Current = incidents[Incident] /\ DocSound(Incident, Current)
      /\ worker.item \in Items
  BY <1>1, WorkerFacts DEF At
<1>3. /\ worker.doc.role = Current.role /\ Current.task = None /\ Current.status \notin Early
  BY <1>1 DEF IInv, WorkerSound, ResumeSound, Early
<1>4. t \in Incidents \X Roles
  BY <1>2, <1>3 DEF DocSound, IncidentDocs
<1>5. /\ tasks' \in [Incidents \X Roles -> Docs]
      /\ \A u \in Incidents \X Roles : u # t => tasks'[u] = tasks[u]
  BY <1>4, TaskDocs DEF CreateTask, IInv, TypeOK
<1>6. UNCHANGED <<incidents, work, hook, up, bounds>>
  BY DEF CreateTask
<1>7. "link" \in WorkerSteps /\ TypeOK
  BY DEF WorkerSteps, IInv
<1>8. /\ worker' \in Workers /\ worker'.pc = "link" /\ worker'.item = worker.item
      /\ worker'.incident = worker.incident /\ worker'.doc = worker.doc
  BY <1>7, GotoFacts DEF CreateTask
<1>9. Current.status # "RESOLVED"
  BY <1>2, <1>3 DEF DocSound, Concluded
<1>10. IncidentsSound'
  <2>1. SUFFICES ASSUME NEW i \in Incidents PROVE DocSound(i, incidents[i])'
    BY DEF IncidentsSound
  <2>2. DocSound(i, incidents[i]) /\ incidents'[i] = incidents[i] /\ incidents[i] \in IncidentDocs
    BY <1>6 DEF IInv, IncidentsSound, TypeOK
  <2>3. ASSUME NEW r \in Roles, tasks'[<<i, r>>].state # "ABSENT"
        PROVE  incidents[i].role = r /\ incidents[i].status \notin Early
    <3>1. CASE <<i, r>> = t
      BY <3>1, <1>2, <1>3
    <3>2. CASE <<i, r>> # t
      BY <3>2, <2>3, <2>2, <1>5 DEF DocSound
    <3>3. QED
      BY <3>1, <3>2
  <2>4. ASSUME incidents[i].status = "RESOLVED"
        PROVE  Concluded(i, incidents[i])'
    <3>1. Concluded(i, incidents[i]) /\ i # Incident
      BY <2>4, <2>2, <1>2, <1>9 DEF DocSound
    <3>2. tasks'[<<i, incidents[i].task>>] = tasks[<<i, incidents[i].task>>]
      BY <3>1, <2>2, <1>5 DEF Concluded, IncidentDocs
    <3>3. QED
      BY <3>1, <3>2, <2>2 DEF Concluded, TaskOf
  <2>5. QED
    BY <2>2, <2>3, <2>4 DEF DocSound
<1>11. HookSound'
  <2>1. hook.pc \in {"complete", "read", "replace"} =>
           hook.incident \in Incidents /\ hook.incident # Incident
    BY <1>2, <1>3 DEF IInv, HookSound, Linked, HasTask
  <2>2. hook.pc \in {"read", "replace"} =>
           tasks'[<<hook.incident, incidents[hook.incident].task>>]
             = tasks[<<hook.incident, incidents[hook.incident].task>>]
    BY <2>1, <1>5 DEF IInv, HookSound, Linked, HasTask, TypeOK, IncidentDocs
  <2>3. QED
    BY <1>6, <2>2 DEF IInv, HookSound, Finished, Linked, HasTask, TaskState, TaskOf
<1>12. WorkerSound'
  BY <1>2, <1>3, <1>6, <1>8
  DEF WorkerSound, ItemSound, ResumeSound, LinkSound, ReplaceSound, HoldSound, ConcludeSound, At,
      Delivering, Collecting, Concluding, Incident, Current
<1>13. TypeOK'
  BY <1>5, <1>6, <1>7, <1>8 DEF TypeOK, bounds
<1>14. QED
  BY <1>10, <1>11, <1>12, <1>13 DEF IInv

-----------------------------------------------------------------------------
(* _advance_investigation_task.                                            *)

(* What the worker holds when it works on a task.                          *)
LEMMA HoldFacts ==
    ASSUME IInv, worker.pc \in {"advance"} \cup Delivering \cup Collecting
    PROVE  /\ ~ At("idle") /\ ~ At("handle")
           /\ HasTask(worker.doc) /\ worker.doc.task = Current.task
           /\ Held \in Docs
           /\ worker.pc \in Delivering => Held.state = "DISPATCHED"
           /\ worker.pc \in Collecting => Held.state \in {"RUNNING", "COMPLETED"}
<1>1. ~ At("idle") /\ ~ At("handle")
  BY DEF Delivering, Collecting, At
<1>2. Incident \in Incidents /\ worker.doc \in IncidentDocs
  BY <1>1, WorkerFacts
<1>3. HoldSound
  BY DEF IInv, WorkerSound
<1>4. QED
  BY <1>1, <1>2, <1>3 DEF HoldSound, Held, TaskOf, HasTask, IncidentDocs, IInv, TypeOK

LEMMA ReturnFree == Return \in Free
  BY DEF Return, Free

LEMMA MarkUncertainKeeps ==
    ASSUME IInv, MarkUncertain
    PROVE  IInv'
<1>1. worker.pc = "advance" /\ Held.state = "DISPATCHED"
  BY DEF MarkUncertain, At
<1>2. QED
  BY <1>1, HoldFacts, WriteFacts, ReturnFree, TaskMoveKeeps DEF MarkUncertain, Free, Terminal

LEMMA AdvanceNothingKeeps ==
    ASSUME IInv, AdvanceNothing
    PROVE  IInv'
<1>1. ~ At("idle") /\ ~ At("handle")
  BY DEF AdvanceNothing, At
<1>2. QED
  BY <1>1, ReturnFree, GotoKeeps DEF AdvanceNothing

LEMMA MarkDispatchedKeeps ==
    ASSUME IInv, MarkDispatched
    PROVE  IInv'
<1>1. worker.pc = "advance" /\ Held.state \in {"PENDING", "RETRYING"}
  BY DEF MarkDispatched, At
<1>2. DispatchWrite(Held) \in Writes /\ DispatchWrite(Held).to \in {"DISPATCHED", "FAILED"}
  BY <1>1, HoldFacts, WriteFacts
<1>3. CASE DispatchWrite(Held).to = "FAILED"
  BY <1>1, <1>2, <1>3, HoldFacts, ReturnFree, TaskMoveKeeps DEF MarkDispatched, Terminal, Free
<1>4. CASE DispatchWrite(Held).to = "DISPATCHED"
  BY <1>1, <1>2, <1>4, HoldFacts, TaskMoveKeeps DEF MarkDispatched, Terminal
<1>5. QED
  BY <1>2, <1>3, <1>4

LEMMA DispatchAnsweredKeeps ==
    ASSUME IInv, DispatchAnswered
    PROVE  IInv'
<1>1. worker.pc \in Delivering /\ worker.pc = "dispatch"
  BY DEF DispatchAnswered, At, Delivering
<1>2. PICK pc \in {"agreed", "undelivered"} : Goto(pc)
  BY DEF DispatchAnswered
<1>3. pc \in WorkerSteps /\ TypeOK
  BY DEF WorkerSteps, IInv
<1>4. /\ worker' \in Workers /\ worker'.pc = pc /\ worker'.item = worker.item
      /\ worker'.incident = worker.incident /\ worker'.doc = worker.doc
  BY <1>2, <1>3, GotoFacts
<1>5. Held' = Held /\ Current' = Current
  BY <1>4 DEF Held, TaskOf, Current, Incident, DispatchAnswered, durable
<1>6. HoldSound'
  BY <1>1, <1>4, <1>5, HoldFacts DEF HoldSound, Delivering, Collecting, HasTask
<1>7. WorkerSound'
  BY <1>1, <1>4, <1>6, HoldFacts, WorkerFacts
  DEF WorkerSound, ItemSound, ResumeSound, LinkSound, ReplaceSound, ConcludeSound, At,
      Concluding, Incident
<1>8. work' \in SUBSET Items /\ faults' \in 0 .. MaxFaults
      /\ UNCHANGED <<up, arrivals, crashes, hookCalls>>
  BY DEF IInv, TypeOK, bounds, DispatchAnswered
<1>9. QED
  BY <1>4, <1>7, <1>8, WorkerStays DEF durable, DispatchAnswered

LEMMA MarkUndeliveredKeeps ==
    ASSUME IInv, MarkUndelivered
    PROVE  IInv'
<1>1. worker.pc \in Delivering /\ worker.pc = "undelivered"
  BY DEF MarkUndelivered, At, Delivering
<1>2. QED
  BY <1>1, HoldFacts, WriteFacts, ReturnFree, TaskMoveKeeps DEF MarkUndelivered, Free, Terminal

LEMMA MarkRunningKeeps ==
    ASSUME IInv, MarkRunning
    PROVE  IInv'
<1>1. worker.pc \in Delivering /\ worker.pc = "agreed"
  BY DEF MarkRunning, At, Delivering
<1>2. RunningWrite \in Writes
  BY <1>1, HoldFacts, WriteFacts
<1>3. QED
  BY <1>1, <1>2, HoldFacts, TaskMoveKeeps DEF MarkRunning, Terminal

-----------------------------------------------------------------------------
(* Updates of the incident.                                                *)

(* An update that only moves an incident to analysis, or nowhere.          *)
LEMMA AnalysisSound ==
    ASSUME IInv, ~ At("idle"), ~ At("handle"), Linked(Incident)
    PROVE  LET doc == [Current EXCEPT !.status = "UNDER_ANALYSIS"] IN
             doc \in IncidentDocs /\ DocSound(Incident, doc) /\ doc.task = Current.task
<1>1. Current \in IncidentDocs /\ DocSound(Incident, Current) /\ Current.task # None
  BY WorkerFacts DEF Linked, HasTask
<1>2. QED
  BY <1>1 DEF DocSound, Concluded, Early, IncidentDocs, Statuses

(* An update that resolves the incident as its task ended.                 *)
LEMMA ResolvedSound ==
    ASSUME IInv, ~ At("idle"), ~ At("handle"), Linked(Incident),
           NEW c \in Conclusions \ {"none"},
           TaskState(Incident) = IF c = "failed" THEN "FAILED" ELSE "COMPLETED"
    PROVE  /\ Resolved(c) \in IncidentDocs /\ DocSound(Incident, Resolved(c))
           /\ Resolved(c).task = Current.task
<1>1. Current \in IncidentDocs /\ DocSound(Incident, Current) /\ Current.task # None
      /\ Current = incidents[Incident]
  BY WorkerFacts DEF Linked, HasTask
<1>2. Resolved(c) \in IncidentDocs
  BY WorkerFacts, CurrentFacts DEF IInv
<1>3. /\ Resolved(c).status = "RESOLVED" /\ Resolved(c).conclusion = c
      /\ Resolved(c).task = Current.task /\ Resolved(c).role = Current.role
      /\ Resolved(c).detector = Current.detector
  BY <1>1 DEF Resolved, IncidentDocs
<1>4. QED
  BY <1>1, <1>2, <1>3 DEF DocSound, Concluded, Early, TaskState, TaskOf

(* What the worker knows when it concludes an investigation.               *)
LEMMA ConcludeFacts ==
    ASSUME IInv, worker.pc \in Concluding
    PROVE  ~ At("idle") /\ ~ At("handle") /\ Finished(Incident) /\ Linked(Incident)
  BY DEF IInv, WorkerSound, ConcludeSound, Concluding, At, Finished

LEMMA MarkUnderAnalysisKeeps ==
    ASSUME IInv, MarkUnderAnalysis
    PROVE  IInv'
<1>1. worker.pc = "accepted" /\ ~ At("idle") /\ ~ At("handle")
  BY DEF MarkUnderAnalysis, At
<1>2. Linked(Incident)
  BY <1>1 DEF IInv, WorkerSound, ConcludeSound, At
<1>3. QED
  BY <1>1, <1>2, AnalysisSound, BeginKeeps, ReturnFree DEF MarkUnderAnalysis, Return

LEMMA PersistTaskFailureKeeps ==
    ASSUME IInv, PersistTaskFailure
    PROVE  IInv'
<1>1. ~ At("idle") /\ ~ At("handle") /\ Linked(Incident) /\ TaskState(Incident) = "FAILED"
  BY DEF PersistTaskFailure, Waiting, At
<1>2. "failed" \in Conclusions \ {"none"}
  BY DEF Conclusions
<1>3. QED
  BY <1>1, <1>2, ResolvedSound, BeginKeeps DEF PersistTaskFailure

LEMMA PersistResultKeeps ==
    ASSUME IInv, PersistResult
    PROVE  IInv'
<1>1. worker.pc \in Concluding
  BY DEF PersistResult, At, Concluding
<1>2. QED
  BY <1>1, ConcludeFacts, AnalysisSound, BeginKeeps DEF PersistResult

LEMMA PersistReviewKeeps ==
    ASSUME IInv, PersistReview
    PROVE  IInv'
<1>1. worker.pc \in Concluding /\ "reviewed" \in Conclusions \ {"none"}
  BY DEF PersistReview, At, Concluding, Conclusions
<1>2. QED
  BY <1>1, ConcludeFacts, ResolvedSound, BeginKeeps DEF PersistReview, Finished

LEMMA PersistFallbackKeeps ==
    ASSUME IInv, PersistFallback
    PROVE  IInv'
<1>1. worker.pc \in Concluding /\ "fallback" \in Conclusions \ {"none"}
  BY DEF PersistFallback, At, Concluding, Conclusions
<1>2. QED
  BY <1>1, ConcludeFacts, ResolvedSound, BeginKeeps DEF PersistFallback, Finished

LEMMA NoteFailureKeeps ==
    ASSUME IInv, NoteFailure
    PROVE  IInv'
<1>1. ~ At("idle") /\ ~ At("handle")
  BY DEF NoteFailure, At
<1>2. QED
  BY <1>1, WorkerFacts, BeginKeeps DEF NoteFailure

-----------------------------------------------------------------------------
(* wait_until_workflow_terminal.                                           *)

LEMMA LinkAnomalyKeeps ==
    ASSUME IInv, LinkAnomaly
    PROVE  IInv'
<1>1. ~ At("idle") /\ ~ At("handle")
  BY DEF LinkAnomaly, At
<1>2. worker.item \in Items /\ Incident \in Incidents /\ worker \in Workers
  BY <1>1, WorkerFacts DEF IInv, TypeOK
<1>3. /\ worker' \in Workers /\ worker'.pc = "loop" /\ worker'.item \in Items
      /\ worker'.incident = worker.incident
  BY <1>2 DEF LinkAnomaly, Workers, WorkerSteps, Items, Incident
<1>4. WorkerSound'
  BY <1>2, <1>3
  DEF WorkerSound, ItemSound, ResumeSound, LinkSound, ReplaceSound, HoldSound, ConcludeSound,
      At, Delivering, Collecting, Concluding, Incident
<1>5. work' \in SUBSET Items /\ faults' \in 0 .. MaxFaults
      /\ UNCHANGED <<up, arrivals, crashes, hookCalls>>
  BY DEF IInv, TypeOK, bounds, LinkAnomaly
<1>6. QED
  BY <1>3, <1>4, <1>5, WorkerStays DEF durable, LinkAnomaly

(* A worker that has become idle relies on nothing.                        *)
LEMMA IdleSound ==
    ASSUME worker' = IdleWorker
    PROVE  worker' \in Workers /\ WorkerSound'
  BY IdleFacts
  DEF WorkerSound, ItemSound, ResumeSound, LinkSound, ReplaceSound, HoldSound, ConcludeSound,
      At, Delivering, Collecting, Concluding

LEMMA ReleaseKeeps ==
    ASSUME IInv, Release
    PROVE  IInv'
<1>1. work' \in SUBSET Items /\ faults' \in 0 .. MaxFaults
      /\ UNCHANGED <<up, arrivals, crashes, hookCalls>>
  BY DEF IInv, TypeOK, bounds, Release
<1>2. QED
  BY <1>1, IdleSound, WorkerStays DEF durable, Release

(* A step of the loop reads the incident and starts on its task.           *)
LEMMA LoopKeeps ==
    ASSUME IInv, At("loop"), Linked(Incident),
           NEW pc \in {"advance"} \cup Collecting,
           pc \in Collecting => TaskState(Incident) = "RUNNING",
           worker' = [worker EXCEPT !.pc = pc, !.doc = Current],
           UNCHANGED <<durable, work, hook, up, bounds>>
    PROVE  IInv'
<1>1. ~ At("idle") /\ ~ At("handle") /\ pc \in WorkerSteps
  BY DEF At, Collecting, WorkerSteps
<1>2. worker.item \in Items /\ Incident \in Incidents /\ worker \in Workers
      /\ Current \in IncidentDocs /\ Current = incidents[Incident]
  BY <1>1, WorkerFacts DEF IInv, TypeOK
<1>3. /\ worker' \in Workers /\ worker'.pc = pc /\ worker'.item = worker.item
      /\ worker'.incident = worker.incident /\ worker'.doc = Current
  BY <1>1, <1>2 DEF Workers
<1>4. Incident' = Incident /\ Current' = Current /\ HasTask(Current)
      /\ Held'.state = TaskState(Incident)
  BY <1>2, <1>3 DEF Incident, Current, Held, TaskOf, TaskState, Linked, HasTask, durable
<1>5. HoldSound'
  BY <1>1, <1>3, <1>4 DEF HoldSound, Delivering, Collecting, HasTask
<1>6. WorkerSound'
  BY <1>2, <1>3, <1>4, <1>5
  DEF WorkerSound, ItemSound, ResumeSound, LinkSound, ReplaceSound, ConcludeSound,
      At, Collecting, Concluding
<1>7. work' \in SUBSET Items /\ faults' \in 0 .. MaxFaults
      /\ UNCHANGED <<up, arrivals, crashes, hookCalls>>
  BY DEF IInv, TypeOK, bounds
<1>8. QED
  BY <1>3, <1>6, <1>7, WorkerStays DEF durable

LEMMA LoopAdvanceKeeps ==
    ASSUME IInv, LoopAdvance
    PROVE  IInv'
  BY LoopKeeps DEF LoopAdvance, Waiting, Collecting

LEMMA CollectResultKeeps ==
    ASSUME IInv, CollectResult
    PROVE  IInv'
  BY LoopKeeps DEF CollectResult, Waiting, Collecting

LEMMA MarkCompletedKeeps ==
    ASSUME IInv, MarkCompleted
    PROVE  IInv'
<1>1. worker.pc \in Collecting /\ Held.state = "RUNNING"
  BY DEF MarkCompleted, At, Collecting
<1>2. QED
  BY <1>1, HoldFacts, WriteFacts, TaskMoveKeeps DEF MarkCompleted, Terminal

LEMMA MarkFailedKeeps ==
    ASSUME IInv, MarkFailed
    PROVE  IInv'
<1>1. worker.pc \in Collecting
  BY DEF MarkFailed, Failing, At, Collecting
<1>2. CASE Held.state \in Terminal
  BY <1>1, <1>2, HoldFacts, GotoKeeps DEF MarkFailed, Free, durable
<1>3. CASE Held.state \notin Terminal
  <2>1. At("failRetryable") \in BOOLEAN
    BY DEF At
  <2>2. FailureWrite(Held, At("failRetryable")) \in Writes
    BY <1>1, <2>1, HoldFacts, WriteFacts
  <2>3. QED
    BY <1>1, <1>3, <2>2, HoldFacts, TaskMoveKeeps DEF MarkFailed, Free
<1>4. QED
  BY <1>2, <1>3

(* A review that failed, or an exception in it, leads to the fallback.      *)
LEMMA FallbackKeeps ==
    ASSUME IInv, ~ At("idle"), ~ At("handle"), Finished(Incident), Goto("fallback"),
           UNCHANGED <<durable, work, hook, up, arrivals, crashes, hookCalls>>,
           faults' \in 0 .. MaxFaults
    PROVE  IInv'
<1>1. "fallback" \in WorkerSteps /\ TypeOK
  BY DEF WorkerSteps, IInv
<1>2. /\ worker' \in Workers /\ worker'.pc = "fallback" /\ worker'.item = worker.item
      /\ worker'.incident = worker.incident
  BY <1>1, GotoFacts
<1>3. Finished(Incident)'
  BY <1>2 DEF Finished, Linked, HasTask, TaskState, TaskOf, Incident, durable
<1>4. WorkerSound'
  BY <1>2, <1>3, WorkerFacts
  DEF WorkerSound, ItemSound, ResumeSound, LinkSound, ReplaceSound, HoldSound, ConcludeSound,
      At, Delivering, Collecting, Incident
<1>5. work' \in SUBSET Items
  BY DEF IInv, TypeOK
<1>6. QED
  BY <1>2, <1>4, <1>5, WorkerStays DEF durable

LEMMA ReviewFailsKeeps ==
    ASSUME IInv, ReviewFails
    PROVE  IInv'
<1>1. worker.pc \in Concluding
  BY DEF ReviewFails, At, Concluding
<1>2. faults' \in 0 .. MaxFaults /\ UNCHANGED <<arrivals, crashes, hookCalls>>
  BY DEF IInv, TypeOK, bounds, ReviewFails
<1>3. QED
  BY <1>1, <1>2, ConcludeFacts, FallbackKeeps DEF ReviewFails

LEMMA ReviewRecordedKeeps ==
    ASSUME IInv, ReviewRecorded
    PROVE  IInv'
  BY GotoKeeps DEF ReviewRecorded, At, Free

-----------------------------------------------------------------------------
(* The work item, and the exceptions.                                      *)

LEMMA ParkedFacts == \A item \in Items : Parked(item) \in Items /\ Unparked(item) \in Items
  BY DEF Parked, Unparked, Items

(* An item that fails leaves the worker idle.                              *)
LEMMA FailItemKeeps ==
    ASSUME IInv, ~ At("idle"), FailItem,
           UNCHANGED <<durable, hook, up, arrivals, crashes, hookCalls>>,
           faults' \in 0 .. MaxFaults
    PROVE  IInv'
<1>1. work' \in SUBSET Items
  BY ParkedFacts DEF FailItem, IInv, WorkerSound, ItemSound, TypeOK
<1>2. QED
  BY <1>1, IdleSound, WorkerStays DEF FailItem, durable

LEMMA LosesRaceKeeps ==
    ASSUME IInv, LosesRace
    PROVE  IInv'
<1>1. ~ At("idle")
  BY DEF LosesRace, Failing, At
<1>2. faults' \in 0 .. MaxFaults /\ UNCHANGED <<up, arrivals, crashes, hookCalls>>
  BY DEF LosesRace, IInv, TypeOK, bounds
<1>3. QED
  BY <1>1, <1>2, FailItemKeeps DEF LosesRace

LEMMA WorkerRaisesKeeps ==
    ASSUME IInv, WorkerRaises
    PROVE  IInv'
<1>1. ~ At("idle") /\ faults' \in 0 .. MaxFaults
  BY DEF WorkerRaises, IInv, TypeOK
<1>2. CASE InReview
  <2>1. ~ At("handle") /\ Finished(Incident)
    BY <1>2 DEF InReview, At, IInv, WorkerSound, ReplaceSound, ConcludeSound, Concluding
  <2>2. QED
    BY <1>1, <1>2, <2>1, FallbackKeeps DEF WorkerRaises
<1>3. CASE ~ InReview
  BY <1>1, <1>3, FailItemKeeps DEF WorkerRaises
<1>4. QED
  BY <1>2, <1>3

(* A step that only changes the work that waits.                           *)
LEMMA WorkArrives ==
    ASSUME IInv, work' \in SUBSET Items, arrivals' \in 0 .. MaxArrivals,
           UNCHANGED <<durable, worker, hook, up, faults, crashes, hookCalls>>
    PROVE  IInv'
<1>1. TypeOK'
  BY DEF IInv, TypeOK, durable
<1>2. WorkerSound'
  BY DEF IInv, WorkerSound, ItemSound, ResumeSound, LinkSound, ReplaceSound, HoldSound,
         ConcludeSound, At, Incident, Current, Held, DocSound, Concluded, Finished, Linked,
         TaskState, TaskOf, durable
<1>3. QED
  BY <1>1, <1>2, QuietStep DEF IInv

LEMMA ArriveKeeps ==
    ASSUME IInv, NEW d \in Detectors, Arrive(d)
    PROVE  IInv'
<1>1. Fresh(d) \in Items
  BY DEF Fresh, Items
<1>2. work' \in SUBSET Items
  BY <1>1 DEF IInv, TypeOK, Arrive
<1>3. QED
  BY <1>2, WorkArrives DEF IInv, TypeOK, Arrive

LEMMA OfferAgainKeeps ==
    ASSUME IInv, NEW item \in work, OfferAgain(item)
    PROVE  IInv'
<1>1. work' \in SUBSET Items
  BY ParkedFacts DEF IInv, TypeOK, OfferAgain
<1>2. QED
  BY <1>1, WorkArrives DEF IInv, TypeOK, OfferAgain, bounds

LEMMA TakeKeeps ==
    ASSUME IInv, NEW item \in work, Take(item)
    PROVE  IInv'
<1>1. item \in Items /\ work' \in SUBSET Items /\ TypeOK
  BY DEF IInv, TypeOK, Take
<1>2. item.recovery \in BOOLEAN /\ (item.recovery => item.incident \in Incidents)
  BY <1>1 DEF Items
<1>3. item.recovery => incidents[item.incident] \in IncidentDocs
  BY <1>1, <1>2 DEF TypeOK
<1>4. /\ worker' \in Workers /\ worker'.item = item
      /\ worker'.pc = IF item.recovery THEN "resume" ELSE "handle"
      /\ item.recovery => /\ worker'.incident = item.incident
                          /\ worker'.doc = incidents[item.incident]
  BY <1>1, <1>2, <1>3, IdleFacts, NoDocFacts DEF Take, Workers, WorkerSteps, IdleWorker
<1>5. item.recovery => Current' = worker'.doc
  BY <1>4 DEF Current, Incident, Take, durable
<1>6. WorkerSound'
  BY <1>1, <1>2, <1>4, <1>5
  DEF WorkerSound, ItemSound, ResumeSound, LinkSound, ReplaceSound, HoldSound, ConcludeSound,
      At, Delivering, Collecting, Concluding, Incident
<1>7. faults' \in 0 .. MaxFaults /\ UNCHANGED <<up, arrivals, crashes, hookCalls>>
  BY DEF Take, IInv, TypeOK, bounds
<1>8. QED
  BY <1>1, <1>4, <1>6, <1>7, WorkerStays DEF Take, durable

LEMMA CorrelateKeeps ==
    ASSUME IInv, NEW i \in Incidents, Correlate(i)
    PROVE  IInv'
<1>1. TypeOK /\ At("handle") /\ worker.item \in Items /\ DocSound(i, incidents[i])
      /\ incidents[i] \in IncidentDocs
  BY DEF Correlate, At, IInv, WorkerSound, ItemSound, IncidentsSound, TypeOK
<1>2. /\ worker' \in Workers /\ worker'.pc = "replace" /\ worker'.item = worker.item
      /\ worker'.incident = i /\ worker'.doc = incidents[i] /\ worker'.next = "resume"
  BY <1>1 DEF Correlate, TypeOK, Workers, WorkerSteps
<1>3. Incident' = i /\ Current' = incidents[i] /\ DocSound(i, incidents[i])'
  BY <1>1, <1>2 DEF Incident, Current, DocSound, Concluded, TaskOf, Correlate, durable
<1>4. WorkerSound'
  BY <1>1, <1>2, <1>3
  DEF WorkerSound, ItemSound, ResumeSound, LinkSound, ReplaceSound, HoldSound, ConcludeSound,
      At, Delivering, Collecting, Concluding, Correlate, durable
<1>5. work' \in SUBSET Items /\ faults' \in 0 .. MaxFaults
      /\ UNCHANGED <<up, arrivals, crashes, hookCalls>>
  BY <1>1 DEF Correlate, TypeOK, bounds
<1>6. QED
  BY <1>2, <1>4, <1>5, WorkerStays DEF Correlate, durable

LEMMA OpenIncidentKeeps ==
    ASSUME IInv, NEW i \in Incidents, OpenIncident(i)
    PROVE  IInv'
<1> DEFINE doc == [NoDoc EXCEPT !.status = "NEW", !.detector = worker.item.detector]
<1>1. TypeOK /\ At("handle") /\ worker.item \in Items /\ DocSound(i, incidents[i])
      /\ incidents[i].status = "ABSENT"
  BY DEF OpenIncident, At, IInv, WorkerSound, ItemSound, IncidentsSound
<1>2. /\ doc \in IncidentDocs /\ doc.status = "NEW" /\ doc.detector # None
      /\ doc.task = None
  BY <1>1 DEF NoDoc, IncidentDocs, Statuses, Conclusions, Items
<1>3. DocSound(i, doc) /\ ~ Linked(i)
  BY <1>1, <1>2 DEF DocSound, Early, Linked, HasTask
<1>4. /\ incidents' \in [Incidents -> IncidentDocs] /\ incidents'[i] = doc
      /\ IncidentsSound' /\ HookSound'
  BY <1>2, <1>3, ReplaceStep DEF OpenIncident
<1>5. /\ worker' \in Workers /\ worker'.pc = "resume" /\ worker'.item = worker.item
      /\ worker'.incident = i /\ worker'.doc = doc
  BY <1>1, <1>2 DEF OpenIncident, TypeOK, Workers, WorkerSteps
<1>6. Incident' = i /\ Current' = worker'.doc
  BY <1>4, <1>5 DEF Incident, Current
<1>7. WorkerSound'
  BY <1>1, <1>5, <1>6
  DEF WorkerSound, ItemSound, ResumeSound, LinkSound, ReplaceSound, HoldSound, ConcludeSound,
      At, Delivering, Collecting, Concluding
<1>8. TypeOK'
  BY <1>1, <1>4, <1>5 DEF OpenIncident, TypeOK, bounds
<1>9. QED
  BY <1>4, <1>7, <1>8 DEF IInv

LEMMA ReplaceKeeps ==
    ASSUME IInv, Replace
    PROVE  IInv'
<1>1. At("replace") /\ ~ At("idle") /\ ~ At("handle") /\ TypeOK
  BY DEF Replace, At, IInv
<1>2. /\ worker.item \in Items /\ Incident \in Incidents
      /\ worker.doc \in IncidentDocs /\ worker.next \in WorkerSteps
      /\ Current = incidents[Incident]
  BY <1>1, WorkerFacts
<1>3. /\ DocSound(Incident, worker.doc)
      /\ Linked(Incident) => worker.doc.task = Current.task
      /\ worker.next \in {"resume", "advance", "handled", "loop", "release", "review", "reviewed"}
      /\ worker.next = "advance" => HasTask(worker.doc)
      /\ worker.next \in {"review", "reviewed"} => Finished(Incident)
  BY <1>1 DEF IInv, WorkerSound, ReplaceSound
<1>4. /\ incidents' \in [Incidents -> IncidentDocs] /\ incidents'[Incident] = worker.doc
      /\ IncidentsSound' /\ HookSound'
      /\ Finished(Incident) => Finished(Incident)'
  <2>1. UNCHANGED <<tasks, hook>> /\ incidents' = [incidents EXCEPT ![Incident] = worker.doc]
    BY DEF Replace
  <2>2. Linked(Incident) => worker.doc.task = incidents[Incident].task
    BY <1>2, <1>3
  <2>3. /\ incidents' \in [Incidents -> IncidentDocs] /\ incidents'[Incident] = worker.doc
        /\ IncidentsSound' /\ HookSound'
    BY <1>2, <1>3, <2>1, <2>2, ReplaceStep
  <2>4. QED
    BY <1>2, <1>3, <2>1, <2>2, <2>3, GotoFacts, <1>1
    DEF Finished, Linked, HasTask, TaskState, TaskOf, Incident, Replace
<1>5. /\ worker' \in Workers /\ worker'.pc = worker.next /\ worker'.item = worker.item
      /\ worker'.incident = worker.incident /\ worker'.doc = worker.doc
  BY <1>1, <1>2, GotoFacts DEF Replace
<1>6. Incident' = Incident /\ Current' = worker.doc
  BY <1>4, <1>5 DEF Incident, Current
<1>7. WorkerSound'
  BY <1>2, <1>3, <1>4, <1>5, <1>6
  DEF WorkerSound, ItemSound, ResumeSound, LinkSound, ReplaceSound, HoldSound, ConcludeSound,
      At, Delivering, Collecting, Concluding, HasTask
<1>8. TypeOK'
  BY <1>1, <1>4, <1>5 DEF Replace, TypeOK, bounds
<1>9. QED
  BY <1>4, <1>7, <1>8 DEF IInv

-----------------------------------------------------------------------------
(* The completion hook.                                                    *)

(* What the worker relies on, as long as only the hook has moved.          *)
LEMMA HookQuiet ==
    ASSUME IInv, UNCHANGED <<durable, worker>>
    PROVE  IncidentsSound' /\ WorkerSound'
  BY DEF IInv, IncidentsSound, WorkerSound, ItemSound, ResumeSound, LinkSound, ReplaceSound,
         HoldSound, ConcludeSound, At, Incident, Current, Held, DocSound, Concluded, Finished,
         Linked, TaskState, TaskOf, durable

LEMMA HookCheckKeeps ==
    ASSUME IInv, NEW i \in Incidents, HookCheck(i)
    PROVE  IInv'
<1>1. /\ hook' \in Hooks /\ hook'.incident = i
      /\ hook'.pc = IF TaskState(i) = "RUNNING" THEN "complete" ELSE "read"
  BY IdleFacts, NoDocFacts DEF HookCheck, IdleHook, Hooks
<1>2. HookSound'
  BY <1>1 DEF HookSound, Finished, Linked, HasTask, TaskState, TaskOf, HookCheck, durable
<1>3. TypeOK'
  BY <1>1 DEF HookCheck, IInv, TypeOK, durable
<1>4. QED
  BY <1>2, <1>3, HookQuiet DEF IInv, HookCheck

LEMMA HookReadKeeps ==
    ASSUME IInv, HookRead
    PROVE  IInv'
<1> DEFINE i == hook.incident
<1> DEFINE doc == [incidents[i] EXCEPT !.status = "RESOLVED", !.conclusion = "accepted"]
<1>1. i \in Incidents /\ Linked(i) /\ Finished(i) /\ DocSound(i, incidents[i])
  BY DEF HookRead, IInv, HookSound, IncidentsSound
<1>2. incidents[i] \in IncidentDocs /\ incidents[i].detector # None
  BY <1>1 DEF IInv, TypeOK, DocSound, Linked, HasTask, Early
<1>3. /\ doc \in IncidentDocs /\ doc.role = incidents[i].role /\ doc.task = incidents[i].task
      /\ doc.detector # None /\ doc.status = "RESOLVED" /\ doc.conclusion = "accepted"
  BY <1>2 DEF IncidentDocs, Statuses, Conclusions
<1>4. /\ hook' \in Hooks /\ hook'.incident = i /\ hook'.pc = "replace" /\ hook'.doc = doc
  BY <1>3 DEF HookRead, Hooks, IInv, TypeOK
<1>5. HookSound'
  BY <1>1, <1>3, <1>4
  DEF HookSound, Finished, Linked, HasTask, TaskState, TaskOf, HookRead, durable
<1>6. TypeOK'
  BY <1>4 DEF HookRead, IInv, TypeOK, durable, bounds
<1>7. QED
  BY <1>5, <1>6, HookQuiet DEF IInv, HookRead

LEMMA HookEndsKeeps ==
    ASSUME IInv, HookEnds
    PROVE  IInv'
<1>1. HookSound' /\ hook' \in Hooks
  BY IdleFacts DEF HookSound, HookEnds
<1>2. TypeOK'
  BY <1>1 DEF HookEnds, IInv, TypeOK, durable, bounds
<1>3. QED
  BY <1>1, <1>2, HookQuiet DEF IInv, HookEnds

LEMMA HookReplaceKeeps ==
    ASSUME IInv, HookReplace
    PROVE  IInv'
<1> DEFINE i == hook.incident
<1>1. /\ i \in Incidents /\ Linked(i) /\ Finished(i) /\ DocSound(i, incidents[i])
      /\ hook.doc.role = incidents[i].role /\ hook.doc.task = incidents[i].task
      /\ hook.doc.detector # None
      /\ hook.doc.status = "RESOLVED" /\ hook.doc.conclusion = "accepted"
      /\ hook.doc \in IncidentDocs
  BY DEF HookReplace, IInv, HookSound, IncidentsSound, TypeOK, Hooks
<1>2. DocSound(i, hook.doc) /\ incidents[i].status \notin Early
  BY <1>1 DEF DocSound, Concluded, Early, Finished, Linked, HasTask, TaskState, TaskOf
<1>3. UNCHANGED <<tasks, work, worker, up, bounds>>
  BY DEF HookReplace
<1>4. /\ incidents' \in [Incidents -> IncidentDocs] /\ incidents'[i] = hook.doc
      /\ IncidentsSound' /\ \A j \in Incidents : Finished(j) => Finished(j)'
  BY <1>1, <1>2, ReplaceStep DEF HookReplace
<1>5. \A j \in Incidents : /\ incidents'[j].role = incidents[j].role
                           /\ incidents'[j].task = incidents[j].task
                           /\ (incidents'[j].status \in Early) <=> (incidents[j].status \in Early)
                           /\ incidents[j].status \in Early => incidents'[j] = incidents[j]
  BY <1>1, <1>2, <1>4 DEF HookReplace, IInv, TypeOK, Early
<1>6. HookSound' /\ hook' \in Hooks
  BY DEF HookReplace, HookGoto, HookSound, IInv, TypeOK, Hooks
<1>7. ItemSound' /\ (Incident \in Incidents => /\ Current'.role = Current.role
                                              /\ Current'.task = Current.task)
  BY <1>3, <1>5 DEF IInv, WorkerSound, ItemSound, At, Incident, Current
<1>8. ResumeSound' /\ LinkSound'
  BY <1>3, <1>5
  DEF IInv, WorkerSound, ItemSound, ResumeSound, LinkSound, At, Incident, Current
<1>9. ReplaceSound'
  BY <1>3, <1>4, <1>5
  DEF IInv, WorkerSound, ItemSound, ReplaceSound, At, Incident, Current, DocSound, Concluded,
      Linked, HasTask, TaskOf
<1>10. HoldSound' /\ ConcludeSound'
  BY <1>3, <1>4, <1>5
  DEF IInv, WorkerSound, ItemSound, HoldSound, ConcludeSound, At, Incident, Current, Held,
      Linked, HasTask, TaskOf, Delivering, Collecting, Concluding
<1>11. TypeOK'
  BY <1>3, <1>4, <1>6 DEF IInv, TypeOK, bounds
<1>12. QED
  BY <1>4, <1>6, <1>7, <1>8, <1>9, <1>10, <1>11 DEF IInv, WorkerSound

LEMMA HookCompleteKeeps ==
    ASSUME IInv, HookComplete
    PROVE  IInv'
<1> DEFINE t == <<hook.incident, incidents[hook.incident].task>>
<1>1. hook.pc = "complete" /\ hook.incident \in Incidents /\ Linked(hook.incident) /\ TypeOK
  BY DEF HookComplete, IInv, HookSound
<1>2. t \in Incidents \X Roles /\ tasks[t] \in Docs
  BY <1>1 DEF TypeOK, Linked, HasTask, IncidentDocs
<1>3. CASE tasks[t].state # "RUNNING"
  <2>1. hook' = IdleHook /\ UNCHANGED <<durable, worker, work, up, bounds>>
    BY <1>3 DEF HookComplete, durable
  <2>2. HookSound' /\ hook' \in Hooks
    BY <2>1, IdleFacts DEF HookSound
  <2>3. TypeOK'
    BY <1>1, <2>1, <2>2 DEF TypeOK, durable, bounds
  <2>4. QED
    BY <2>1, <2>2, <2>3, HookQuiet DEF IInv
<1>4. CASE tasks[t].state = "RUNNING"
  <2>1. /\ tasks' = [tasks EXCEPT ![t] = Written(tasks[t], CompleteWrite)]
        /\ HookGoto("read") /\ UNCHANGED <<incidents, work, worker, up, bounds>>
    BY <1>4 DEF HookComplete
  <2>2. Written(tasks[t], CompleteWrite) \in Docs
        /\ Written(tasks[t], CompleteWrite).state = "COMPLETED"
    BY <1>2, WrittenFacts, WriteFacts
  <2>3. /\ tasks' \in [Incidents \X Roles -> Docs] /\ tasks'[t].state = "COMPLETED"
        /\ \A u \in Incidents \X Roles : u # t => tasks'[u] = tasks[u]
    BY <1>1, <1>2, <2>1, <2>2 DEF TypeOK
  <2>4. \A u \in Incidents \X Roles :
          /\ (tasks'[u].state = "ABSENT") <=> (tasks[u].state = "ABSENT")
          /\ tasks[u].state \in {"COMPLETED", "FAILED", "DISPATCHED"} => tasks'[u] = tasks[u]
          /\ tasks[u].state = "RUNNING" => tasks'[u].state \in {"RUNNING", "COMPLETED"}
    BY <1>4, <2>3
  <2>5. \A i \in Incidents, d \in IncidentDocs : DocSound(i, d) => DocSound(i, d)'
    BY <2>4 DEF DocSound, Concluded, TaskOf, IncidentDocs
  <2>6. IncidentsSound'
    BY <1>1, <2>1, <2>5 DEF IInv, IncidentsSound, TypeOK
  <2>7. \A i \in Incidents : Finished(i) => Finished(i)'
    BY <1>1, <2>1, <2>4 DEF Finished, Linked, HasTask, TaskState, TaskOf, TypeOK, IncidentDocs
  <2>8. HookSound' /\ hook' \in Hooks
    BY <1>1, <2>1, <2>3
    DEF HookGoto, HookSound, Finished, Linked, HasTask, TaskState, TaskOf, TypeOK, Hooks
  <2>9. ItemSound' /\ ResumeSound' /\ LinkSound' /\ ConcludeSound'
    BY <2>1, <2>7
    DEF IInv, WorkerSound, ItemSound, ResumeSound, LinkSound, ConcludeSound, At, Incident,
        Current, Linked, HasTask, Concluding
  <2>10. ReplaceSound'
    <3>1. SUFFICES ASSUME At("replace") PROVE ReplaceSound'
      BY <2>1 DEF ReplaceSound, At
    <3>2. Incident \in Incidents /\ worker.doc \in IncidentDocs
      BY <3>1, WorkerFacts DEF At
    <3>3. QED
      BY <3>1, <3>2, <2>1, <2>5, <2>7
      DEF IInv, WorkerSound, ReplaceSound, At, Incident, Current, Linked, HasTask
  <2>11. HoldSound'
    <3>1. SUFFICES ASSUME worker.pc \in {"advance"} \cup Delivering \cup Collecting
                   PROVE  HoldSound'
      BY <2>1 DEF HoldSound
    <3>2. <<Incident, worker.doc.task>> \in Incidents \X Roles
      BY <3>1, HoldFacts, WorkerFacts DEF HasTask, IncidentDocs
    <3>3. QED
      BY <3>1, <3>2, <2>1, <2>4, HoldFacts
      DEF HoldSound, Held, TaskOf, Current, Incident, HasTask, Delivering, Collecting
  <2>12. TypeOK'
    BY <1>1, <2>1, <2>3, <2>8 DEF TypeOK, bounds
  <2>13. QED
    BY <2>6, <2>8, <2>9, <2>10, <2>11, <2>12 DEF IInv, WorkerSound
<1>5. QED
  BY <1>3, <1>4

-----------------------------------------------------------------------------
(* Crash and restart.                                                      *)

(* A backend that is down has neither worker nor hook.                     *)
DownIsIdle == ~ up => At("idle") /\ hook.pc = "idle"

LEMMA CrashKeeps ==
    ASSUME IInv, Crash
    PROVE  IInv'
<1>1. work' \in SUBSET Items
  BY DEF Crash, IInv, TypeOK, Workers
<1>2. worker' \in Workers /\ WorkerSound'
  BY IdleSound DEF Crash
<1>3. HookSound' /\ hook' \in Hooks
  BY IdleFacts DEF HookSound, Crash
<1>4. IncidentsSound'
  BY DEF IInv, IncidentsSound, DocSound, Concluded, TaskOf, Crash, durable
<1>5. TypeOK'
  <2>1. /\ up' = FALSE /\ crashes < MaxCrashes /\ crashes' = crashes + 1
        /\ UNCHANGED <<incidents, tasks, arrivals, faults, hookCalls>>
    BY DEF Crash, durable
  <2>2. crashes' \in 0 .. MaxCrashes
    BY <2>1 DEF IInv, TypeOK
  <2>3. QED
    BY <1>1, <1>2, <1>3, <2>1, <2>2 DEF IInv, TypeOK
<1>6. QED
  BY <1>2, <1>3, <1>4, <1>5 DEF IInv

(* recover_incomplete_tasks neither creates a task nor ends a COMPLETED one*)
LEMMA TasksRecoveredFacts ==
    ASSUME TypeOK, NEW listed \in Listed(Interrupted, RecoverLimit)
    PROVE  /\ TasksRecovered(listed) \in [Incidents \X Roles -> Docs]
           /\ \A t \in Incidents \X Roles :
                /\ tasks[t].state \notin InFlight => TasksRecovered(listed)[t] = tasks[t]
                /\ tasks[t].state \in InFlight =>
                     TasksRecovered(listed)[t].state \in InFlight \cup {"RETRYING", "FAILED"}
<1>1. SUFFICES ASSUME NEW t \in Incidents \X Roles
               PROVE  /\ TasksRecovered(listed)[t] \in Docs
                      /\ tasks[t].state \notin InFlight => TasksRecovered(listed)[t] = tasks[t]
                      /\ tasks[t].state \in InFlight =>
                           TasksRecovered(listed)[t].state \in InFlight \cup {"RETRYING", "FAILED"}
  BY DEF TasksRecovered, TypeOK
<1>2. tasks[t] \in Docs /\ FailureWrite(tasks[t], TRUE) \in Writes
      /\ FailureWrite(tasks[t], TRUE).to \in {"RETRYING", "FAILED"}
  BY WriteFacts DEF TypeOK
<1>3. Written(tasks[t], FailureWrite(tasks[t], TRUE)) \in Docs
      /\ Written(tasks[t], FailureWrite(tasks[t], TRUE)).state \in {"RETRYING", "FAILED"}
  BY <1>2, WrittenFacts
<1>4. TasksRecovered(listed)[t] = IF t \in listed
                                  THEN Written(tasks[t], FailureWrite(tasks[t], TRUE))
                                  ELSE tasks[t]
  BY DEF TasksRecovered, TypeOK
<1>5. t \in listed => tasks[t].state \in InFlight
  BY DEF Listed, Interrupted
<1>6. QED
  BY <1>2, <1>3, <1>4, <1>5

LEMMA RestartKeeps ==
    ASSUME IInv, DownIsIdle, Restart
    PROVE  IInv'
<1>1. TypeOK /\ At("idle") /\ hook.pc = "idle"
      /\ UNCHANGED <<incidents, worker, hook, bounds>>
  BY DEF IInv, DownIsIdle, Restart
<1>2. ASSUME NEW i \in Incidents, incidents[i].status \in Active
      PROVE  RecoveryOf(i) \in Items
  <2>1. incidents[i].detector \in Detectors
    BY <1>1, <1>2 DEF IInv, IncidentsSound, DocSound, TypeOK, IncidentDocs, Active
  <2>2. QED
    BY <2>1 DEF RecoveryOf, Items
<1>3. work' \in SUBSET Items
  <2>1. PICK anomalies \in Listed(work, ListLimit), known \in Listed(Unfinished, RecoverLimit) :
          work' = WorkRecovered(anomalies, known)
    BY DEF Restart
  <2>2. anomalies \subseteq Items /\ work \subseteq Items /\ known \subseteq Unfinished
    BY <1>1, <2>1 DEF Listed, TypeOK
  <2>3. \A i \in Unfinished : RecoveryOf(i) \in Items
    BY <1>2 DEF Unfinished
  <2>4. QED
    BY <2>1, <2>2, <2>3, ParkedFacts DEF WorkRecovered
<1>4. PICK listed \in Listed(Interrupted, RecoverLimit) : tasks' = TasksRecovered(listed)
  BY DEF Restart
<1>5. /\ tasks' \in [Incidents \X Roles -> Docs]
      /\ \A t \in Incidents \X Roles :
           /\ tasks'[t].state = "ABSENT" <=> tasks[t].state = "ABSENT"
           /\ tasks[t].state \in Terminal => tasks'[t] = tasks[t]
  BY <1>1, <1>4, TasksRecoveredFacts DEF InFlight, Terminal
<1>6. TypeOK'
  BY <1>1, <1>3, <1>5 DEF TypeOK, Restart, bounds
<1>7. IncidentsSound'
  <2>1. \A i \in Incidents, d \in IncidentDocs : DocSound(i, d) => DocSound(i, d)'
    BY <1>1, <1>5 DEF DocSound, Concluded, TaskOf, IncidentDocs, Terminal
  <2>2. QED
    BY <1>1, <2>1 DEF IInv, IncidentsSound, TypeOK
<1>8. WorkerSound' /\ HookSound'
  BY <1>1 DEF WorkerSound, ItemSound, ResumeSound, LinkSound, ReplaceSound, HoldSound,
              ConcludeSound, HookSound, At, Delivering, Collecting, Concluding
<1>9. QED
  BY <1>6, <1>7, <1>8 DEF IInv

-----------------------------------------------------------------------------
(* The theorems.                                                           *)

LEMMA InitKeeps == Init => IInv /\ DownIsIdle
<1> SUFFICES ASSUME Init PROVE IInv /\ DownIsIdle
  OBVIOUS
<1>1. TypeOK
  BY TaskDocs, NoDocFacts, IdleFacts DEF Init, TypeOK
<1>2. IncidentsSound
  BY TaskDocs, NoDocFacts DEF Init, IncidentsSound, DocSound, Early
<1>3. WorkerSound /\ HookSound /\ DownIsIdle
  BY IdleFacts
  DEF Init, WorkerSound, ItemSound, ResumeSound, LinkSound, ReplaceSound, HoldSound,
      ConcludeSound, HookSound, DownIsIdle, At, Delivering, Collecting, Concluding
<1>4. QED
  BY <1>1, <1>2, <1>3 DEF IInv

LEMMA WorkerStepKeeps ==
    ASSUME IInv, WorkerStep
    PROVE  IInv'
  BY ReplaceKeeps, TakeKeeps, CorrelateKeeps, OpenIncidentKeeps, TakeInChargeKeeps, TriageKeeps,
     CreateTaskKeeps, LinkTaskKeeps, ResumeTaskKeeps, ResumeNothingKeeps, MarkUncertainKeeps,
     AdvanceNothingKeeps, MarkDispatchedKeeps, DispatchAnsweredKeeps, MarkUndeliveredKeeps,
     MarkRunningKeeps, MarkUnderAnalysisKeeps, LinkAnomalyKeeps, ReleaseKeeps,
     PersistTaskFailureKeeps, LoopAdvanceKeeps, CollectResultKeeps, MarkCompletedKeeps,
     PersistResultKeeps, PersistReviewKeeps, ReviewFailsKeeps, ReviewRecordedKeeps,
     PersistFallbackKeeps, MarkFailedKeeps, NoteFailureKeeps, LosesRaceKeeps
  DEF WorkerStep

(* Whatever moves worker or hook runs in a backend that is up.             *)
LEMMA DownStays ==
    ASSUME DownIsIdle, [Next]_vars
    PROVE  DownIsIdle'
<1>1. CASE WorkerStep
  <2>1. up \/ ~ At("idle")
    BY <1>1
    DEF WorkerStep, Replace, Take, Correlate, OpenIncident, TakeInCharge, Triage, CreateTask,
        LinkTask, ResumeTask, ResumeNothing, Resuming, MarkUncertain, AdvanceNothing,
        MarkDispatched, DispatchAnswered, MarkUndelivered, MarkRunning, MarkUnderAnalysis,
        LinkAnomaly, Release, PersistTaskFailure, LoopAdvance, CollectResult, Waiting,
        MarkCompleted, PersistResult, PersistReview, ReviewFails, ReviewRecorded,
        PersistFallback, MarkFailed, NoteFailure, LosesRace, Failing, At
  <2>2. UNCHANGED up
    BY <1>1
    DEF WorkerStep, Replace, Take, Correlate, OpenIncident, TakeInCharge, Triage, CreateTask,
        LinkTask, ResumeTask, ResumeNothing, MarkUncertain, AdvanceNothing,
        MarkDispatched, DispatchAnswered, MarkUndelivered, MarkRunning, MarkUnderAnalysis,
        LinkAnomaly, Release, PersistTaskFailure, LoopAdvance, CollectResult,
        MarkCompleted, PersistResult, PersistReview, ReviewFails, ReviewRecorded,
        PersistFallback, MarkFailed, NoteFailure, LosesRace
  <2>3. QED
    BY <2>1, <2>2 DEF DownIsIdle
<1>2. CASE WorkerRaises
  BY <1>2 DEF DownIsIdle, WorkerRaises
<1>3. CASE HookStep
  BY <1>3 DEF DownIsIdle, HookStep, HookComplete, HookRead, HookReplace, HookEnds
<1>4. CASE Crash
  BY <1>4, IdleFacts DEF DownIsIdle, Crash, At
<1>5. CASE Restart
  BY <1>5 DEF DownIsIdle, Restart
<1>6. CASE (\E d \in Detectors : Arrive(d)) \/ (\E item \in work : OfferAgain(item))
  BY <1>6 DEF DownIsIdle, Arrive, OfferAgain, At
<1>7. CASE \E i \in Incidents : HookCheck(i)
  BY <1>7 DEF DownIsIdle, HookCheck
<1>8. CASE UNCHANGED vars
  BY <1>8 DEF DownIsIdle, At, vars
<1>9. QED
  BY <1>1, <1>2, <1>3, <1>4, <1>5, <1>6, <1>7, <1>8 DEF Next

LEMMA NextKeeps ==
    ASSUME IInv, DownIsIdle, [Next]_vars
    PROVE  IInv'
<1>1. CASE WorkerStep
  BY <1>1, WorkerStepKeeps
<1>2. CASE WorkerRaises
  BY <1>2, WorkerRaisesKeeps
<1>3. CASE HookStep
  BY <1>3, HookCompleteKeeps, HookReadKeeps, HookReplaceKeeps, HookEndsKeeps DEF HookStep
<1>4. CASE Crash
  BY <1>4, CrashKeeps
<1>5. CASE Restart
  BY <1>5, RestartKeeps
<1>6. CASE (\E d \in Detectors : Arrive(d)) \/ (\E item \in work : OfferAgain(item))
  BY <1>6, ArriveKeeps, OfferAgainKeeps
<1>7. CASE \E i \in Incidents : HookCheck(i)
  BY <1>7, HookCheckKeeps
<1>8. CASE UNCHANGED vars
  <2>1. TypeOK' /\ UNCHANGED <<durable, worker>>
    BY <1>8 DEF vars, durable, bounds, IInv, TypeOK
  <2>2. HookSound'
    BY <1>8 DEF vars, durable, IInv, HookSound, Finished, Linked, HasTask, TaskState, TaskOf
  <2>3. QED
    BY <2>1, <2>2, HookQuiet DEF IInv
<1>9. QED
  BY <1>1, <1>2, <1>3, <1>4, <1>5, <1>6, <1>7, <1>8 DEF Next

(* IInv is an invariant of the coordinator: what the worker and the hook   *)
(* hold at each await agrees with the collections, in every interleaving   *)
(* of the two with exceptions, crashes and restarts.                       *)
THEOREM Invariance == Spec => [](IInv /\ DownIsIdle)
<1>1. Init => IInv /\ DownIsIdle
  BY InitKeeps
<1>2. (IInv /\ DownIsIdle) /\ [Next]_vars => (IInv /\ DownIsIdle)'
  BY NextKeeps, DownStays
<1>3. QED
  BY <1>1, <1>2, PTL DEF Spec

(* Type correctness.                                                       *)
THEOREM TypeCorrect == Spec => []TypeOK
<1>1. IInv => TypeOK
  BY DEF IInv
<1>2. QED
  BY <1>1, Invariance, PTL

(* An incident has one task: the document of an incident knows the role of *)
(* every task it has, and triage (which chooses the role) does not run on  *)
(* an incident that has one, although it may run on a stale document.      *)
THEOREM OneTask == Spec => []OneTaskPerIncident
<1>1. IInv => OneTaskPerIncident
  BY DEF IInv, IncidentsSound, DocSound, OneTaskPerIncident
<1>2. QED
  BY <1>1, Invariance, PTL

(* A resolved incident is concluded as its task ended, whoever of the      *)
(* worker and the completion hook resolved it and however their updates of *)
(* the whole document interleave.                                          *)
THEOREM ConclusionsHold == Spec => []ConclusionMatchesTask
<1>1. IInv => ConclusionMatchesTask
  BY DEF IInv, IncidentsSound, DocSound, Concluded, ConclusionMatchesTask, Linked, HasTask,
         TaskState, TaskOf
<1>2. QED
  BY <1>1, Invariance, PTL

-----------------------------------------------------------------------------
(* Without the completion hook the worker is the only writer, and nothing  *)
(* changes under it: the copy it holds is the document, and what it has on *)
(* its way there moves the incident forward.                               *)
HookUnused == hook.pc = "idle"

PhaseOf(i, doc) ==
    IF doc.status = "ABSENT" THEN "ABSENT"
    ELSE IF doc.status = "RESOLVED" THEN "DONE"
    ELSE IF HasTask(doc) /\ TaskOf(i, doc).state = "COMPLETED" THEN "REVIEW" ELSE "ACTIVE"

(* Only a task that its incident names is ever dispatched.                 *)
TasksLinked ==
    \A i \in Incidents : \A r \in Roles :
      tasks[<<i, r>>].state \notin {"ABSENT", "PENDING"} => incidents[i].task = r

Busy == {"advance", "accepted", "completed"} \cup Delivering \cup Collecting

CopyCurrent ==
    /\ worker.pc \in {"resume", "link"} \cup Busy => worker.doc = Current
    /\ At("link") => Current.status = "TRIAGED" /\ ~ HasTask(Current)
    /\ worker.pc \in Busy => Current.status \in Active

Forward(from, to) == from = to \/ (to = "DONE" /\ from \in {"ACTIVE", "REVIEW"})

UpdateForward ==
    At("replace") =>
      /\ Forward(Phase(Incident), PhaseOf(Incident, worker.doc))
      /\ worker.next = "advance" => worker.doc.status \in Active

Solo == TasksLinked /\ CopyCurrent /\ UpdateForward

(* The steps of an incident in IncidentLifecycle.                          *)
Onward(from, to) ==
    Forward(from, to) \/ <<from, to>> \in {<<"ABSENT", "ACTIVE">>, <<"ACTIVE", "REVIEW">>}

LEMMA PhaseIs == \A i \in Incidents : Phase(i) = PhaseOf(i, incidents[i])
  BY DEF Phase, PhaseOf, Exists, Investigated, Linked, TaskState

(* The pcs at which the worker relies on nothing that Solo states.         *)
Watched == {"resume", "link", "replace"} \cup Busy

LEMMA Unwatched ==
    ASSUME TasksLinked', worker'.pc \notin Watched
    PROVE  Solo'
  BY DEF Solo, CopyCurrent, UpdateForward, At, Watched

LEMMA SameDocuments ==
    ASSUME UNCHANGED durable
    PROVE  /\ TasksLinked => TasksLinked'
           /\ \A i \in Incidents : Phase(i)' = Phase(i)
           /\ \A i \in Incidents : \A doc : PhaseOf(i, doc)' = PhaseOf(i, doc)
  BY DEF durable, TasksLinked, Phase, PhaseOf, Exists, Investigated, Linked, HasTask, TaskState,
         TaskOf

PhasesKept == \A i \in Incidents : Phase(i)' = Phase(i)

(* A step that writes nothing and leaves the worker where it is unwatched. *)
LEMMA RestSolo ==
    ASSUME Solo, UNCHANGED durable, worker'.pc \notin Watched
    PROVE  Solo' /\ PhasesKept
  BY SameDocuments, Unwatched DEF Solo, PhasesKept

(* A step that begins an update.                                           *)
LEMMA BeginSolo ==
    ASSUME IInv, Solo, ~ At("idle"), ~ At("handle"),
           NEW doc \in IncidentDocs, NEW next \in WorkerSteps,
           Forward(Phase(Incident), PhaseOf(Incident, doc)),
           next = "advance" => doc.status \in Active,
           BeginUpdate(doc, next), UNCHANGED durable
    PROVE  Solo' /\ PhasesKept
<1>1. /\ worker'.pc = "replace" /\ worker'.incident = worker.incident
      /\ worker'.doc = doc /\ worker'.next = next
  BY BeginFacts DEF IInv
<1>2. Incident \in Incidents /\ Incident' = Incident
  BY <1>1, WorkerFacts DEF Incident
<1>3. PhasesKept /\ TasksLinked' /\ PhaseOf(Incident, doc)' = PhaseOf(Incident, doc)
  BY <1>2, SameDocuments DEF Solo, PhasesKept
<1>4. Phase(Incident)' = Phase(Incident)
  BY <1>2, <1>3 DEF PhasesKept
<1>5. UpdateForward'
  BY <1>1, <1>2, <1>3, <1>4 DEF UpdateForward, PhaseOf, HasTask, TaskOf
<1>6. CopyCurrent'
  BY <1>1 DEF CopyCurrent, At, Busy, Delivering, Collecting
<1>7. QED
  BY <1>3, <1>5, <1>6 DEF Solo

(* An update that changes neither the task nor whether it is resolved.     *)
LEMMA PhaseStays ==
    ASSUME IInv, Incident \in Incidents, NEW doc,
           doc.task = Current.task, Current.status \in Active, doc.status \in Active
    PROVE  Forward(Phase(Incident), PhaseOf(Incident, doc))
  BY PhaseIs DEF PhaseOf, Forward, HasTask, TaskOf, Current, Active

(* An update that resolves a linked incident.                              *)
LEMMA PhaseEnds ==
    ASSUME IInv, ~ At("idle"), ~ At("handle"), Linked(Incident), NEW c \in Conclusions
    PROVE  /\ Resolved(c) \in IncidentDocs
           /\ Forward(Phase(Incident), PhaseOf(Incident, Resolved(c)))
<1>1. Incident \in Incidents /\ Current = incidents[Incident] /\ Current \in IncidentDocs
      /\ Current.status # "ABSENT" /\ Resolved(c) \in IncidentDocs
  BY WorkerFacts, CurrentFacts DEF IInv, DocSound, Linked, HasTask, Early
<1>2. Resolved(c).status = "RESOLVED"
  BY <1>1 DEF Resolved, IncidentDocs
<1>3. QED
  BY <1>1, <1>2, PhaseIs DEF PhaseOf, Forward

(* A step that moves the worker and keeps the copy it holds.               *)
LEMMA MoveSolo ==
    ASSUME IInv, Solo, worker.pc \in Busy, NEW pc \in Free \cup Busy, Goto(pc),
           UNCHANGED incidents, TasksLinked'
    PROVE  Solo'
<1>1. /\ worker'.pc = pc /\ worker'.incident = worker.incident /\ worker'.doc = worker.doc
  BY GotoFacts DEF IInv, Free, Busy, Delivering, Collecting, WorkerSteps
<1>2. Incident' = Incident /\ Current' = Current
  BY <1>1 DEF Incident, Current
<1>3. worker.doc = Current /\ Current.status \in Active
  BY DEF Solo, CopyCurrent
<1>4. CopyCurrent'
  BY <1>1, <1>2, <1>3 DEF CopyCurrent, At, Free, Busy, Delivering, Collecting
<1>5. UpdateForward'
  BY <1>1 DEF UpdateForward, At, Free, Busy, Delivering, Collecting
<1>6. QED
  BY <1>4, <1>5 DEF Solo

(* A step that moves the task the worker holds.                            *)
LEMMA TaskMoveSolo ==
    ASSUME IInv, Solo, worker.pc \in {"advance"} \cup Delivering \cup Collecting,
           Held.state \notin Terminal,
           NEW w \in Writes, WriteTask(worker.doc.task, w),
           NEW pc \in Free \cup Busy, Goto(pc), UNCHANGED incidents
    PROVE  /\ Solo'
           /\ \A i \in Incidents : Onward(Phase(i), Phase(i)')
           /\ \A i \in Incidents : i # Incident => Phase(i)' = Phase(i)
<1> DEFINE t == <<Incident, worker.doc.task>>
<1>1. /\ worker.pc \in Busy /\ worker.doc = Current /\ Current.status \in Active
      /\ HasTask(worker.doc) /\ Incident \in Incidents
      /\ Current = incidents[Incident] /\ Current \in IncidentDocs
  BY HoldFacts, WorkerFacts DEF Solo, CopyCurrent, Busy
<1>2. t \in Incidents \X Roles /\ Held = tasks[t] /\ tasks[t] \in Docs
  BY <1>1 DEF IInv, TypeOK, HasTask, IncidentDocs, Held, TaskOf
<1>3. /\ tasks'[t].state = w.to
      /\ \A u \in Incidents \X Roles : u # t => tasks'[u] = tasks[u]
  BY <1>2, WrittenFacts DEF WriteTask, IInv, TypeOK
<1>4. incidents[Incident].task = worker.doc.task
  BY <1>1
<1>5. TasksLinked'
  <2>1. SUFFICES ASSUME NEW i \in Incidents, NEW r \in Roles,
                        tasks'[<<i, r>>].state \notin {"ABSENT", "PENDING"}
                 PROVE  incidents'[i].task = r
    BY DEF TasksLinked
  <2>2. CASE <<i, r>> = t
    BY <2>2, <1>4
  <2>3. CASE <<i, r>> # t
    BY <2>1, <2>3, <1>3 DEF Solo, TasksLinked
  <2>4. QED
    BY <2>2, <2>3
<1>6. Solo'
  BY <1>1, <1>5, MoveSolo
<1>7. ASSUME NEW i \in Incidents, i # Incident PROVE Phase(i)' = Phase(i)
  <2>1. incidents[i] \in IncidentDocs /\ incidents'[i] = incidents[i]
    BY DEF IInv, TypeOK
  <2>2. HasTask(incidents[i]) =>
          tasks'[<<i, incidents[i].task>>] = tasks[<<i, incidents[i].task>>]
    BY <1>7, <1>3, <2>1 DEF HasTask, IncidentDocs
  <2>3. QED
    BY <2>1, <2>2 DEF Phase, Exists, Investigated, Linked, TaskState, TaskOf, HasTask
<1>8. Phase(Incident) = "ACTIVE"
  BY <1>1, <1>2, <1>4, PhaseIs DEF PhaseOf, TaskOf, Active, Terminal
<1>9. Phase(Incident)' \in {"ACTIVE", "REVIEW"}
  <2>1. incidents'[Incident].status \in Active
    BY <1>1
  <2>2. \A i \in Incidents : incidents'[i].status \in Active => Phase(i)' \in {"ACTIVE", "REVIEW"}
    BY DEF Phase, Exists, Active
  <2>3. (\A i \in Incidents : incidents'[i].status \in Active => Phase(i)' \in {"ACTIVE", "REVIEW"})
        => Phase(Incident)' \in {"ACTIVE", "REVIEW"}
    <3>1. Incident' = Incident
      BY GotoFacts DEF IInv, Free, Busy, Delivering, Collecting, WorkerSteps, Incident
    <3>2. QED
      BY <1>1, <2>1, <3>1
  <2>4. QED
    BY <2>2, <2>3
<1>10. ASSUME NEW i \in Incidents PROVE Onward(Phase(i), Phase(i)')
  <2>1. CASE i = Incident
    <3>1. Phase(i) = "ACTIVE" /\ Phase(i)' \in {"ACTIVE", "REVIEW"}
      <4>1. Incident' = Incident
        BY GotoFacts DEF IInv, Free, Busy, Delivering, Collecting, WorkerSteps, Incident
      <4>2. QED
        BY <1>8, <1>9, <2>1, <4>1
    <3>2. QED
      BY <3>1 DEF Onward, Forward
  <2>2. CASE i # Incident
    BY <2>2, <1>7 DEF Onward, Forward
  <2>3. QED
    BY <2>1, <2>2
<1>11. QED
  BY <1>6, <1>7, <1>10

(* What a step does to the phases: at most one incident moves, onward.     *)
OneMoves ==
    \/ PhasesKept
    \/ \E i \in Incidents :
         Onward(Phase(i), Phase(i)') /\ \A j \in Incidents \ {i} : Phase(j)' = Phase(j)

LEMMA TaskMoveMoves ==
    ASSUME IInv, Solo, worker.pc \in {"advance"} \cup Delivering \cup Collecting,
           Held.state \notin Terminal,
           NEW w \in Writes, WriteTask(worker.doc.task, w),
           NEW pc \in Free \cup Busy, Goto(pc), UNCHANGED incidents
    PROVE  Solo' /\ OneMoves
<1>1. Incident \in Incidents
  BY HoldFacts, WorkerFacts
<1>2. PICK j \in Incidents : j = Incident
  BY <1>1
<1>3. Onward(Phase(j), Phase(j)') /\ \A i \in Incidents \ {j} : Phase(i)' = Phase(i)
  BY <1>2, TaskMoveSolo
<1>4. QED
  BY <1>3, TaskMoveSolo DEF OneMoves

(* The steps that move a task.                                             *)
LEMMA TaskStepsSolo ==
    ASSUME IInv, Solo,
           MarkUncertain \/ MarkDispatched \/ MarkUndelivered \/ MarkRunning \/ MarkCompleted
    PROVE  Solo' /\ OneMoves
<1> USE DEF At
<1>1. CASE MarkUncertain
  BY <1>1, HoldFacts, WriteFacts, ReturnFree, TaskMoveMoves DEF MarkUncertain, Terminal
<1>2. CASE MarkDispatched
  <2>1. worker.pc = "advance" /\ DispatchWrite(Held) \in Writes /\ "dispatch" \in Busy
    BY <1>2, HoldFacts, WriteFacts DEF MarkDispatched, Busy, Delivering
  <2>2. PICK pc \in Free \cup Busy : Goto(pc)
    BY <1>2, <2>1, ReturnFree DEF MarkDispatched
  <2>3. QED
    BY <1>2, <2>1, <2>2, TaskMoveMoves DEF MarkDispatched, Terminal
<1>3. CASE MarkUndelivered
  <2>1. worker.pc \in Delivering
    BY <1>3 DEF MarkUndelivered, Delivering
  <2>2. QED
    BY <1>3, <2>1, HoldFacts, WriteFacts, ReturnFree, TaskMoveMoves DEF MarkUndelivered, Terminal
<1>4. CASE MarkRunning
  <2>1. worker.pc \in Delivering /\ "accepted" \in Busy
    BY <1>4 DEF MarkRunning, Delivering, Busy
  <2>2. QED
    BY <1>4, <2>1, HoldFacts, WriteFacts, TaskMoveMoves DEF MarkRunning, Terminal
<1>5. CASE MarkCompleted
  <2>1. worker.pc \in Collecting /\ "completed" \in Busy
    BY <1>5 DEF MarkCompleted, Collecting, Busy
  <2>2. QED
    BY <1>5, <2>1, HoldFacts, WriteFacts, TaskMoveMoves DEF MarkCompleted, Terminal
<1>6. QED
  BY <1>1, <1>2, <1>3, <1>4, <1>5

LEMMA MarkFailedSolo ==
    ASSUME IInv, Solo, MarkFailed
    PROVE  Solo' /\ OneMoves
<1>1. worker.pc \in Collecting /\ "marked" \in Free
  BY DEF MarkFailed, Failing, At, Collecting, Free
<1>2. CASE Held.state \in Terminal
  <2>1. UNCHANGED durable /\ worker'.pc = "marked"
    BY <1>2, GotoFacts DEF MarkFailed, durable, IInv, WorkerSteps
  <2>2. QED
    BY <2>1, RestSolo DEF Watched, Busy, Delivering, Collecting, OneMoves
<1>3. CASE Held.state \notin Terminal
  <2>1. At("failRetryable") \in BOOLEAN
    BY DEF At
  <2>2. FailureWrite(Held, At("failRetryable")) \in Writes
    BY <1>1, <2>1, HoldFacts, WriteFacts
  <2>3. QED
    BY <1>1, <1>3, <2>2, TaskMoveMoves DEF MarkFailed
<1>4. QED
  BY <1>2, <1>3

(* The steps that begin an update of an active incident.                   *)
LEMMA AnalysisStepsSolo ==
    ASSUME IInv, Solo, TakeInCharge \/ MarkUnderAnalysis \/ PersistResult \/ NoteFailure
    PROVE  Solo' /\ PhasesKept
<1> USE DEF At
<1>1. ~ At("idle") /\ ~ At("handle")
  BY DEF TakeInCharge, Resuming, MarkUnderAnalysis, PersistResult, NoteFailure
<1>2. /\ Current \in IncidentDocs /\ Current = incidents[Incident] /\ Incident \in Incidents
      /\ "resume" \in WorkerSteps /\ "review" \in WorkerSteps /\ "loop" \in WorkerSteps
      /\ Return \in WorkerSteps /\ Return # "advance"
  BY <1>1, WorkerFacts, ReturnFree DEF WorkerSteps, Return
<1>3. UNCHANGED durable
  BY DEF TakeInCharge, MarkUnderAnalysis, PersistResult, NoteFailure
<1>4. CASE TakeInCharge
  <2> DEFINE doc == [Current EXCEPT !.status = "TAKEN_IN_CHARGE"]
  <2>1. Current.status = "NEW"
    BY <1>4 DEF TakeInCharge, Resuming, Solo, CopyCurrent
  <2>2. /\ doc \in IncidentDocs /\ doc.status \in Active /\ Current.status \in Active
        /\ doc.task = Current.task
    BY <1>2, <2>1 DEF IncidentDocs, Statuses, Active
  <2>3. BeginUpdate(doc, "resume") /\ Forward(Phase(Incident), PhaseOf(Incident, doc))
    BY <1>2, <1>4, <2>2, PhaseStays DEF TakeInCharge
  <2>4. QED
    BY <1>1, <1>2, <1>3, <2>2, <2>3, BeginSolo
<1>5. CASE MarkUnderAnalysis \/ PersistResult
  <2> DEFINE doc == [Current EXCEPT !.status = "UNDER_ANALYSIS"]
  <2>1. Current.status \in Active
    BY <1>5 DEF MarkUnderAnalysis, PersistResult, Solo, CopyCurrent, Busy
  <2>2. doc \in IncidentDocs /\ doc.status \in Active /\ doc.task = Current.task
    BY <1>2 DEF IncidentDocs, Statuses, Active
  <2>3. Forward(Phase(Incident), PhaseOf(Incident, doc))
    BY <1>2, <2>1, <2>2, PhaseStays
  <2>4. CASE BeginUpdate(doc, "review")
    BY <1>1, <1>2, <1>3, <2>2, <2>3, <2>4, BeginSolo
  <2>5. CASE BeginUpdate(doc, Return)
    BY <1>1, <1>2, <1>3, <2>2, <2>3, <2>5, BeginSolo
  <2>6. QED
    BY <1>5, <2>4, <2>5 DEF MarkUnderAnalysis, PersistResult
<1>6. CASE NoteFailure
  <2>1. Forward(Phase(Incident), PhaseOf(Incident, Current))
    BY <1>2, PhaseIs DEF Forward
  <2>2. BeginUpdate(Current, "loop")
    BY <1>6 DEF NoteFailure
  <2>3. QED
    BY <1>1, <1>2, <1>3, <2>1, <2>2, BeginSolo
<1>7. QED
  BY <1>4, <1>5, <1>6

LEMMA TriageSolo ==
    ASSUME IInv, Solo, NEW r \in Roles, Triage(r)
    PROVE  Solo' /\ PhasesKept
<1> DEFINE doc == [Current EXCEPT !.status = "TRIAGED", !.role = r]
<1>1. ~ At("idle") /\ ~ At("handle") /\ Current.status = "TAKEN_IN_CHARGE"
  BY DEF Triage, Resuming, At, Solo, CopyCurrent
<1>2. Current \in IncidentDocs /\ Incident \in Incidents /\ "resume" \in WorkerSteps
  BY <1>1, WorkerFacts DEF WorkerSteps
<1>3. /\ doc \in IncidentDocs /\ doc.status \in Active /\ Current.status \in Active
      /\ doc.task = Current.task
  BY <1>1, <1>2 DEF IncidentDocs, Statuses, Active
<1>4. BeginUpdate(doc, "resume") /\ Forward(Phase(Incident), PhaseOf(Incident, doc))
  BY <1>2, <1>3, PhaseStays DEF Triage
<1>5. QED
  BY <1>1, <1>2, <1>3, <1>4, BeginSolo DEF Triage

LEMMA LinkTaskSolo ==
    ASSUME IInv, Solo, LinkTask
    PROVE  Solo' /\ PhasesKept
<1> DEFINE doc == [Current EXCEPT !.task = worker.doc.role]
<1>1. /\ ~ At("idle") /\ ~ At("handle") /\ Current.status = "TRIAGED" /\ ~ HasTask(Current)
      /\ worker.doc = Current
  BY DEF LinkTask, At, Solo, CopyCurrent
<1>2. /\ Current \in IncidentDocs /\ Current = incidents[Incident] /\ Incident \in Incidents
      /\ DocSound(Incident, Current) /\ "advance" \in WorkerSteps
  BY <1>1, WorkerFacts DEF WorkerSteps
<1>3. Current.role \in Roles
  BY <1>1, <1>2 DEF DocSound, Early, IncidentDocs
<1>4. /\ doc \in IncidentDocs /\ doc.status = "TRIAGED" /\ doc.task = Current.role
  BY <1>1, <1>2, <1>3 DEF IncidentDocs
<1>5. tasks[<<Incident, Current.role>>].state \in {"ABSENT", "PENDING"}
  BY <1>1, <1>2, <1>3 DEF Solo, TasksLinked, HasTask
<1>6. PhaseOf(Incident, doc) = "ACTIVE" /\ Phase(Incident) = "ACTIVE"
  BY <1>1, <1>2, <1>4, <1>5, PhaseIs DEF PhaseOf, TaskOf
<1>7. BeginUpdate(doc, "advance")
  BY DEF LinkTask
<1>8. QED
  BY <1>1, <1>2, <1>4, <1>6, <1>7, BeginSolo DEF LinkTask, Forward, Active

(* The steps that resolve the incident.                                    *)
LEMMA ResolvingStepsSolo ==
    ASSUME IInv, Solo, PersistTaskFailure \/ PersistReview \/ PersistFallback
    PROVE  Solo' /\ PhasesKept
<1>1. ~ At("idle") /\ ~ At("handle") /\ Linked(Incident)
  BY ConcludeFacts
  DEF PersistTaskFailure, Waiting, PersistReview, PersistFallback, At, Concluding
<1>2. PICK c \in Conclusions, next \in WorkerSteps \ {"advance"} : BeginUpdate(Resolved(c), next)
  BY DEF PersistTaskFailure, PersistReview, PersistFallback, Conclusions, WorkerSteps
<1>3. QED
  BY <1>1, <1>2, PhaseEnds, BeginSolo DEF PersistTaskFailure, PersistReview, PersistFallback

(* The steps that take work up, and the steps between two awaits.          *)
LEMMA TakeSolo ==
    ASSUME IInv, Solo, NEW item \in work, Take(item)
    PROVE  Solo' /\ PhasesKept
<1>1. /\ worker'.pc = IF item.recovery THEN "resume" ELSE "handle"
      /\ item.recovery => /\ worker'.incident = item.incident
                          /\ worker'.doc = incidents[item.incident]
  BY DEF Take, IdleWorker
<1>2. UNCHANGED durable
  BY DEF Take
<1>3. CASE item.recovery
  <2>1. worker'.pc = "resume" /\ worker'.doc = Current'
    BY <1>1, <1>2, <1>3 DEF Current, Incident, durable
  <2>2. CopyCurrent' /\ UpdateForward'
    BY <2>1 DEF CopyCurrent, UpdateForward, At, Busy, Delivering, Collecting
  <2>3. QED
    BY <1>2, <2>2, SameDocuments DEF Solo, PhasesKept
<1>4. CASE ~ item.recovery
  BY <1>1, <1>2, <1>4, RestSolo DEF Watched, Busy, Delivering, Collecting
<1>5. QED
  BY <1>3, <1>4

LEMMA CorrelateSolo ==
    ASSUME IInv, Solo, NEW i \in Incidents, Correlate(i)
    PROVE  Solo' /\ PhasesKept
<1>1. /\ worker'.pc = "replace" /\ worker'.incident = i /\ worker'.doc = incidents[i]
      /\ worker'.next = "resume" /\ UNCHANGED durable
  BY DEF Correlate, IInv, TypeOK, Workers
<1>2. PhasesKept /\ TasksLinked' /\ UNCHANGED incidents
  BY <1>1, SameDocuments DEF Solo, PhasesKept, durable
<1>3. \A j \in Incidents : (Phase(j) = PhaseOf(j, incidents[j]))'
  BY DEF Phase, PhaseOf, Exists, Investigated, Linked, TaskState
<1>4. UpdateForward'
  <2>1. Incident' = i /\ worker'.doc = incidents'[Incident']
    BY <1>1, <1>2 DEF Incident
  <2>2. PhaseOf(Incident, worker.doc)' = Phase(Incident)'
    BY <1>3, <2>1
  <2>3. QED
    BY <1>1, <2>2 DEF UpdateForward, Forward
<1>5. CopyCurrent'
  BY <1>1 DEF CopyCurrent, At, Busy, Delivering, Collecting
<1>6. QED
  BY <1>2, <1>4, <1>5 DEF Solo

LEMMA ResumeTaskSolo ==
    ASSUME IInv, Solo, ResumeTask
    PROVE  Solo' /\ PhasesKept
<1>1. worker.doc = Current /\ Current.status = "TRIAGED" /\ "advance" \in WorkerSteps
  BY DEF ResumeTask, Resuming, At, Solo, CopyCurrent, WorkerSteps
<1>2. /\ worker'.pc = "advance" /\ worker'.incident = worker.incident
      /\ worker'.doc = worker.doc /\ UNCHANGED durable
  BY <1>1, GotoFacts DEF ResumeTask, IInv
<1>3. Current' = Current
  BY <1>2 DEF Current, Incident, durable
<1>4. CopyCurrent' /\ UpdateForward'
  BY <1>1, <1>2, <1>3 DEF CopyCurrent, UpdateForward, At, Active
<1>5. QED
  BY <1>2, <1>4, SameDocuments DEF Solo, PhasesKept

LEMMA DispatchAnsweredSolo ==
    ASSUME IInv, Solo, DispatchAnswered
    PROVE  Solo' /\ PhasesKept
<1>1. worker.pc \in Busy /\ \E pc \in Busy : Goto(pc)
  BY DEF DispatchAnswered, At, Busy, Delivering
<1>2. UNCHANGED durable
  BY DEF DispatchAnswered
<1>3. QED
  BY <1>1, <1>2, SameDocuments, MoveSolo DEF Solo, PhasesKept, durable

LEMMA LoopSolo ==
    ASSUME IInv, Solo, LoopAdvance \/ CollectResult
    PROVE  Solo' /\ PhasesKept
<1>1. /\ At("loop") /\ Current.status # "RESOLVED" /\ Linked(Incident) /\ UNCHANGED durable
      /\ \E pc \in Busy : worker' = [worker EXCEPT !.pc = pc, !.doc = Current]
  BY DEF LoopAdvance, CollectResult, Waiting, Busy, Collecting
<1>2. PICK pc \in Busy : worker' = [worker EXCEPT !.pc = pc, !.doc = Current]
  BY <1>1
<1>3. /\ worker'.pc = pc /\ worker'.incident = worker.incident /\ worker'.doc = Current
  BY <1>2 DEF IInv, TypeOK, Workers
<1>4. Current' = Current
  BY <1>1, <1>3 DEF Current, Incident, durable
<1>5. Current.status \in Active
  BY <1>1, WorkerFacts
  DEF At, DocSound, Linked, HasTask, Early, IncidentDocs, Statuses, Active
<1>6. CopyCurrent' /\ UpdateForward'
  BY <1>3, <1>4, <1>5 DEF CopyCurrent, UpdateForward, At, Busy, Delivering, Collecting
<1>7. QED
  BY <1>1, <1>6, SameDocuments DEF Solo, PhasesKept

LEMMA RestingStepsSolo ==
    ASSUME IInv, Solo,
           \/ ResumeNothing \/ AdvanceNothing \/ LinkAnomaly \/ Release \/ ReviewFails
           \/ ReviewRecorded \/ LosesRace \/ WorkerRaises \/ Crash
    PROVE  Solo' /\ PhasesKept
<1>1. UNCHANGED durable
  BY DEF ResumeNothing, AdvanceNothing, LinkAnomaly, Release, ReviewFails, ReviewRecorded,
         LosesRace, WorkerRaises, Crash
<1>2. \/ \E pc \in Free \cup {"fallback"} : Goto(pc)
      \/ LinkAnomaly
      \/ worker' = IdleWorker
  BY ReturnFree
  DEF ResumeNothing, AdvanceNothing, Release, ReviewFails, ReviewRecorded,
      LosesRace, WorkerRaises, Crash, FailItem, Free
<1>3. worker'.pc \in Free \cup {"fallback", "idle"}
  <2>1. CASE \E pc \in Free \cup {"fallback"} : Goto(pc)
    BY <2>1, GotoFacts DEF IInv, Free, WorkerSteps
  <2>2. CASE LinkAnomaly
    BY <2>2 DEF LinkAnomaly, IInv, TypeOK, Workers, Free
  <2>3. CASE worker' = IdleWorker
    BY <2>3, IdleFacts
  <2>4. QED
    BY <1>2, <2>1, <2>2, <2>3
<1>4. QED
  BY <1>1, <1>3, RestSolo DEF Free, Watched, Busy, Delivering, Collecting

LEMMA QuietWorkerSolo ==
    ASSUME IInv, Solo, UNCHANGED <<durable, worker>>
    PROVE  Solo' /\ PhasesKept
<1>1. TasksLinked' /\ PhasesKept
  BY SameDocuments DEF Solo, PhasesKept
<1>2. CopyCurrent'
  BY DEF Solo, CopyCurrent, At, Current, Incident, durable, HasTask
<1>3. UpdateForward'
  BY DEF Solo, UpdateForward, At, Incident, durable, Phase, PhaseOf, Exists, Investigated,
         Linked, HasTask, TaskState, TaskOf
<1>4. QED
  BY <1>1, <1>2, <1>3 DEF Solo

-----------------------------------------------------------------------------
(* The steps that write a document, and the restart.                       *)

LEMMA ReplaceSolo ==
    ASSUME IInv, Solo, Replace
    PROVE  Solo' /\ OneMoves
<1>1. At("replace") /\ ~ At("idle") /\ ~ At("handle") /\ TypeOK
  BY DEF Replace, At, IInv
<1>2. /\ Incident \in Incidents /\ worker.doc \in IncidentDocs /\ worker.next \in WorkerSteps
      /\ Current = incidents[Incident]
  BY <1>1, WorkerFacts
<1>3. /\ Linked(Incident) => worker.doc.task = Current.task
      /\ worker.next \in {"resume", "advance", "handled", "loop", "release", "review", "reviewed"}
  BY <1>1 DEF IInv, WorkerSound, ReplaceSound
<1>4. /\ Forward(Phase(Incident), PhaseOf(Incident, worker.doc))
      /\ worker.next = "advance" => worker.doc.status \in Active
  BY <1>1 DEF Solo, UpdateForward
<1>5. PICK i \in Incidents : i = Incident
  BY <1>2
<1>6. /\ UNCHANGED tasks /\ incidents'[i] = worker.doc
      /\ \A j \in Incidents : j # i => incidents'[j] = incidents[j]
  BY <1>1, <1>2, <1>5 DEF Replace, TypeOK
<1>7. /\ worker'.pc = worker.next /\ worker'.incident = worker.incident
      /\ worker'.doc = worker.doc
  BY <1>1, <1>2, GotoFacts DEF Replace
<1>8. TasksLinked'
  <2>1. SUFFICES ASSUME NEW j \in Incidents, NEW r \in Roles,
                        tasks'[<<j, r>>].state \notin {"ABSENT", "PENDING"}
                 PROVE  incidents'[j].task = r
    BY DEF TasksLinked
  <2>2. incidents[j].task = r /\ r # None
    BY <2>1, <1>6 DEF Solo, TasksLinked
  <2>3. CASE j = i
    BY <2>2, <2>3, <1>2, <1>3, <1>5, <1>6 DEF Linked, HasTask
  <2>4. CASE j # i
    BY <2>2, <2>4, <1>6
  <2>5. QED
    BY <2>3, <2>4
<1>9. Incident' = i /\ Current' = worker.doc
  BY <1>5, <1>6, <1>7 DEF Incident, Current
<1>10. CopyCurrent' /\ UpdateForward'
  BY <1>3, <1>4, <1>7, <1>9
  DEF CopyCurrent, UpdateForward, At, Busy, Delivering, Collecting
<1>11. Phase(i)' = PhaseOf(i, worker.doc)
  BY <1>6 DEF Phase, PhaseOf, Exists, Investigated, Linked, HasTask, TaskState, TaskOf
<1>12. \A j \in Incidents \ {i} : Phase(j)' = Phase(j)
  BY <1>6 DEF Phase, Exists, Investigated, Linked, HasTask, TaskState, TaskOf
<1>13. Onward(Phase(i), Phase(i)')
  BY <1>4, <1>5, <1>11 DEF Onward
<1>14. QED
  BY <1>8, <1>10, <1>12, <1>13 DEF Solo, OneMoves

LEMMA OpenIncidentSolo ==
    ASSUME IInv, Solo, NEW i \in Incidents, OpenIncident(i)
    PROVE  Solo' /\ OneMoves
<1> DEFINE doc == [NoDoc EXCEPT !.status = "NEW", !.detector = worker.item.detector]
<1>1. TypeOK /\ DocSound(i, incidents[i]) /\ incidents[i].status = "ABSENT"
  BY DEF OpenIncident, IInv, IncidentsSound
<1>2. doc.status = "NEW" /\ doc.task = None
  BY DEF NoDoc
<1>3. /\ UNCHANGED tasks /\ incidents'[i] = doc
      /\ \A j \in Incidents : j # i => incidents'[j] = incidents[j]
  BY <1>1 DEF OpenIncident, TypeOK
<1>4. /\ worker'.pc = "resume" /\ worker'.incident = i /\ worker'.doc = doc
  BY <1>1 DEF OpenIncident, TypeOK, Workers
<1>5. TasksLinked'
  BY <1>1, <1>3 DEF Solo, TasksLinked, DocSound, Early
<1>6. CopyCurrent' /\ UpdateForward'
  BY <1>3, <1>4
  DEF CopyCurrent, UpdateForward, At, Busy, Delivering, Collecting, Current, Incident
<1>7. Phase(i) = "ABSENT" /\ Phase(i)' = "ACTIVE"
  BY <1>1, <1>2, <1>3 DEF Phase, Exists, Investigated, Linked, HasTask
<1>8. \A j \in Incidents \ {i} : Phase(j)' = Phase(j)
  BY <1>3 DEF Phase, Exists, Investigated, Linked, HasTask, TaskState, TaskOf
<1>9. Onward(Phase(i), Phase(i)')
  BY <1>7 DEF Onward
<1>10. QED
  BY <1>5, <1>6, <1>8, <1>9 DEF Solo, OneMoves

LEMMA CreateTaskSolo ==
    ASSUME IInv, Solo, CreateTask
    PROVE  Solo' /\ PhasesKept
<1>1. /\ worker.doc = Current /\ Current.status = "TRIAGED" /\ ~ HasTask(Current)
      /\ ~ At("idle") /\ ~ At("handle") /\ "link" \in WorkerSteps
  BY DEF CreateTask, Resuming, At, Solo, CopyCurrent, WorkerSteps
<1>2. /\ Incident \in Incidents /\ Current = incidents[Incident] /\ Current \in IncidentDocs
      /\ DocSound(Incident, Current)
  BY <1>1, WorkerFacts
<1>3. <<Incident, worker.doc.role>> \in Incidents \X Roles
  BY <1>1, <1>2 DEF DocSound, Early, IncidentDocs
<1>4. \A u \in Incidents \X Roles :
        \/ tasks'[u] = tasks[u]
        \/ tasks[u].state = "ABSENT" /\ tasks'[u].state = "PENDING"
  BY <1>3, TaskDocs DEF CreateTask, IInv, TypeOK
<1>5. UNCHANGED incidents
  BY DEF CreateTask
<1>6. /\ worker'.pc = "link" /\ worker'.incident = worker.incident
      /\ worker'.doc = worker.doc
  BY <1>1, GotoFacts DEF CreateTask, IInv
<1>7. Current' = Current
  BY <1>5, <1>6 DEF Current, Incident
<1>8. CopyCurrent' /\ UpdateForward'
  BY <1>1, <1>6, <1>7
  DEF CopyCurrent, UpdateForward, At, Busy, Delivering, Collecting, HasTask
<1>9. TasksLinked'
  BY <1>4, <1>5 DEF Solo, TasksLinked
<1>10. \A i \in Incidents : HasTask(incidents[i]) => <<i, incidents[i].task>> \in Incidents \X Roles
  BY DEF IInv, TypeOK, IncidentDocs, HasTask
<1>11. PhasesKept
  BY <1>4, <1>5, <1>10
  DEF PhasesKept, Phase, Exists, Investigated, Linked, HasTask, TaskState, TaskOf
<1>12. QED
  BY <1>8, <1>9, <1>11 DEF Solo

LEMMA RestartSolo ==
    ASSUME IInv, DownIsIdle, Solo, Restart
    PROVE  Solo' /\ PhasesKept
<1>1. TypeOK /\ UNCHANGED <<incidents, worker>> /\ At("idle")
  BY DEF IInv, Restart, DownIsIdle
<1>2. \A t \in Incidents \X Roles :
        /\ tasks[t].state \in {"ABSENT", "PENDING", "COMPLETED"} => tasks'[t] = tasks[t]
        /\ tasks[t].state # "COMPLETED" => tasks'[t].state # "COMPLETED"
  <2>1. PICK listed \in Listed(Interrupted, RecoverLimit) : tasks' = TasksRecovered(listed)
    BY DEF Restart
  <2>2. QED
    BY <1>1, <2>1, TasksRecoveredFacts DEF InFlight
<1>3. TasksLinked'
  BY <1>1, <1>2 DEF Solo, TasksLinked
<1>4. \A i \in Incidents : HasTask(incidents[i]) => <<i, incidents[i].task>> \in Incidents \X Roles
  BY <1>1 DEF TypeOK, IncidentDocs, HasTask
<1>5. PhasesKept
  BY <1>1, <1>2, <1>4
  DEF PhasesKept, Phase, Exists, Investigated, Linked, HasTask, TaskState, TaskOf
<1>6. QED
  BY <1>1, <1>3, <1>5, Unwatched DEF At, Watched, Busy, Delivering, Collecting

-----------------------------------------------------------------------------
(* The refinement.                                                         *)

LEMMA SoloInit == Init => Solo
  BY TaskDocs, IdleFacts
  DEF Init, Solo, TasksLinked, CopyCurrent, UpdateForward, At, Busy, Delivering, Collecting

LEMMA SoloStep ==
    ASSUME IInv, DownIsIdle, Solo, HookUnused, HookUnused', [Next]_vars
    PROVE  Solo' /\ OneMoves
<1>1. CASE WorkerStep
  BY <1>1, ReplaceSolo, TakeSolo, CorrelateSolo, OpenIncidentSolo, TriageSolo, CreateTaskSolo,
     LinkTaskSolo, ResumeTaskSolo, TaskStepsSolo, DispatchAnsweredSolo, AnalysisStepsSolo,
     ResolvingStepsSolo, LoopSolo, MarkFailedSolo, RestingStepsSolo
  DEF WorkerStep, OneMoves
<1>2. CASE WorkerRaises \/ Crash
  BY <1>2, RestingStepsSolo DEF OneMoves
<1>3. CASE HookStep
  BY <1>3 DEF HookUnused, HookStep, HookComplete, HookRead, HookReplace, HookEnds
<1>4. CASE \E i \in Incidents : HookCheck(i)
  <2>1. PICK i \in Incidents : HookCheck(i)
    BY <1>4
  <2>2. hook'.pc \in {"complete", "read"}
    BY <2>1 DEF HookCheck, IdleHook
  <2>3. QED
    BY <2>2 DEF HookUnused
<1>5. CASE Restart
  BY <1>5, RestartSolo DEF OneMoves
<1>6. CASE \/ \E d \in Detectors : Arrive(d)
           \/ \E item \in work : OfferAgain(item)
           \/ UNCHANGED vars
  <2>1. UNCHANGED <<durable, worker>>
    BY <1>6 DEF Arrive, OfferAgain, vars
  <2>2. QED
    BY <2>1, QuietWorkerSolo DEF OneMoves
<1>7. QED
  BY <1>1, <1>2, <1>3, <1>4, <1>5, <1>6 DEF Next

(* A step that moves one incident onward is a step of IncidentLifecycle.   *)
LEMMA OnwardIsNext ==
    ASSUME OneMoves
    PROVE  [Lifecycle!Next]_([i \in Incidents |-> Phase(i)])
<1> DEFINE phases == [i \in Incidents |-> Phase(i)]
<1>1. CASE PhasesKept
  BY <1>1 DEF PhasesKept
<1>2. CASE ~ PhasesKept
  <2>1. PICK i \in Incidents :
          Onward(Phase(i), Phase(i)') /\ \A j \in Incidents \ {i} : Phase(j)' = Phase(j)
    BY <1>2 DEF OneMoves
  <2>2. phases[i] = Phase(i) /\ phases' = [phases EXCEPT ![i] = Phase(i)']
    BY <2>1
  <2>3. Phase(i)' # Phase(i)
    BY <1>2, <2>1 DEF PhasesKept
  <2>4. \/ Phase(i) = "ABSENT" /\ Phase(i)' = "ACTIVE"
        \/ Phase(i) = "ACTIVE" /\ Phase(i)' = "REVIEW"
        \/ Phase(i) = "REVIEW" /\ Phase(i)' = "DONE"
        \/ Phase(i) = "ACTIVE" /\ Phase(i)' = "DONE"
    BY <2>1, <2>3 DEF Onward, Forward
  <2>5. \/ Lifecycle!Open(i) \/ Lifecycle!Investigated(i)
        \/ Lifecycle!Reviewed(i) \/ Lifecycle!Failed(i)
    BY <2>2, <2>4
    DEF Lifecycle!Open, Lifecycle!Investigated, Lifecycle!Reviewed, Lifecycle!Failed,
        Lifecycle!Move
  <2>6. QED
    BY <2>5 DEF Lifecycle!Next
<1>3. QED
  BY <1>1, <1>2

(* The coordinator implements the life of an incident that the intake      *)
(* relies on, through every exception, crash and restart, while the        *)
(* completion hook is not used: an incident never reopens, never returns   *)
(* from its review to its investigation and is closed only after one of    *)
(* the two.  With the hook it does not: an update of the worker that read  *)
(* the document before the hook resolved it puts the old status back.      *)
THEOREM Refinement == Spec /\ []HookUnused => ImplementsLifecycle
<1>1. Init => Lifecycle!Init
  BY NoDocFacts DEF Init, Lifecycle!Init, Phase, Exists
<1>2. IInv /\ DownIsIdle /\ Solo /\ HookUnused /\ HookUnused' /\ [Next]_vars
        => Solo' /\ [Lifecycle!Next]_([i \in Incidents |-> Phase(i)])
  BY SoloStep, OnwardIsNext
<1>3. QED
  BY <1>1, <1>2, SoloInit, Invariance, PTL DEF Spec, ImplementsLifecycle, Lifecycle!Spec

(* In particular where no request of the hook is ever made, as in the run  *)
(* workflow_live.                                                          *)
THEOREM RefinementWithoutHook ==
    ASSUME MaxHookCalls = 0
    PROVE  Spec => ImplementsLifecycle
<1>1. Init => HookUnused
  BY IdleFacts DEF Init, HookUnused
<1>2. IInv /\ HookUnused /\ [Next]_vars => HookUnused'
  <2> SUFFICES ASSUME IInv, HookUnused, [Next]_vars PROVE HookUnused'
    OBVIOUS
  <2>1. ~ HookStep
    BY DEF HookUnused, HookStep, HookComplete, HookRead, HookReplace, HookEnds
  <2>2. ASSUME NEW i \in Incidents, HookCheck(i) PROVE FALSE
    BY <2>2 DEF HookCheck, IInv, TypeOK
  <2>3. CASE Crash
    BY <2>3, IdleFacts DEF Crash, HookUnused
  <2>4. CASE WorkerStep
    <3>1. UNCHANGED hook
      BY <2>4
      DEF WorkerStep, Replace, Take, Correlate, OpenIncident, TakeInCharge, Triage, CreateTask,
          LinkTask, ResumeTask, ResumeNothing, MarkUncertain, AdvanceNothing,
          MarkDispatched, DispatchAnswered, MarkUndelivered, MarkRunning, MarkUnderAnalysis,
          LinkAnomaly, Release, PersistTaskFailure, LoopAdvance, CollectResult,
          MarkCompleted, PersistResult, PersistReview, ReviewFails, ReviewRecorded,
          PersistFallback, MarkFailed, NoteFailure, LosesRace
    <3>2. QED
      BY <3>1 DEF HookUnused
  <2>5. CASE \/ WorkerRaises \/ Restart \/ UNCHANGED vars
             \/ \E d \in Detectors : Arrive(d)
             \/ \E item \in work : OfferAgain(item)
    BY <2>5 DEF HookUnused, WorkerRaises, Restart, Arrive, OfferAgain, vars
  <2>6. QED
    BY <2>1, <2>2, <2>3, <2>4, <2>5 DEF Next
<1>3. Spec => []HookUnused
  BY <1>1, <1>2, Invariance, PTL DEF Spec
<1>4. QED
  BY <1>3, Refinement
=============================================================================
