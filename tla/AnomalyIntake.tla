---------------------------- MODULE AnomalyIntake ----------------------------
(***************************************************************************)
(* The exclusive anomaly FIFO: admission (incidents/ingestion.py), the     *)
(* durable inbox it keeps its promises with (AnomalyInbox), the durable    *)
(* handler and the startup recovery of main.py, operator dismissal         *)
(* (api/anomaly_inbox.py), crashes and orderly stops.                      *)
(*                                                                         *)
(* The coordinator behind the handler is abstract here: it puts a fresh    *)
(* anomaly on an incident, investigates it, reviews the investigation and  *)
(* resolves it, and may raise at any of its awaits.  An incident is        *)
(*   ACTIVE  not terminal, its investigation not finished                  *)
(*   REVIEW  UNDER_ANALYSIS with a COMPLETED task: investigated, and only  *)
(*           the Technical Lead review is missing                          *)
(*   DONE    RESOLVED                                                      *)
(*   GONE    deleted from the database by hand while the backend was down  *)
(* IncidentWorkflow models the coordinator itself.                         *)
(***************************************************************************)
EXTENDS AnomalyInbox, SequencesExt

CONSTANTS Producers,      \* coroutines that may call enqueue at the same time
          QueueCapacity,  \* ANOMALY_QUEUE_MAXSIZE
          DedupCapacity,  \* completed keys remembered in memory
          ListLimit,      \* WAITING documents the startup reads, 4096
          IncidentLimit,  \* incidents the startup reads per status, 500
          MaxIncidents,   \* bound: incidents opened
          MaxCrashes,     \* bound: crashes and orderly stops
          MaxFaults,      \* bound: exceptions raised by a dependency
          NoItem

ASSUME BoundsAssumption ==
    /\ QueueCapacity \in Nat \ {0}
    /\ DedupCapacity \in Nat \ {0}
    /\ ListLimit \in Nat /\ IncidentLimit \in Nat
    /\ MaxIncidents \in Nat /\ MaxCrashes \in Nat /\ MaxFaults \in Nat

ASSUME KeysAssumption == IsFiniteSet(Keys)

Incidents == 1 .. MaxIncidents

(* An observation is fresh, or the synthetic one that resumes an incident. *)
Fresh(k)    == <<"anomaly", k>>
Recovery(i) == <<"recovery", i>>
Items == {Fresh(k) : k \in Keys} \cup {Recovery(i) : i \in Incidents}
IsFresh(item) == item[1] = "anomaly"

ASSUME ItemAssumption == NoItem \notin Items

VARIABLES
    inbox,      \* the durable inbox
    receivedAt, \* the second each of its documents was received in
    incidents,  \* the durable incidents, in the order they were created
    queue,      \* asyncio.Queue of observations
    owned,      \* _owned_keys
    done,       \* _completed_order, the remembered completed keys
    producer,   \* per producer: where its enqueue call stands
    worker,     \* the single consumer
    boot,       \* phase of the process: down, reset, scan, seed, up
    plan,       \* startup: what is still to be read and to be seeded
    crashes, faults
durable  == <<inbox, receivedAt, incidents>>
volatile == <<queue, owned, done, producer, worker>>
budget   == <<crashes, faults>>
vars     == <<durable, volatile, boot, plan, budget>>

WorkerSteps == {"idle", "taken", "handling", "admitted", "waiting", "reviewing", "failing"}

IdleWorker == [pc |-> "idle", item |-> NoItem, incident |-> NoIncident]
IdleCall   == [pc |-> "idle", item |-> NoItem]
NoPlan     == [read |-> <<>>, left |-> {}, recovery |-> <<>>, backlog |-> <<>>]

SeqSet(s) == {s[j] : j \in DOMAIN s}

(* received_at has a resolution of one second: several documents may carry *)
(* the same one.  Only the order of the seconds matters, so as many as     *)
(* there are keys stand for all of them.                                   *)
Seconds == 1 .. Cardinality(Keys)

TypeOK ==
    /\ inbox \in [Keys -> [state : States, incident : {NoIncident} \cup Incidents]]
    /\ receivedAt \in [Keys -> {0} \cup Seconds]
    /\ incidents \in Seq({"ACTIVE", "REVIEW", "DONE", "GONE"}) /\ Len(incidents) <= MaxIncidents
    /\ queue \in Seq(Items) /\ Len(queue) <= QueueCapacity
    /\ owned \in SUBSET Items
    /\ done \in Seq(Items) /\ Len(done) <= DedupCapacity
    /\ producer \in [Producers -> [pc : {"idle", "checked", "recorded", "blocked"},
                                   item : Items \cup {NoItem}]]
    /\ worker \in [pc : WorkerSteps, item : Items \cup {NoItem},
                   incident : {NoIncident} \cup Incidents]
    /\ boot \in {"down", "reset", "scan", "seed", "up"}
    /\ plan \in [read : Seq(Keys), left : SUBSET Keys, recovery : Seq(Incidents),
                 backlog : Seq(Keys)]
    /\ crashes \in 0 .. MaxCrashes /\ faults \in 0 .. MaxFaults

Init ==
    /\ inbox = [k \in Keys |-> Missing]
    /\ receivedAt = [k \in Keys |-> 0] /\ incidents = <<>>
    /\ queue = <<>> /\ owned = {} /\ done = <<>>
    /\ producer = [p \in Producers |-> IdleCall]
    /\ worker = IdleWorker
    /\ boot = "down" /\ plan = NoPlan
    /\ crashes = 0 /\ faults = 0

Update(k, doc) == inbox' = [inbox EXCEPT ![k] = doc]

Raises == faults < MaxFaults /\ faults' = faults + 1 /\ UNCHANGED crashes

-----------------------------------------------------------------------------
(* AnomalyIntake.enqueue, called by the watcher and by test injection.     *)

RememberedOnly(item) == item \in SeqSet(done)   \* mutant: the claim set is not read

AlreadyOwned(item) == item \in owned \/ item \in SeqSet(done)

Call(p, pc, item) == producer' = [producer EXCEPT ![p] = [pc |-> pc, item |-> item]]

EnqueueCheck(p, k) ==
    /\ boot = "up"
    /\ producer[p].pc = "idle"
    /\ ~ AlreadyOwned(Fresh(k))
    /\ Call(p, "checked", Fresh(k))
    /\ UNCHANGED <<durable, queue, owned, done, worker, boot, plan, budget>>

(* A document is inserted with the second of the clock, which does not go  *)
(* back, as its received_at; a document that is found keeps its own.       *)
Receive(k) ==
    IF inbox[k].state = "ABSENT"
    THEN \E now \in Seconds :
           /\ \A l \in Keys : receivedAt[l] <= now
           /\ receivedAt' = [receivedAt EXCEPT ![k] = now]
    ELSE UNCHANGED receivedAt

(* record_anomaly, and the early return for a result that is terminal or   *)
(* already taken care of.                                                  *)
EnqueueRecord(p) ==
    /\ producer[p].pc = "checked"
    /\ LET k == producer[p].item[2] IN
         /\ Update(k, Recorded(inbox[k]))
         /\ Receive(k)
         /\ IF Recorded(inbox[k]).state = "WAITING"
            THEN Call(p, "recorded", Fresh(k))
            ELSE Call(p, "idle", NoItem)
    /\ UNCHANGED <<incidents, queue, owned, done, worker, boot, plan, budget>>

(* The database refused the insert, or stored it and the answer was lost.  *)
EnqueueRecordRaises(p) ==
    /\ producer[p].pc = "checked"
    /\ Raises
    /\ Call(p, "idle", NoItem)
    /\ LET k == producer[p].item[2] IN
         \/ UNCHANGED <<inbox, receivedAt>>
         \/ inbox[k].state = "ABSENT" /\ Update(k, Recorded(inbox[k])) /\ Receive(k)
    /\ UNCHANGED <<incidents, queue, owned, done, worker, boot, plan>>

UnboundedPut == TRUE                   \* mutant: the queue is unbounded

HasRoom == Len(queue) < QueueCapacity

ClaimOrDrop(p) ==                      \* mutant: what finds the queue full is dropped
    /\ producer[p].pc = "recorded"
    /\ Call(p, "idle", NoItem)
    /\ IF HasRoom THEN /\ queue' = Append(queue, producer[p].item)
                       /\ owned' = owned \cup {producer[p].item}
                  ELSE UNCHANGED <<queue, owned>>
    /\ UNCHANGED <<durable, done, worker, boot, plan, budget>>

(* After the metadata await: claim the key, then put, which waits when the *)
(* queue is full.                                                          *)
EnqueueClaim(p) ==
    /\ producer[p].pc = "recorded"
    /\ owned' = owned \cup {producer[p].item}
    /\ IF HasRoom
       THEN queue' = Append(queue, producer[p].item) /\ Call(p, "idle", NoItem)
       ELSE Call(p, "blocked", producer[p].item) /\ UNCHANGED queue
    /\ UNCHANGED <<durable, done, worker, boot, plan, budget>>

EnqueuePut(p) ==
    /\ producer[p].pc = "blocked"
    /\ HasRoom
    /\ queue' = Append(queue, producer[p].item)
    /\ Call(p, "idle", NoItem)
    /\ UNCHANGED <<durable, owned, done, worker, boot, plan, budget>>

(* The operator's DELETE request: one conditional update.                  *)
Dismiss(k) ==
    /\ boot = "up"
    /\ Dismissable(inbox[k])
    /\ Update(k, Dismissed(inbox[k]))
    /\ UNCHANGED <<receivedAt, incidents, volatile, boot, plan, budget>>

-----------------------------------------------------------------------------
(* AnomalyIntake.run and _process, with the durable handler of main.py.    *)

At(pc) == worker.pc = pc
Key    == worker.item[2]
Goto(pc) == worker' = [worker EXCEPT !.pc = pc]

Take ==
    /\ boot = "up"
    /\ At("idle")
    /\ queue # <<>>
    /\ worker' = [pc |-> "taken", item |-> Head(queue), incident |-> NoIncident]
    /\ queue' = Tail(queue)
    /\ UNCHANGED <<durable, owned, done, producer, boot, plan, budget>>

(* _remember_completed: a bounded memory that forgets the oldest key.      *)
Remember(item) ==
    done' = IF item \in SeqSet(done) THEN done
            ELSE Append(IF Len(done) >= DedupCapacity THEN Tail(done) ELSE done, item)

Finish == /\ owned' = owned \ {worker.item}
          /\ Remember(worker.item)
          /\ worker' = IdleWorker

MarkProcessing ==
    /\ At("taken") /\ IsFresh(worker.item)
    /\ ProcessingFound(inbox[Key])
    /\ Update(Key, Processing(inbox[Key]))
    /\ Goto("handling")
    /\ UNCHANGED <<receivedAt, incidents, queue, owned, done, producer, boot, plan, budget>>

SkipDismissed ==
    /\ At("taken") /\ IsFresh(worker.item)
    /\ inbox[Key].state = "DISMISSED"
    /\ Finish
    /\ UNCHANGED <<durable, queue, producer, boot, plan, budget>>

(* Any other document that may not be processed is an error of the item.   *)
RefuseProcessing ==
    /\ At("taken") /\ IsFresh(worker.item)
    /\ ~ ProcessingFound(inbox[Key])
    /\ inbox[Key].state # "DISMISSED"
    /\ Goto("failing")
    /\ UNCHANGED <<durable, queue, owned, done, producer, boot, plan, budget>>

MarkIncidentProcessing ==
    /\ At("taken") /\ ~ IsFresh(worker.item)
    /\ inbox' = IncidentProcessing(inbox, Key)
    /\ worker' = [worker EXCEPT !.pc = "waiting", !.incident = Key]
    /\ UNCHANGED <<receivedAt, incidents, queue, owned, done, producer, boot, plan, budget>>

(* The coordinator puts a fresh anomaly on an incident: one that is still  *)
(* open when the detector and the correlation window match, or a new one.  *)
Correlate(i) ==
    /\ At("handling")
    /\ i \in DOMAIN incidents /\ incidents[i] \in {"ACTIVE", "REVIEW"}
    /\ worker' = [worker EXCEPT !.pc = "admitted", !.incident = i]
    /\ UNCHANGED <<durable, queue, owned, done, producer, boot, plan, budget>>

OpenIncident ==
    /\ At("handling")
    /\ Len(incidents) < MaxIncidents
    /\ incidents' = Append(incidents, "ACTIVE")
    /\ worker' = [worker EXCEPT !.pc = "admitted", !.incident = Len(incidents) + 1]
    /\ UNCHANGED <<inbox, receivedAt, queue, owned, done, producer, boot, plan, budget>>

(* The link is written only after assignment, triage and dispatch.         *)
Link ==
    /\ At("admitted")
    /\ LinkFound(inbox[Key])
    /\ Update(Key, Linked(inbox[Key], worker.incident))
    /\ Goto("waiting")
    /\ UNCHANGED <<receivedAt, incidents, queue, owned, done, producer, boot, plan, budget>>

SetIncident(status) == incidents' = [incidents EXCEPT ![worker.incident] = status]

(* The specialist's result is durable (task COMPLETED); the review follows *)
(* in the same call.                                                       *)
InvestigationCompletes ==
    /\ At("waiting") /\ incidents[worker.incident] = "ACTIVE"
    /\ SetIncident("REVIEW")
    /\ Goto("reviewing")
    /\ UNCHANGED <<inbox, receivedAt, queue, owned, done, producer, boot, plan, budget>>

ReviewCompletes ==
    /\ At("reviewing")
    /\ SetIncident("DONE")
    /\ Goto("waiting")
    /\ UNCHANGED <<inbox, receivedAt, queue, owned, done, producer, boot, plan, budget>>

(* The task failed for good: the incident is resolved with a diagnostic    *)
(* failure.                                                                *)
InvestigationFails ==
    /\ At("waiting") /\ incidents[worker.incident] = "ACTIVE"
    /\ SetIncident("DONE")
    /\ UNCHANGED <<inbox, receivedAt, volatile, boot, plan, budget>>

(* wait_until_workflow_terminal returns; the handler and _process complete *)
(* the inbox documents and run forgets the item.                           *)
Complete ==
    /\ At("waiting") /\ incidents[worker.incident] = "DONE"
    /\ inbox' = IF IsFresh(worker.item)
                THEN [inbox EXCEPT ![Key] = Completed(@)]
                ELSE IncidentCompleted(inbox, Key)
    /\ Finish
    /\ UNCHANGED <<receivedAt, incidents, queue, producer, boot, plan, budget>>

(* Any await of the item's processing may raise.                           *)
ProcessingRaises ==
    /\ worker.pc \notin {"idle", "failing"}
    /\ Raises
    /\ Goto("failing")
    /\ UNCHANGED <<durable, queue, owned, done, producer, boot, plan>>

(* _mark_retryable: nothing for a recovery item.                           *)
GivenBack == IF IsFresh(worker.item) THEN [inbox EXCEPT ![Key] = Retryable(@)] ELSE inbox

Drop == owned' = owned \ {worker.item} /\ worker' = IdleWorker

GiveBack ==
    /\ At("failing")
    /\ inbox' = GivenBack
    /\ Drop
    /\ UNCHANGED <<receivedAt, incidents, queue, done, producer, boot, plan, budget>>

(* The update of _mark_retryable raises as well and is only logged.        *)
GiveBackRaises ==
    /\ At("failing") /\ IsFresh(worker.item)
    /\ Raises
    /\ Drop
    /\ UNCHANGED <<durable, queue, done, producer, boot, plan>>

-----------------------------------------------------------------------------
(* The end of a process, and the startup sequence of main.py.              *)

LoseMemory ==
    /\ queue' = <<>> /\ owned' = {} /\ done' = <<>>
    /\ producer' = [p \in Producers |-> IdleCall]
    /\ worker' = IdleWorker
    /\ plan' = NoPlan
    /\ boot' = "down"
    /\ crashes < MaxCrashes /\ crashes' = crashes + 1 /\ UNCHANGED faults

Crash == /\ boot # "down"
         /\ LoseMemory
         /\ UNCHANGED durable

(* runtime.stop cancels the consumer, which gives a fresh item back.       *)
Stop == /\ boot = "up" /\ worker.pc \notin {"idle", "failing"}
        /\ LoseMemory
        /\ inbox' = GivenBack
        /\ UNCHANGED <<receivedAt, incidents>>

DeleteIncident(i) ==
    /\ boot = "down"
    /\ Raises
    /\ i \in DOMAIN incidents /\ incidents[i] = "ACTIVE"
    /\ incidents' = [incidents EXCEPT ![i] = "GONE"]
    /\ UNCHANGED <<inbox, receivedAt, volatile, boot, plan>>

BootReset ==
    /\ boot = "down"
    /\ boot' = "reset"
    /\ inbox' = Interrupted(inbox)
    /\ UNCHANGED <<receivedAt, incidents, volatile, plan, budget>>

(* build_recovery_observations: the unfinished incidents, but not one that *)
(* only awaits its review.  A query returns at most IncidentLimit incidents*)
(* of one status, so as long as fewer are listed in all, none is left out. *)
(* They are taken in the order of created_at, a second again; which of them*)
(* were created in the same one is left open.  (Every incident was created *)
(* for an observation, and the inbox refuses one without a detector_id:    *)
(* the branch that skips such an incident is never taken.)                 *)
Recoverable(i) == incidents[i] = "ACTIVE"

AwaitsReviewOnly(i) == incidents[i] = "REVIEW"

Unfinished == {i \in DOMAIN incidents : Recoverable(i) \/ AwaitsReviewOnly(i)}

Listings == {S \in SUBSET Unfinished : Cardinality(S) < IncidentLimit => S = Unfinished}

RecoveryObservations ==
    UNION {SetToSeqs({i \in S : Recoverable(i)}) : S \in Listings}

(* list_anomalies(state=WAITING): oldest second first, no more than the    *)
(* limit, and records of the same second in any order: each record comes   *)
(* after all that wait since an earlier second.                            *)
Waiting    == {k \in Keys : inbox[k].state = "WAITING"}
ListLength == IF Cardinality(Waiting) < ListLimit THEN Cardinality(Waiting) ELSE ListLimit

NewestFirst ==                         \* mutant: the list is read newest first
    {s \in SetToAllKPermutations(Waiting) :
       /\ Len(s) = ListLength
       /\ \A n \in DOMAIN s, k \in Waiting :
            receivedAt[k] > receivedAt[s[n]] => \E m \in 1 .. n - 1 : s[m] = k}

WaitingRecords ==
    {s \in SetToAllKPermutations(Waiting) :
       /\ Len(s) = ListLength
       /\ \A n \in DOMAIN s, k \in Waiting :
            receivedAt[k] < receivedAt[s[n]] => \E m \in 1 .. n - 1 : s[m] = k}

(* left remembers what the limit kept out of the list.                     *)
BootRead ==
    /\ boot = "reset"
    /\ boot' = "scan"
    /\ \E list \in WaitingRecords, recovery \in RecoveryObservations :
         plan' = [read |-> list, left |-> Waiting \ SeqSet(list),
                  recovery |-> recovery, backlog |-> <<>>]
    /\ UNCHANGED <<durable, volatile, budget>>

(* One record of the startup loop.                                         *)
BootScan ==
    /\ boot = "scan"
    /\ plan.read # <<>>
    /\ LET k == Head(plan.read)
           i == inbox[k].incident
           rest == [plan EXCEPT !.read = Tail(@)]
       IN \/ /\ i = NoIncident
             /\ plan' = [rest EXCEPT !.backlog = Append(@, k)]
             /\ UNCHANGED inbox
          \/ /\ i # NoIncident /\ incidents[i] = "GONE"
             /\ Update(k, Released(inbox[k]))
             /\ plan' = [rest EXCEPT !.backlog = Append(@, k)]
          \/ /\ i # NoIncident /\ incidents[i] = "DONE"
             /\ Update(k, Completed(inbox[k]))
             /\ plan' = rest
          \/ /\ i # NoIncident /\ incidents[i] \in {"ACTIVE", "REVIEW"}
             /\ plan' = IF i \in SeqSet(plan.recovery) THEN rest
                        ELSE [rest EXCEPT !.recovery = Append(@, i)]
             /\ UNCHANGED inbox
    /\ UNCHANGED <<receivedAt, incidents, volatile, boot, budget>>

(* mark_incident_anomalies_recovery_queued for every incident to recover   *)
Reserved == [k \in Keys |-> IF inbox[k].incident \in SeqSet(plan.recovery)
                            THEN RecoveryQueued(inbox, inbox[k].incident)[k]
                            ELSE inbox[k]]

BootReserve ==
    /\ boot = "scan"
    /\ plan.read = <<>>
    /\ inbox' = Reserved
    /\ boot' = "seed"
    /\ UNCHANGED <<receivedAt, incidents, volatile, plan, budget>>

(* Startup enqueues before the consumer runs, recoveries first: put waits  *)
(* for room that nobody makes.                                             *)
BootSeed ==
    /\ boot = "seed"
    /\ HasRoom
    /\ LET seed(item, rest) == /\ queue' = Append(queue, item)
                               /\ owned' = owned \cup {item}
                               /\ plan' = rest
       IN \/ /\ plan.recovery # <<>>
             /\ seed(Recovery(Head(plan.recovery)), [plan EXCEPT !.recovery = Tail(@)])
          \/ /\ plan.recovery = <<>> /\ plan.backlog # <<>>
             /\ seed(Fresh(Head(plan.backlog)), [plan EXCEPT !.backlog = Tail(@)])
    /\ UNCHANGED <<durable, done, producer, worker, boot, budget>>

StartAfterDrain ==                     \* mutant: startup waits for the seeds to be treated
    /\ boot = "seed"
    /\ plan.recovery = <<>> /\ plan.backlog = <<>> /\ queue = <<>>
    /\ boot' = "up"
    /\ plan' = NoPlan
    /\ UNCHANGED <<durable, volatile, budget>>

StartPipeline ==
    /\ boot = "seed"
    /\ plan.recovery = <<>> /\ plan.backlog = <<>>
    /\ boot' = "up"
    /\ plan' = NoPlan
    /\ UNCHANGED <<durable, volatile, budget>>

-----------------------------------------------------------------------------
ProducerStep(p) == EnqueueRecord(p) \/ EnqueueClaim(p) \/ EnqueuePut(p)

WorkerStep ==
    \/ Take \/ MarkProcessing \/ SkipDismissed \/ RefuseProcessing
    \/ MarkIncidentProcessing \/ OpenIncident \/ (\E i \in Incidents : Correlate(i))
    \/ Link \/ InvestigationCompletes \/ ReviewCompletes \/ InvestigationFails
    \/ Complete \/ GiveBack

BootStep == BootReset \/ BootRead \/ BootScan \/ BootReserve \/ BootSeed \/ StartPipeline

Environment ==
    \/ \E p \in Producers : EnqueueRecordRaises(p)
    \/ \E k \in Keys : Dismiss(k)
    \/ ProcessingRaises \/ GiveBackRaises \/ Crash \/ Stop
    \/ \E i \in Incidents : DeleteIncident(i)

Next ==
    \/ \E p \in Producers : ProducerStep(p) \/ \E k \in Keys : EnqueueCheck(p, k)
    \/ WorkerStep \/ BootStep \/ Environment

Spec == Init /\ [][Next]_vars

(* The event loop runs every coroutine that can run; dependencies that     *)
(* fail do so finitely often, and so does the process.  A result may be    *)
(* offered again (the watcher polls it while it is inside its lookback     *)
(* window, injection offers it once), but nothing obliges anybody to: there*)
(* is no fairness on EnqueueCheck.  Nor is there any on the outcome of an  *)
(* investigation, for which the consumer waits without a timeout.          *)
AwaitsOutcome == At("waiting") /\ incidents[worker.incident] = "ACTIVE"

FairSpec ==
    /\ Spec
    /\ WF_vars(~ AwaitsOutcome /\ WorkerStep) /\ WF_vars(BootStep)
    /\ \A p \in Producers : WF_vars(ProducerStep(p))

-----------------------------------------------------------------------------
(* Properties.                                                             *)

Handling == worker.pc \in {"handling", "admitted", "waiting", "reviewing"}

(* Somebody in this process will deal with the anomaly: it is queued, being*)
(* processed, or about to be queued, itself or through the recovery of its *)
(* incident.                                                               *)
Admitting(p) == producer[p].pc \in {"recorded", "blocked"}

HasOwner(k) ==
    LET items == {Fresh(k)} \cup {Recovery(i) : i \in {inbox[k].incident} \ {NoIncident}}
    IN  \/ worker.item \in items \/ SeqSet(queue) \cap items # {}
        \/ \E p \in Producers : Admitting(p) /\ producer[p].item \in items

(* An anomaly is marked COMPLETED only once an incident it is linked to has*)
(* been resolved, whichever of the four places completes it (the consumer, *)
(* the handler of a recovery, the startup scan) and whatever was relinked, *)
(* recovered or lost before.                                               *)
CompletedIsResolved ==
    \A k \in Keys : inbox[k].state = "COMPLETED" =>
        /\ inbox[k].incident \in DOMAIN incidents
        /\ incidents[inbox[k].incident] = "DONE"

(* While the team works on a fresh anomaly its document says PROCESSING:   *)
(* the operator cannot dismiss it under the team, and an anomaly that was  *)
(* dismissed or completed while it stood in the queue (twice, even, when   *)
(* two enqueue calls raced) is not worked on.                              *)
WorkIsExclusive ==
    Handling /\ IsFresh(worker.item) => inbox[Key].state = "PROCESSING"

(* A completed or dismissed anomaly is never reopened, relinked or changed,*)
(* by a retry, a restart, a recovery or a late enqueue.                    *)
FinalRecordsStay ==
    [][\A k \in Keys : inbox[k].state \in Final => inbox'[k] = inbox[k]]_vars

(* With one producer at a time, as the watcher is, no observation is queued*)
(* twice or queued while it is being processed, and the claim set is       *)
(* exactly what is queued, processed or waiting for room: no claim outlives*)
(* its item, which would refuse every later offer of the anomaly.          *)
Blocked == {p \in Producers : producer[p].pc = "blocked"}
QueuedOnce ==
    /\ \A m, n \in DOMAIN queue : queue[m] = queue[n] => m = n
    /\ worker.item \notin SeqSet(queue)
    /\ owned = SeqSet(queue) \cup ({worker.item} \ {NoItem}) \cup {producer[p].item : p \in Blocked}

(* After a restart nothing that startup has read is forgotten: when the    *)
(* pipeline starts, every open anomaly has an owner, unless ListLimit      *)
(* records or more were WAITING and it is one that the list left out; and  *)
(* every incident whose investigation is unfinished has its recovery in the*)
(* queue, unless more incidents are unfinished than one query may return.  *)
RestartSeedsEverything ==
    [][boot # "up" /\ boot' = "up" =>
         /\ \A k \in Keys : inbox'[k].state \in Open => HasOwner(k)' \/ k \in plan.left
         /\ Cardinality(Unfinished) <= IncidentLimit =>
              \A i \in DOMAIN incidents :
                 incidents[i] = "ACTIVE" => Recovery(i) \in SeqSet(queue')]_vars

(* As long as no attempt fails, anomalies are started in the order of the  *)
(* seconds they were received in, across restarts too: none is started     *)
(* while one of an earlier second that belongs to no incident is still     *)
(* waiting.  (For a startup whose list has room for every waiting record.) *)
FifoOrder ==
    [][\A k, l \in Keys :
         /\ faults = 0 /\ worker.pc # "taken" /\ worker'.pc = "taken" /\ worker'.item = Fresh(k)
         /\ receivedAt[l] < receivedAt[k]
         => ~ Dismissable(inbox[l])]_vars

(* What the startup has to put into the queue fits: nobody takes anything  *)
(* out of it before the pipeline starts.                                   *)
StartupFits == Len(queue) + Len(plan.recovery) + Len(plan.backlog) <= QueueCapacity

(* The ways in which the code lets an anomaly be held until the next       *)
(* restart: the consumer waits on an incident whose review was lost; a call*)
(* raised and nobody in this process owns the anomaly any more, unless it  *)
(* is offered again; the startup fills the queue and never gets further.   *)
HeldByReview   == At("waiting") /\ AwaitsReviewOnly(worker.incident)
Stranded(k)    == boot = "up" /\ inbox[k].state \in Open /\ ~ HasOwner(k)
StartupHangs   == boot = "seed" /\ ~ StartupFits

(* Every admitted anomaly is completed or dismissed, or held in one of the *)
(* three ways above, and stranded only after an exception: none is lost by *)
(* a crash, a full queue, a forgotten key or a slow startup, and nothing   *)
(* here rests on a second offer of the anomaly.  (Unless the consumer waits*)
(* for an outcome that never comes.)                                       *)
AdmittedIsSettled == <>[]AwaitsOutcome \/
    \A k \in Keys :
      inbox[k].state \in Open ~> \/ inbox[k].state \in Final
                                 \/ HeldByReview \/ StartupHangs
                                 \/ faults > 0 /\ Stranded(k)

(* A backend that starts gets to run its pipeline (or ends first), when    *)
(* what it seeds fits into the queue.                                      *)
StartupCompletes == (boot = "seed" /\ StartupFits) ~> (boot \in {"up", "down"})
=============================================================================
