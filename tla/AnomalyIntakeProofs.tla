------------------------ MODULE AnomalyIntakeProofs ------------------------
(***************************************************************************)
(* Proofs about AnomalyIntake for any set of anomalies, any number of      *)
(* producers, incidents, crashes and exceptions, any capacity of the queue *)
(* and of the memory of completed keys.                                    *)
(***************************************************************************)
EXTENDS AnomalyIntake, FiniteSetTheorems, TLAPS

-----------------------------------------------------------------------------
(* The sequences in which SetToSeqs lists a finite set.                    *)

Once(s) == \A m, n \in DOMAIN s : s[m] = s[n] => m = n

LEMMA SetToSeqsFacts ==
    ASSUME NEW S, IsFiniteSet(S), NEW s \in SetToSeqs(S)
    PROVE  /\ s \in Seq(S) /\ Len(s) = Cardinality(S) /\ Cardinality(S) \in Nat
           /\ Once(s) /\ SeqSet(s) = S
<1> DEFINE N == Cardinality(S)
           D == 1 .. N
<1>1. N \in Nat /\ IsFiniteSet(D) /\ Cardinality(D) = N
  BY FS_CardinalityType, FS_Interval
<1>2. s \in [D -> S] /\ \A i, j \in D : i # j => s[i] # s[j]
  BY DEF SetToSeqs
<1>3. s \in Injection(D, S)
  BY <1>2 DEF Injection, IsInjective
<1>4. s \in Surjection(D, S)
  <2>1. Cardinality(D) = Cardinality(S) /\ IsFiniteSet(S)
    BY <1>1
  <2> HIDE DEF D, N
  <2>2. QED
    BY <1>1, <1>3, <2>1, FS_Injection
<1>5. \A x \in S : \E n \in D : s[n] = x
  BY <1>4 DEF Surjection
<1> HIDE DEF N
<1>6. s \in Seq(S) /\ Len(s) = N /\ DOMAIN s = 1 .. N
  BY <1>1, <1>2
<1>7. Once(s)
  BY <1>2, <1>6 DEF Once
<1>8. SeqSet(s) = S
  BY <1>2, <1>5, <1>6 DEF SeqSet
<1>9. QED
  BY <1>1, <1>6, <1>7, <1>8 DEF N

-----------------------------------------------------------------------------
(* The inductive invariant, by parts.                                      *)

Documents  == [state : States, incident : {NoIncident} \cup Incidents]
PlanType   == [read : Seq(Keys), left : SUBSET Keys, recovery : Seq(Incidents),
               backlog : Seq(Keys)]
KnownItems == {Fresh(k) : k \in Keys} \cup {Recovery(i) : i \in DOMAIN incidents}

TypeDurable ==
    /\ inbox \in [Keys -> Documents]
    /\ receivedAt \in [Keys -> {0} \cup Seconds]
    /\ incidents \in Seq({"ACTIVE", "REVIEW", "DONE", "GONE"}) /\ Len(incidents) <= MaxIncidents

TypeMemory ==
    /\ queue \in Seq(Items) /\ Len(queue) <= QueueCapacity
    /\ owned \in SUBSET Items
    /\ done \in Seq(Items) /\ Len(done) <= DedupCapacity

TypeWork ==
    /\ producer \in [Producers -> [pc : {"idle", "checked", "recorded", "blocked"},
                                   item : Items \cup {NoItem}]]
    /\ worker \in [pc : WorkerSteps, item : Items \cup {NoItem},
                   incident : {NoIncident} \cup Incidents]

TypeBoot ==
    /\ boot \in {"down", "reset", "scan", "seed", "up"}
    /\ plan \in PlanType
    /\ crashes \in 0 .. MaxCrashes /\ faults \in 0 .. MaxFaults

(* Only a started process has coroutines at work.                          *)
Asleep == boot # "up" => worker = IdleWorker /\ producer = [p \in Producers |-> IdleCall]

(* Whatever an incident number stands in is an incident.                   *)
LinksKnown ==
    /\ \A k \in Keys : inbox[k].incident = NoIncident \/ inbox[k].incident \in DOMAIN incidents
    /\ \A n \in DOMAIN queue : queue[n] \in KnownItems
    /\ \A n \in DOMAIN plan.recovery : plan.recovery[n] \in DOMAIN incidents

CallsSound == \A p \in Producers : producer[p].pc # "idle" =>
                                     \E k \in Keys : producer[p].item = Fresh(k)

(* The consumer works on an item, and on the incident of that item.        *)
WorkSound ==
    /\ worker.pc = "idle" => worker = IdleWorker
    /\ worker.pc # "idle" => worker.item \in KnownItems
    /\ worker.pc \in {"handling", "admitted"} => IsFresh(worker.item)
    /\ worker.pc \in {"admitted", "waiting", "reviewing"} => worker.incident \in DOMAIN incidents
    /\ worker.pc \in {"waiting", "reviewing"} =>
         worker.incident = IF IsFresh(worker.item) THEN inbox[Key].incident ELSE Key
    /\ worker.pc = "reviewing" => incidents[worker.incident] = "REVIEW"

IInv ==
    /\ TypeDurable /\ TypeMemory /\ TypeWork /\ TypeBoot
    /\ Asleep /\ LinksKnown /\ CallsSound /\ WorkSound
    /\ WorkIsExclusive /\ CompletedIsResolved

USE DEF PlanType

LEMMA TypeParts == TypeOK <=> TypeDurable /\ TypeMemory /\ TypeWork /\ TypeBoot
  BY DEF TypeOK, TypeDurable, TypeMemory, TypeWork, TypeBoot, Documents, PlanType

-----------------------------------------------------------------------------
(* Items and documents.                                                    *)

LEMMA ItemShape ==
    ASSUME NEW item \in Items
    PROVE  /\ item # NoItem
           /\ IsFresh(item) => item[2] \in Keys /\ item = Fresh(item[2])
           /\ ~ IsFresh(item) => item[2] \in Incidents /\ item = Recovery(item[2])
  BY ItemAssumption DEF Items, IsFresh, Fresh, Recovery

LEMMA KnownShape ==
    ASSUME TypeDurable, NEW item \in KnownItems
    PROVE  /\ item \in Items
           /\ ~ IsFresh(item) => item[2] \in DOMAIN incidents
<1>1. DOMAIN incidents \subseteq Incidents
  BY BoundsAssumption DEF TypeDurable, Incidents
<1>2. QED
  BY <1>1 DEF KnownItems, Items, IsFresh, Fresh, Recovery

LEMMA FreshShape == \A k \in Keys : Fresh(k) \in Items /\ IsFresh(Fresh(k)) /\ Fresh(k)[2] = k
  BY DEF Items, Fresh, IsFresh

LEMMA RecoveryShape ==
    \A i \in Incidents : Recovery(i) \in Items /\ ~ IsFresh(Recovery(i)) /\ Recovery(i)[2] = i
  BY DEF Items, Recovery, IsFresh

(* What an operation that neither links nor completes does to a document.  *)
Mild(d, e) == /\ e \in Documents /\ e.incident \in {d.incident, NoIncident}
              /\ d.state \in Final => e = d
              /\ e.state = "COMPLETED" => e = d

LEMMA MildOperations ==
    ASSUME NEW d \in Documents
    PROVE  /\ Mild(d, d) /\ Mild(d, Recorded(d)) /\ Mild(d, Processing(d)) /\ Mild(d, Retryable(d))
           /\ Mild(d, Dismissed(d)) /\ Mild(d, Released(d))
           /\ Mild(d, Move(d, {"WAITING"}, "RECOVERY"))
           /\ Mild(d, Move(d, {"WAITING", "RECOVERY"}, "PROCESSING"))
           /\ Mild(d, Move(d, {"PROCESSING", "RECOVERY"}, "WAITING"))
<1> USE DEF Documents, States, Final, Open, Move, Mild
<1>1. Mild(d, d) /\ Mild(d, Recorded(d)) /\ Mild(d, Processing(d)) /\ Mild(d, Retryable(d))
  BY DEF Recorded, Processing, Retryable
<1>2. Mild(d, Dismissed(d)) /\ Mild(d, Released(d))
  BY DEF Dismissed, Released, Dismissable, NoIncident
<1>3. /\ Mild(d, Move(d, {"WAITING"}, "RECOVERY"))
      /\ Mild(d, Move(d, {"WAITING", "RECOVERY"}, "PROCESSING"))
      /\ Mild(d, Move(d, {"PROCESSING", "RECOVERY"}, "WAITING"))
  OBVIOUS
<1>4. QED
  BY <1>1, <1>2, <1>3

LEMMA LinkCompletes ==
    ASSUME NEW d \in Documents
    PROVE  /\ Completed(d) \in Documents /\ Completed(d).incident = d.incident
           /\ \A i \in Incidents : /\ Linked(d, i) \in Documents
                                   /\ d.state = "PROCESSING" =>
                                        Linked(d, i) = [state |-> "PROCESSING", incident |-> i]
           /\ d.state \in Final => Completed(d) = d
  BY DEF Documents, States, Final, Open, Move, Completed, Linked, LinkFound

LEMMA MildInbox ==
    ASSUME IInv, inbox' \in [Keys -> Documents],
           \A k \in Keys : Mild(inbox[k], inbox'[k]), incidents' = incidents
    PROVE  /\ CompletedIsResolved'
           /\ \A k \in Keys : inbox'[k].incident = NoIncident \/ inbox'[k].incident \in DOMAIN incidents'
<1>1. CompletedIsResolved'
  BY DEF IInv, CompletedIsResolved, Mild
<1>2. QED
  BY <1>1 DEF IInv, LinksKnown, Mild

LEMMA MildUpdate ==
    ASSUME IInv, NEW k \in Keys, NEW doc, Mild(inbox[k], doc), Update(k, doc)
    PROVE  /\ inbox' \in [Keys -> Documents]
           /\ \A l \in Keys : Mild(inbox[l], inbox'[l])
           /\ inbox'[k] = doc /\ \A l \in Keys \ {k} : inbox'[l] = inbox[l]
<1>1. inbox \in [Keys -> Documents] /\ inbox' = [inbox EXCEPT ![k] = doc]
  BY DEF IInv, TypeDurable, Update
<1>2. inbox' \in [Keys -> Documents]
      /\ inbox'[k] = doc /\ \A l \in Keys \ {k} : inbox'[l] = inbox[l]
  BY <1>1 DEF Mild
<1>3. \A l \in Keys : Mild(inbox[l], inbox[l])
  BY <1>1, MildOperations
<1>4. QED
  BY <1>2, <1>3

(* The consumer is undisturbed by a step that leaves documents that are    *)
(* PROCESSING alone.                                                       *)
LEMMA WorkKept ==
    ASSUME IInv, UNCHANGED <<worker, incidents>>,
           \A k \in Keys : inbox[k].state = "PROCESSING" => inbox'[k] = inbox[k]
    PROVE  WorkSound' /\ WorkIsExclusive'
<1>1. worker.pc # "idle" => worker.item \in Items
  BY KnownShape DEF IInv, WorkSound
<1>2. worker.pc # "idle" /\ IsFresh(worker.item) => Key \in Keys
  BY <1>1, ItemShape DEF Key
<1>3. Key' = Key /\ (Handling' <=> Handling) /\ KnownItems' = KnownItems
  BY DEF Key, Handling, KnownItems
<1>4. Handling /\ IsFresh(worker.item) => inbox[Key].state = "PROCESSING" /\ inbox'[Key] = inbox[Key]
  BY <1>2 DEF IInv, WorkIsExclusive, Handling
<1>5. WorkIsExclusive'
  BY <1>3, <1>4 DEF WorkIsExclusive
<1>6. WorkSound'
  BY <1>3, <1>4 DEF IInv, WorkSound, Handling
<1>7. QED
  BY <1>5, <1>6

-----------------------------------------------------------------------------
(* The producers and the operator.                                         *)

LEMMA CallTyped ==
    ASSUME IInv, NEW p \in Producers, NEW item \in Items \cup {NoItem},
           NEW pc \in {"idle", "checked", "recorded", "blocked"}, Call(p, pc, item),
           pc # "idle" => \E k \in Keys : item = Fresh(k),
           boot = "up", boot' = boot, worker' = worker
    PROVE  TypeWork' /\ Asleep' /\ CallsSound'
<1>1. producer' = [producer EXCEPT ![p] = [pc |-> pc, item |-> item]]
  BY DEF Call
<1>2. TypeWork'
  BY <1>1 DEF IInv, TypeWork
<1>3. CallsSound'
  BY <1>1 DEF IInv, CallsSound, TypeWork, Call
<1>4. QED
  BY <1>2, <1>3 DEF Asleep

LEMMA CallRuns ==
    ASSUME IInv, NEW p \in Producers, producer[p].pc # "idle"
    PROVE  /\ boot = "up"
           /\ \E k \in Keys : /\ producer[p].item = Fresh(k) /\ producer[p].item[2] = k
                              /\ Fresh(k) \in Items
  BY FreshShape DEF IInv, Asleep, CallsSound, IdleCall

LEMMA EnqueueCheckStep ==
    ASSUME IInv, NEW p \in Producers, NEW k \in Keys, EnqueueCheck(p, k)
    PROVE  IInv'
<1>1. /\ boot = "up" /\ Call(p, "checked", Fresh(k))
      /\ UNCHANGED <<inbox, receivedAt, incidents, queue, owned, done, worker, boot, plan, crashes, faults>>
  BY DEF EnqueueCheck, durable, budget
<1>2. TypeWork' /\ Asleep' /\ CallsSound'
  BY <1>1, CallTyped, FreshShape
<1>3. WorkSound' /\ WorkIsExclusive'
  BY <1>1, WorkKept
<1>4. TypeDurable' /\ TypeMemory' /\ TypeBoot' /\ LinksKnown' /\ CompletedIsResolved'
  BY <1>1 DEF IInv, TypeDurable, TypeMemory, TypeBoot, LinksKnown, KnownItems, CompletedIsResolved
<1>5. QED
  BY <1>2, <1>3, <1>4 DEF IInv

LEMMA RecordKeeps ==
    ASSUME IInv, NEW k \in Keys, Update(k, Recorded(inbox[k])),
           Receive(k),
           UNCHANGED <<incidents, queue, worker, plan>>
    PROVE  TypeDurable' /\ LinksKnown' /\ CompletedIsResolved' /\ WorkSound' /\ WorkIsExclusive'
<1>1. inbox[k] \in Documents
  BY DEF IInv, TypeDurable
<1>2. /\ inbox' \in [Keys -> Documents] /\ inbox'[k] = Recorded(inbox[k])
      /\ \A l \in Keys : Mild(inbox[l], inbox'[l])
      /\ \A l \in Keys \ {k} : inbox'[l] = inbox[l]
  BY <1>1, MildOperations, MildUpdate
<1>3. TypeDurable'
  BY <1>2 DEF IInv, TypeDurable, Receive
<1>4. LinksKnown' /\ CompletedIsResolved'
  BY <1>2, MildInbox DEF IInv, LinksKnown, KnownItems
<1>5. \A l \in Keys : inbox[l].state = "PROCESSING" => inbox'[l] = inbox[l]
  BY <1>2 DEF Recorded, Move
<1>6. QED
  BY <1>3, <1>4, <1>5, WorkKept

LEMMA EnqueueRecordStep ==
    ASSUME IInv, NEW p \in Producers, EnqueueRecord(p)
    PROVE  IInv'
<1>1. PICK k \in Keys : producer[p].item = Fresh(k) /\ producer[p].item[2] = k /\ Fresh(k) \in Items
  BY CallRuns DEF EnqueueRecord
<1>2. boot = "up"
  BY CallRuns DEF EnqueueRecord
<1>3. /\ Update(k, Recorded(inbox[k]))
      /\ Receive(k)
      /\ Call(p, "recorded", Fresh(k)) \/ Call(p, "idle", NoItem)
      /\ UNCHANGED <<incidents, queue, owned, done, worker, boot, plan, crashes, faults>>
  BY <1>1 DEF EnqueueRecord, budget
<1>4. TypeWork' /\ Asleep' /\ CallsSound'
  BY <1>1, <1>2, <1>3, CallTyped
<1>5. TypeDurable' /\ LinksKnown' /\ CompletedIsResolved' /\ WorkSound' /\ WorkIsExclusive'
  BY <1>3, RecordKeeps
<1>6. TypeMemory' /\ TypeBoot'
  BY <1>3 DEF IInv, TypeMemory, TypeBoot
<1>7. QED
  BY <1>4, <1>5, <1>6 DEF IInv

LEMMA EnqueueRecordRaisesStep ==
    ASSUME IInv, NEW p \in Producers, EnqueueRecordRaises(p)
    PROVE  IInv'
<1>1. PICK k \in Keys : producer[p].item = Fresh(k) /\ producer[p].item[2] = k /\ Fresh(k) \in Items
  BY CallRuns DEF EnqueueRecordRaises
<1>2. boot = "up"
  BY CallRuns DEF EnqueueRecordRaises
<1>3. /\ \/ UNCHANGED <<inbox, receivedAt>>
         \/ Update(k, Recorded(inbox[k])) /\ Receive(k)
      /\ Call(p, "idle", NoItem) /\ Raises
      /\ UNCHANGED <<incidents, queue, owned, done, worker, boot, plan>>
  BY <1>1 DEF EnqueueRecordRaises
<1>4. TypeWork' /\ Asleep' /\ CallsSound'
  BY <1>2, <1>3, CallTyped
<1>5. TypeDurable' /\ LinksKnown' /\ CompletedIsResolved' /\ WorkSound' /\ WorkIsExclusive'
  <2>1. CASE UNCHANGED <<inbox, receivedAt>>
    <3>1. WorkSound' /\ WorkIsExclusive'
      BY <1>3, <2>1, WorkKept
    <3>2. QED
      BY <1>3, <2>1, <3>1 DEF IInv, TypeDurable, LinksKnown, KnownItems, CompletedIsResolved
  <2>2. CASE Update(k, Recorded(inbox[k])) /\ Receive(k)
    BY <1>3, <2>2, RecordKeeps
  <2>3. QED
    BY <1>3, <2>1, <2>2
<1>6. TypeMemory'
  BY <1>3 DEF IInv, TypeMemory
<1>7. TypeBoot'
  BY <1>3, BoundsAssumption DEF IInv, TypeBoot, Raises
<1>8. QED
  BY <1>4, <1>5, <1>6, <1>7 DEF IInv

LEMMA PutKeeps ==
    ASSUME IInv, NEW item \in KnownItems, HasRoom, queue' = Append(queue, item)
    PROVE  /\ queue' \in Seq(Items) /\ Len(queue') <= QueueCapacity
           /\ \A n \in DOMAIN queue' : queue'[n] \in KnownItems
<1>1. item \in Items /\ queue \in Seq(Items)
  BY KnownShape DEF IInv, TypeMemory
<1>2. Len(queue') = Len(queue) + 1 /\ Len(queue) \in Nat /\ queue' \in Seq(Items)
  BY <1>1
<1>3. Len(queue') <= QueueCapacity
  BY <1>2, BoundsAssumption DEF HasRoom
<1>4. \A n \in DOMAIN queue' : queue'[n] = item \/ (n \in DOMAIN queue /\ queue'[n] = queue[n])
  BY <1>1
<1>5. QED
  BY <1>2, <1>3, <1>4 DEF IInv, LinksKnown

LEMMA EnqueueClaimStep ==
    ASSUME IInv, NEW p \in Producers, EnqueueClaim(p) \/ EnqueuePut(p)
    PROVE  IInv'
<1>1. PICK k \in Keys : producer[p].item = Fresh(k) /\ producer[p].item[2] = k /\ Fresh(k) \in Items
  BY CallRuns DEF EnqueueClaim, EnqueuePut
<1>2. boot = "up"
  BY CallRuns DEF EnqueueClaim, EnqueuePut
<1>3. /\ owned' = owned \cup {Fresh(k)} \/ owned' = owned
      /\ \/ HasRoom /\ queue' = Append(queue, Fresh(k)) /\ Call(p, "idle", NoItem)
         \/ UNCHANGED queue /\ Call(p, "blocked", Fresh(k))
      /\ UNCHANGED <<inbox, receivedAt, incidents, done, worker, boot, plan, crashes, faults>>
  BY <1>1 DEF EnqueueClaim, EnqueuePut, durable, budget
<1>4. TypeWork' /\ Asleep' /\ CallsSound'
  BY <1>1, <1>2, <1>3, CallTyped
<1>5. WorkSound' /\ WorkIsExclusive'
  BY <1>3, WorkKept
<1>6. TypeDurable' /\ TypeBoot' /\ CompletedIsResolved'
  BY <1>3 DEF IInv, TypeDurable, TypeBoot, CompletedIsResolved
<1>7. TypeMemory' /\ LinksKnown'
  <2>1. Fresh(k) \in KnownItems
    BY DEF KnownItems
  <2>2. CASE HasRoom /\ queue' = Append(queue, Fresh(k))
    <3>1. /\ queue' \in Seq(Items) /\ Len(queue') <= QueueCapacity
          /\ \A n \in DOMAIN queue' : queue'[n] \in KnownItems
      BY <2>1, <2>2, PutKeeps
    <3>2. QED
      BY <1>1, <1>3, <3>1 DEF IInv, TypeMemory, LinksKnown, KnownItems
  <2>3. CASE UNCHANGED queue
    BY <1>1, <1>3, <2>3 DEF IInv, TypeMemory, LinksKnown, KnownItems
  <2>4. QED
    BY <1>3, <2>2, <2>3
<1>8. QED
  BY <1>4, <1>5, <1>6, <1>7 DEF IInv

LEMMA DismissStep ==
    ASSUME IInv, NEW k \in Keys, Dismiss(k)
    PROVE  IInv'
<1>1. /\ boot = "up" /\ Dismissable(inbox[k]) /\ Update(k, Dismissed(inbox[k]))
      /\ UNCHANGED <<receivedAt, incidents, queue, owned, done, producer, worker, boot, plan, crashes,
                     faults>>
  BY DEF Dismiss, volatile, budget
<1>2. inbox[k] \in Documents
  BY DEF IInv, TypeDurable
<1>3. /\ inbox' \in [Keys -> Documents]
      /\ \A l \in Keys : Mild(inbox[l], inbox'[l])
      /\ \A l \in Keys \ {k} : inbox'[l] = inbox[l]
  BY <1>1, <1>2, MildOperations, MildUpdate
<1>4. \A l \in Keys : inbox[l].state = "PROCESSING" => inbox'[l] = inbox[l]
  BY <1>1, <1>3 DEF Dismissable
<1>5. CompletedIsResolved' /\ LinksKnown'
  BY <1>1, <1>3, MildInbox DEF IInv, LinksKnown, KnownItems
<1>6. WorkSound' /\ WorkIsExclusive'
  BY <1>1, <1>4, WorkKept
<1>7. TypeDurable' /\ TypeMemory' /\ TypeWork' /\ TypeBoot' /\ Asleep' /\ CallsSound'
  BY <1>1, <1>3 DEF IInv, TypeDurable, TypeMemory, TypeWork, TypeBoot, Asleep, CallsSound
<1>8. QED
  BY <1>5, <1>6, <1>7 DEF IInv

-----------------------------------------------------------------------------
(* The consumer.                                                           *)

(* What the consumer's steps that keep memory and process share.           *)
LEMMA WorkTyped ==
    ASSUME IInv, worker.pc # "idle", UNCHANGED <<producer, boot>>, worker' \in [pc : WorkerSteps,
             item : Items \cup {NoItem}, incident : {NoIncident} \cup Incidents]
    PROVE  boot = "up" /\ TypeWork' /\ Asleep' /\ CallsSound'
<1>1. boot = "up"
  BY DEF IInv, Asleep, IdleWorker
<1>2. QED
  BY <1>1 DEF IInv, TypeWork, Asleep, CallsSound

LEMMA WorkItem ==
    ASSUME IInv, worker.pc # "idle"
    PROVE  /\ worker.item \in KnownItems /\ worker.item \in Items
           /\ IsFresh(worker.item) => Key \in Keys /\ inbox[Key] \in Documents
                                      /\ worker.item = Fresh(Key)
           /\ ~ IsFresh(worker.item) => Key \in DOMAIN incidents
  BY KnownShape, ItemShape DEF IInv, WorkSound, TypeDurable, Key

LEMMA TakeStep == IInv /\ Take => IInv'
<1> SUFFICES ASSUME IInv, Take PROVE IInv'
  OBVIOUS
<1>1. /\ boot = "up" /\ queue # <<>> /\ queue' = Tail(queue)
      /\ worker' = [pc |-> "taken", item |-> Head(queue), incident |-> NoIncident]
      /\ UNCHANGED <<inbox, receivedAt, incidents, owned, done, producer, boot, plan, crashes, faults>>
  BY DEF Take, durable, budget
<1>2. queue \in Seq(Items) /\ Head(queue) = queue[1] /\ 1 \in DOMAIN queue /\ Head(queue) \in Items
  BY <1>1 DEF IInv, TypeMemory
<1>3. /\ queue' \in Seq(Items) /\ Len(queue') <= QueueCapacity
      /\ \A n \in DOMAIN queue' : n + 1 \in DOMAIN queue /\ queue'[n] = queue[n + 1]
  BY <1>1, <1>2, BoundsAssumption DEF IInv, TypeMemory
<1>4. TypeDurable' /\ TypeMemory' /\ TypeBoot' /\ CompletedIsResolved' /\ CallsSound'
  BY <1>1, <1>3 DEF IInv, TypeDurable, TypeMemory, TypeBoot, CompletedIsResolved, CallsSound
<1>5. TypeWork' /\ Asleep'
  BY <1>1, <1>2 DEF IInv, TypeWork, WorkerSteps, Asleep
<1>6. LinksKnown'
  BY <1>1, <1>3 DEF IInv, LinksKnown, KnownItems
<1>7. WorkSound' /\ WorkIsExclusive'
  <2>1. worker'.pc = "taken" /\ worker'.item \in KnownItems
    BY <1>1, <1>2 DEF IInv, LinksKnown
  <2>2. KnownItems' = KnownItems
    BY <1>1 DEF KnownItems
  <2>3. QED
    BY <2>1, <2>2 DEF WorkSound, WorkIsExclusive, Handling
<1>8. QED
  BY <1>4, <1>5, <1>6, <1>7 DEF IInv

LEMMA MarkProcessingStep == IInv /\ MarkProcessing => IInv'
<1> SUFFICES ASSUME IInv, MarkProcessing PROVE IInv'
  OBVIOUS
<1>1. /\ worker.pc = "taken" /\ IsFresh(worker.item) /\ ProcessingFound(inbox[Key])
      /\ Update(Key, Processing(inbox[Key])) /\ worker' = [worker EXCEPT !.pc = "handling"]
      /\ UNCHANGED <<receivedAt, incidents, queue, owned, done, producer, boot, plan, crashes, faults>>
  BY DEF MarkProcessing, At, Goto, budget
<1>2. /\ worker.item \in KnownItems /\ worker.item \in Items /\ Key \in Keys
      /\ inbox[Key] \in Documents
  BY <1>1, WorkItem
<1>3. /\ inbox' \in [Keys -> Documents] /\ inbox'[Key] = Processing(inbox[Key])
      /\ \A l \in Keys : Mild(inbox[l], inbox'[l])
  BY <1>1, <1>2, MildOperations, MildUpdate
<1>4. inbox'[Key].state = "PROCESSING"
  BY <1>1, <1>2, <1>3 DEF ProcessingFound, Processing, Move, Open, Documents
<1>5. worker'.pc = "handling" /\ worker'.item = worker.item
      /\ worker' \in [pc : WorkerSteps, item : Items \cup {NoItem},
                      incident : {NoIncident} \cup Incidents]
  BY <1>1 DEF IInv, TypeWork, WorkerSteps
<1>6. TypeWork' /\ Asleep' /\ CallsSound'
  BY <1>1, <1>5, WorkTyped
<1>7. TypeDurable' /\ TypeMemory' /\ TypeBoot'
  BY <1>1, <1>3 DEF IInv, TypeDurable, TypeMemory, TypeBoot
<1>8. CompletedIsResolved' /\ LinksKnown'
  BY <1>1, <1>3, MildInbox DEF IInv, LinksKnown, KnownItems
<1>9. WorkSound'
  BY <1>1, <1>2, <1>5 DEF WorkSound, KnownItems
<1>10. WorkIsExclusive'
  BY <1>4, <1>5 DEF WorkIsExclusive, Key
<1>11. QED
  BY <1>6, <1>7, <1>8, <1>9, <1>10 DEF IInv

(* The item is over: treated, or given up.                                 *)
LEMMA WorkEnds ==
    ASSUME IInv, worker.pc # "idle", Finish \/ (Drop /\ done' = done), UNCHANGED <<queue, producer, boot>>
    PROVE  /\ TypeMemory' /\ TypeWork' /\ Asleep' /\ CallsSound' /\ WorkSound' /\ WorkIsExclusive'
           /\ worker' = IdleWorker /\ owned' = owned \ {worker.item}
<1>1. worker' = IdleWorker /\ owned' = owned \ {worker.item}
  BY DEF Finish, Drop
<1>2. worker.item \in Items
  BY WorkItem
<1>3. done' \in Seq(Items) /\ Len(done') <= DedupCapacity
  <2>1. done \in Seq(Items) /\ Len(done) <= DedupCapacity /\ Len(done) \in Nat
        /\ DedupCapacity \in Nat \ {0}
    BY BoundsAssumption DEF IInv, TypeMemory
  <2> DEFINE kept == IF Len(done) >= DedupCapacity THEN Tail(done) ELSE done
  <2>2. kept \in Seq(Items) /\ Len(kept) + 1 <= DedupCapacity
    <3>1. CASE Len(done) >= DedupCapacity
      <4>1. done # <<>>
        BY <2>1, <3>1
      <4>2. Tail(done) \in Seq(Items) /\ Len(Tail(done)) = Len(done) - 1
        BY <2>1, <4>1
      <4>3. QED
        BY <2>1, <3>1, <4>2
    <3>2. CASE ~ (Len(done) >= DedupCapacity)
      BY <2>1, <3>2
    <3>3. QED
      BY <3>1, <3>2
  <2>3. done' = done \/ done' = Append(kept, worker.item)
    BY DEF Finish, Remember
  <2> HIDE DEF kept
  <2>4. Append(kept, worker.item) \in Seq(Items)
        /\ Len(Append(kept, worker.item)) = Len(kept) + 1
    BY <1>2, <2>2
  <2>5. QED
    BY <2>1, <2>2, <2>3, <2>4
<1>4. TypeMemory'
  BY <1>1, <1>3 DEF IInv, TypeMemory
<1>5. worker' \in [pc : WorkerSteps, item : Items \cup {NoItem},
                   incident : {NoIncident} \cup Incidents]
  BY <1>1 DEF IdleWorker, WorkerSteps
<1>6. TypeWork' /\ Asleep' /\ CallsSound'
  BY <1>5, WorkTyped
<1>7. WorkSound' /\ WorkIsExclusive'
  BY <1>1 DEF WorkSound, WorkIsExclusive, Handling, IdleWorker
<1>8. QED
  BY <1>1, <1>4, <1>6, <1>7

LEMMA SkipStep == IInv /\ (SkipDismissed \/ GiveBackRaises) => IInv'
<1> SUFFICES ASSUME IInv, SkipDismissed \/ GiveBackRaises PROVE IInv'
  OBVIOUS
<1>1. /\ worker.pc # "idle"
      /\ Finish \/ (Drop /\ done' = done)
      /\ UNCHANGED <<inbox, receivedAt, incidents, queue, producer, boot, plan>>
      /\ UNCHANGED <<crashes, faults>> \/ Raises
  BY DEF SkipDismissed, GiveBackRaises, At, durable, budget
<1>2. TypeMemory' /\ TypeWork' /\ Asleep' /\ CallsSound' /\ WorkSound' /\ WorkIsExclusive'
  BY <1>1, WorkEnds
<1>3. TypeBoot'
  BY <1>1, BoundsAssumption DEF IInv, TypeBoot, Raises
<1>4. TypeDurable' /\ LinksKnown' /\ CompletedIsResolved'
  BY <1>1 DEF IInv, TypeDurable, LinksKnown, KnownItems, CompletedIsResolved
<1>5. QED
  BY <1>2, <1>3, <1>4 DEF IInv

LEMMA FailingStep == IInv /\ (RefuseProcessing \/ ProcessingRaises) => IInv'
<1> SUFFICES ASSUME IInv, RefuseProcessing \/ ProcessingRaises PROVE IInv'
  OBVIOUS
<1>1. /\ worker.pc # "idle" /\ worker' = [worker EXCEPT !.pc = "failing"]
      /\ UNCHANGED <<inbox, receivedAt, incidents, queue, owned, done, producer, boot, plan>>
      /\ UNCHANGED <<crashes, faults>> \/ Raises
  BY DEF RefuseProcessing, ProcessingRaises, At, Goto, durable, budget
<1>2. worker'.pc = "failing" /\ worker'.item = worker.item
      /\ worker' \in [pc : WorkerSteps, item : Items \cup {NoItem},
                      incident : {NoIncident} \cup Incidents]
  BY <1>1 DEF IInv, TypeWork, WorkerSteps
<1>3. TypeWork' /\ Asleep' /\ CallsSound'
  BY <1>1, <1>2, WorkTyped
<1>4. TypeBoot'
  BY <1>1, BoundsAssumption DEF IInv, TypeBoot, Raises
<1>5. TypeDurable' /\ TypeMemory' /\ LinksKnown' /\ CompletedIsResolved'
  BY <1>1 DEF IInv, TypeDurable, TypeMemory, LinksKnown, KnownItems, CompletedIsResolved
<1>6. WorkSound' /\ WorkIsExclusive'
  BY <1>1, <1>2, WorkItem DEF WorkSound, WorkIsExclusive, Handling, KnownItems
<1>7. QED
  BY <1>3, <1>4, <1>5, <1>6 DEF IInv

LEMMA MarkIncidentProcessingStep == IInv /\ MarkIncidentProcessing => IInv'
<1> SUFFICES ASSUME IInv, MarkIncidentProcessing PROVE IInv'
  OBVIOUS
<1>1. /\ worker.pc = "taken" /\ ~ IsFresh(worker.item)
      /\ inbox' = IncidentProcessing(inbox, Key)
      /\ worker' = [worker EXCEPT !.pc = "waiting", !.incident = Key]
      /\ UNCHANGED <<receivedAt, incidents, queue, owned, done, producer, boot, plan, crashes, faults>>
  BY DEF MarkIncidentProcessing, At, budget
<1>2. worker.item \in KnownItems /\ worker.item \in Items /\ Key \in DOMAIN incidents /\ Key \in Incidents
  BY <1>1, WorkItem, ItemShape DEF Key
<1>3. /\ inbox' \in [Keys -> Documents]
      /\ \A l \in Keys : Mild(inbox[l], inbox'[l])
  <2>1. \A l \in Keys : inbox[l] \in Documents
    BY DEF IInv, TypeDurable
  <2>2. \A l \in Keys : inbox'[l] = inbox[l]
          \/ inbox'[l] = Move(inbox[l], {"WAITING", "RECOVERY"}, "PROCESSING")
    BY <1>1 DEF IncidentProcessing, OfIncident
  <2>3. \A l \in Keys : Mild(inbox[l], inbox'[l])
    BY <2>1, <2>2, MildOperations
  <2>4. QED
    BY <1>1, <2>3 DEF IncidentProcessing, OfIncident, Mild
<1>4. worker'.pc = "waiting" /\ worker'.item = worker.item /\ worker'.incident = Key
      /\ worker' \in [pc : WorkerSteps, item : Items \cup {NoItem},
                      incident : {NoIncident} \cup Incidents]
  BY <1>1, <1>2 DEF IInv, TypeWork, WorkerSteps
<1>5. TypeWork' /\ Asleep' /\ CallsSound'
  BY <1>1, <1>4, WorkTyped
<1>6. TypeDurable' /\ TypeMemory' /\ TypeBoot'
  BY <1>1, <1>3 DEF IInv, TypeDurable, TypeMemory, TypeBoot
<1>7. CompletedIsResolved' /\ LinksKnown'
  BY <1>1, <1>3, MildInbox DEF IInv, LinksKnown, KnownItems
<1>8. WorkSound' /\ WorkIsExclusive'
  BY <1>1, <1>2, <1>4 DEF WorkSound, WorkIsExclusive, KnownItems, Key
<1>9. QED
  BY <1>5, <1>6, <1>7, <1>8 DEF IInv

(* The incidents grow, and a resolved one stays resolved.                  *)
LEMMA IncidentsGrow ==
    ASSUME IInv, UNCHANGED <<inbox, receivedAt, queue, plan>>,
           incidents' \in Seq({"ACTIVE", "REVIEW", "DONE", "GONE"}), Len(incidents') <= MaxIncidents,
           \A i \in DOMAIN incidents : /\ i \in DOMAIN incidents'
                                       /\ incidents[i] = "DONE" => incidents'[i] = "DONE"
    PROVE  TypeDurable' /\ LinksKnown' /\ CompletedIsResolved' /\ KnownItems \subseteq KnownItems'
<1>1. KnownItems \subseteq KnownItems'
  BY DEF KnownItems
<1>2. TypeDurable' /\ CompletedIsResolved'
  BY DEF IInv, TypeDurable, CompletedIsResolved
<1>3. LinksKnown'
  BY <1>1 DEF IInv, LinksKnown
<1>4. QED
  BY <1>1, <1>2, <1>3

(* The incident the consumer is on changes its status.                     *)
LEMMA StatusGrows ==
    ASSUME IInv, NEW i \in DOMAIN incidents, incidents[i] # "DONE",
           NEW status \in {"REVIEW", "DONE", "GONE"}, incidents' = [incidents EXCEPT ![i] = status]
    PROVE  /\ incidents' \in Seq({"ACTIVE", "REVIEW", "DONE", "GONE"}) /\ Len(incidents') <= MaxIncidents
           /\ DOMAIN incidents' = DOMAIN incidents /\ incidents'[i] = status
           /\ \A j \in DOMAIN incidents : /\ j \in DOMAIN incidents'
                                          /\ incidents[j] = "DONE" => incidents'[j] = "DONE"
  BY DEF IInv, TypeDurable

LEMMA AdmitStep ==
    ASSUME IInv, OpenIncident \/ \E i \in Incidents : Correlate(i)
    PROVE  IInv'
<1>1. PICK i \in Incidents :
        /\ worker.pc = "handling" /\ worker' = [worker EXCEPT !.pc = "admitted", !.incident = i]
        /\ \/ incidents' = incidents /\ i \in DOMAIN incidents
           \/ /\ incidents' = Append(incidents, "ACTIVE") /\ i = Len(incidents) + 1
              /\ Len(incidents) < MaxIncidents
        /\ UNCHANGED <<inbox, receivedAt, queue, owned, done, producer, boot, plan, crashes, faults>>
  <2>1. CASE OpenIncident
    <3>1. Len(incidents) + 1 \in Incidents
      BY <2>1, BoundsAssumption DEF OpenIncident, Incidents, IInv, TypeDurable
    <3>2. QED
      BY <2>1, <3>1 DEF OpenIncident, At, budget
  <2>2. CASE \E i \in Incidents : Correlate(i)
    BY <2>2 DEF Correlate, At, durable, budget
  <2>3. QED
    BY <2>1, <2>2
<1>2. /\ incidents' \in Seq({"ACTIVE", "REVIEW", "DONE", "GONE"}) /\ Len(incidents') <= MaxIncidents
      /\ i \in DOMAIN incidents'
      /\ \A j \in DOMAIN incidents : /\ j \in DOMAIN incidents'
                                     /\ incidents[j] = "DONE" => incidents'[j] = "DONE"
  <2>1. CASE incidents' = incidents /\ i \in DOMAIN incidents
    BY <2>1 DEF IInv, TypeDurable
  <2>2. CASE /\ incidents' = Append(incidents, "ACTIVE") /\ i = Len(incidents) + 1
             /\ Len(incidents) < MaxIncidents
    BY <2>2, BoundsAssumption DEF IInv, TypeDurable
  <2>3. QED
    BY <1>1, <2>1, <2>2
<1>3. TypeDurable' /\ LinksKnown' /\ CompletedIsResolved' /\ KnownItems \subseteq KnownItems'
  BY <1>1, <1>2, IncidentsGrow
<1>4. worker'.pc = "admitted" /\ worker'.item = worker.item /\ worker'.incident = i
      /\ worker' \in [pc : WorkerSteps, item : Items \cup {NoItem},
                      incident : {NoIncident} \cup Incidents]
  BY <1>1 DEF IInv, TypeWork, WorkerSteps
<1>5. TypeWork' /\ Asleep' /\ CallsSound'
  BY <1>1, <1>4, WorkTyped
<1>6. TypeMemory' /\ TypeBoot'
  BY <1>1 DEF IInv, TypeMemory, TypeBoot
<1>7. IsFresh(worker.item) /\ worker.item \in KnownItems
  BY <1>1 DEF IInv, WorkSound
<1>8. WorkSound'
  BY <1>2, <1>3, <1>4, <1>7 DEF WorkSound
<1>9. WorkIsExclusive'
  BY <1>1, <1>4 DEF IInv, WorkIsExclusive, Handling, Key
<1>10. QED
  BY <1>3, <1>5, <1>6, <1>8, <1>9 DEF IInv

LEMMA LinkStep == IInv /\ Link => IInv'
<1> SUFFICES ASSUME IInv, Link PROVE IInv'
  OBVIOUS
<1>1. /\ worker.pc = "admitted" /\ Update(Key, Linked(inbox[Key], worker.incident))
      /\ worker' = [worker EXCEPT !.pc = "waiting"]
      /\ UNCHANGED <<receivedAt, incidents, queue, owned, done, producer, boot, plan, crashes, faults>>
  BY DEF Link, At, Goto, budget
<1>2. IsFresh(worker.item) /\ worker.incident \in DOMAIN incidents /\ worker.incident \in Incidents
  BY <1>1, BoundsAssumption DEF IInv, WorkSound, TypeDurable, Incidents
<1>3. Key \in Keys /\ inbox[Key] \in Documents /\ inbox[Key].state = "PROCESSING"
  BY <1>1, <1>2, WorkItem DEF IInv, WorkIsExclusive, Handling
<1> DEFINE doc == [state |-> "PROCESSING", incident |-> worker.incident]
<1>4. inbox' = [inbox EXCEPT ![Key] = doc] /\ doc \in Documents
  BY <1>1, <1>2, <1>3, LinkCompletes DEF Update
<1>5. doc.state = "PROCESSING" /\ doc.incident = worker.incident
  OBVIOUS
<1> HIDE DEF doc
<1>6. /\ inbox' \in [Keys -> Documents] /\ inbox'[Key] = doc
      /\ \A k \in Keys \ {Key} : inbox'[k] = inbox[k]
  BY <1>3, <1>4 DEF IInv, TypeDurable
<1>7. TypeDurable' /\ TypeMemory' /\ TypeBoot'
  BY <1>1, <1>6 DEF IInv, TypeDurable, TypeMemory, TypeBoot
<1>8. worker'.pc = "waiting" /\ worker'.item = worker.item /\ worker'.incident = worker.incident
      /\ worker' \in [pc : WorkerSteps, item : Items \cup {NoItem},
                      incident : {NoIncident} \cup Incidents]
  BY <1>1 DEF IInv, TypeWork, WorkerSteps
<1>9. TypeWork' /\ Asleep' /\ CallsSound'
  BY <1>1, <1>8, WorkTyped
<1>10. CompletedIsResolved'
  BY <1>1, <1>5, <1>6 DEF IInv, CompletedIsResolved
<1>11. LinksKnown'
  BY <1>1, <1>2, <1>5, <1>6 DEF IInv, LinksKnown, KnownItems
<1>12. WorkSound' /\ WorkIsExclusive'
  BY <1>1, <1>2, <1>5, <1>6, <1>8 DEF IInv, WorkSound, WorkIsExclusive, KnownItems, Key
<1>13. QED
  BY <1>7, <1>9, <1>10, <1>11, <1>12 DEF IInv

LEMMA ReviewStep ==
    ASSUME IInv, InvestigationCompletes \/ ReviewCompletes \/ InvestigationFails
    PROVE  IInv'
<1>1. PICK status \in {"REVIEW", "DONE", "GONE"} :
        /\ incidents' = [incidents EXCEPT ![worker.incident] = status]
        /\ worker.pc \in {"waiting", "reviewing"}
        /\ incidents[worker.incident] # "DONE"
        /\ worker' = [worker EXCEPT !.pc = IF status = "REVIEW" THEN "reviewing" ELSE "waiting"]
        /\ UNCHANGED <<inbox, receivedAt, queue, owned, done, producer, boot, plan, crashes, faults>>
  <2>1. CASE InvestigationCompletes
    BY <2>1 DEF InvestigationCompletes, At, Goto, SetIncident, budget
  <2>2. CASE ReviewCompletes
    BY <2>2 DEF ReviewCompletes, At, Goto, SetIncident, budget, IInv, WorkSound
  <2>3. CASE InvestigationFails
    <3>1. worker = [worker EXCEPT !.pc = "waiting"]
      BY <2>3 DEF InvestigationFails, At, IInv, TypeWork
    <3>2. QED
      BY <2>3, <3>1 DEF InvestigationFails, At, SetIncident, volatile, budget
  <2>4. QED
    BY <2>1, <2>2, <2>3
<1>2. worker.incident \in DOMAIN incidents
  BY <1>1 DEF IInv, WorkSound
<1>3. /\ incidents' \in Seq({"ACTIVE", "REVIEW", "DONE", "GONE"}) /\ Len(incidents') <= MaxIncidents
      /\ DOMAIN incidents' = DOMAIN incidents /\ incidents'[worker.incident] = status
      /\ \A j \in DOMAIN incidents : /\ j \in DOMAIN incidents'
                                     /\ incidents[j] = "DONE" => incidents'[j] = "DONE"
  BY <1>1, <1>2, StatusGrows
<1>4. TypeDurable' /\ LinksKnown' /\ CompletedIsResolved' /\ KnownItems \subseteq KnownItems'
  BY <1>1, <1>3, IncidentsGrow
<1>5. worker'.pc = (IF status = "REVIEW" THEN "reviewing" ELSE "waiting")
      /\ worker'.item = worker.item /\ worker'.incident = worker.incident
      /\ worker' \in [pc : WorkerSteps, item : Items \cup {NoItem},
                      incident : {NoIncident} \cup Incidents]
  BY <1>1 DEF IInv, TypeWork, WorkerSteps
<1>6. TypeWork' /\ Asleep' /\ CallsSound'
  BY <1>1, <1>5, WorkTyped
<1>7. TypeMemory' /\ TypeBoot'
  BY <1>1 DEF IInv, TypeMemory, TypeBoot
<1>8. WorkSound'
  BY <1>1, <1>2, <1>3, <1>4, <1>5 DEF IInv, WorkSound, Key
<1>9. WorkIsExclusive'
  BY <1>1, <1>5 DEF IInv, WorkIsExclusive, Handling, Key
<1>10. QED
  BY <1>4, <1>6, <1>7, <1>8, <1>9 DEF IInv

(* Documents become COMPLETED only with their incident resolved.           *)
LEMMA Settled ==
    ASSUME IInv, inbox' \in [Keys -> Documents], incidents' = incidents,
           \A k \in Keys : \/ Mild(inbox[k], inbox'[k])
                           \/ /\ inbox'[k].incident = inbox[k].incident
                              /\ inbox[k].incident \in DOMAIN incidents
                              /\ incidents[inbox[k].incident] = "DONE"
    PROVE  /\ CompletedIsResolved'
           /\ \A k \in Keys : inbox'[k].incident = NoIncident \/ inbox'[k].incident \in DOMAIN incidents'
<1>1. ASSUME NEW k \in Keys, inbox'[k].state = "COMPLETED"
      PROVE  inbox'[k].incident \in DOMAIN incidents' /\ incidents'[inbox'[k].incident] = "DONE"
  BY <1>1 DEF IInv, CompletedIsResolved, Mild
<1>2. QED
  BY <1>1 DEF CompletedIsResolved, IInv, LinksKnown, Mild

LEMMA CompleteStep == IInv /\ Complete => IInv'
<1> SUFFICES ASSUME IInv, Complete PROVE IInv'
  OBVIOUS
<1>1. /\ worker.pc = "waiting" /\ incidents[worker.incident] = "DONE" /\ Finish
      /\ inbox' = IF IsFresh(worker.item) THEN [inbox EXCEPT ![Key] = Completed(@)]
                                          ELSE IncidentCompleted(inbox, Key)
      /\ UNCHANGED <<receivedAt, incidents, queue, producer, boot, plan, crashes, faults>>
  BY DEF Complete, At, budget
<1>2. /\ worker.incident \in DOMAIN incidents
      /\ worker.incident = IF IsFresh(worker.item) THEN inbox[Key].incident ELSE Key
  BY <1>1 DEF IInv, WorkSound
<1>3. \A k \in Keys : inbox[k] \in Documents /\ Completed(inbox[k]) \in Documents
                      /\ Completed(inbox[k]).incident = inbox[k].incident /\ Mild(inbox[k], inbox[k])
  BY LinkCompletes, MildOperations DEF IInv, TypeDurable
<1>4. inbox' \in [Keys -> Documents]
      /\ \A k \in Keys : \/ inbox'[k] = inbox[k]
                         \/ /\ inbox'[k] = Completed(inbox[k])
                            /\ inbox[k].incident = worker.incident
  <2>1. CASE IsFresh(worker.item)
    <3>1. Key \in Keys /\ inbox' = [inbox EXCEPT ![Key] = Completed(inbox[Key])]
      BY <1>1, <2>1, WorkItem
    <3>2. QED
      BY <1>2, <1>3, <2>1, <3>1 DEF IInv, TypeDurable
  <2>2. CASE ~ IsFresh(worker.item)
    <3>1. \A k \in Keys : Move(inbox[k], Open, "COMPLETED") = Completed(inbox[k])
      BY DEF Completed
    <3>2. QED
      BY <1>1, <1>2, <1>3, <2>2, <3>1 DEF IncidentCompleted, OfIncident
  <2>3. QED
    BY <2>1, <2>2
<1>5. \A k \in Keys : \/ Mild(inbox[k], inbox'[k])
                      \/ /\ inbox'[k].incident = inbox[k].incident
                         /\ inbox[k].incident \in DOMAIN incidents
                         /\ incidents[inbox[k].incident] = "DONE"
  BY <1>1, <1>2, <1>3, <1>4
<1>6. CompletedIsResolved' /\ LinksKnown'
  BY <1>1, <1>4, <1>5, Settled DEF IInv, LinksKnown, KnownItems
<1>7. TypeMemory' /\ TypeWork' /\ Asleep' /\ CallsSound' /\ WorkSound' /\ WorkIsExclusive'
  BY <1>1, WorkEnds
<1>8. TypeDurable' /\ TypeBoot'
  BY <1>1, <1>4 DEF IInv, TypeDurable, TypeBoot
<1>9. QED
  BY <1>6, <1>7, <1>8 DEF IInv

LEMMA GivenBackMild ==
    ASSUME IInv, worker.pc # "idle", inbox' = GivenBack
    PROVE  inbox' \in [Keys -> Documents] /\ \A k \in Keys : Mild(inbox[k], inbox'[k])
<1>1. \A k \in Keys : inbox[k] \in Documents /\ Mild(inbox[k], inbox[k])
                      /\ Mild(inbox[k], Retryable(inbox[k]))
  BY MildOperations DEF IInv, TypeDurable
<1>2. CASE IsFresh(worker.item)
  <2>1. Key \in Keys /\ Update(Key, Retryable(inbox[Key]))
    BY <1>2, WorkItem DEF GivenBack, Update
  <2>2. QED
    BY <1>1, <2>1, MildUpdate
<1>3. CASE ~ IsFresh(worker.item)
  BY <1>1, <1>3 DEF GivenBack, IInv, TypeDurable
<1>4. QED
  BY <1>2, <1>3

LEMMA GiveBackStep == IInv /\ GiveBack => IInv'
<1> SUFFICES ASSUME IInv, GiveBack PROVE IInv'
  OBVIOUS
<1>1. /\ worker.pc # "idle" /\ inbox' = GivenBack /\ Drop
      /\ UNCHANGED <<receivedAt, incidents, queue, done, producer, boot, plan, crashes, faults>>
  BY DEF GiveBack, At, budget
<1>2. inbox' \in [Keys -> Documents] /\ \A k \in Keys : Mild(inbox[k], inbox'[k])
  BY <1>1, GivenBackMild
<1>3. CompletedIsResolved' /\ LinksKnown'
  BY <1>1, <1>2, MildInbox DEF IInv, LinksKnown, KnownItems
<1>4. TypeMemory' /\ TypeWork' /\ Asleep' /\ CallsSound' /\ WorkSound' /\ WorkIsExclusive'
  BY <1>1, WorkEnds
<1>5. TypeDurable' /\ TypeBoot'
  BY <1>1, <1>2 DEF IInv, TypeDurable, TypeBoot
<1>6. QED
  BY <1>3, <1>4, <1>5 DEF IInv

-----------------------------------------------------------------------------
(* The process ends and starts.                                            *)

LEMMA EndStep == IInv /\ (Crash \/ Stop) => IInv'
<1> SUFFICES ASSUME IInv, Crash \/ Stop PROVE IInv'
  OBVIOUS
<1>1. /\ queue' = <<>> /\ owned' = {} /\ done' = <<>> /\ plan' = NoPlan /\ boot' = "down"
      /\ producer' = [p \in Producers |-> IdleCall] /\ worker' = IdleWorker
      /\ crashes < MaxCrashes /\ crashes' = crashes + 1
      /\ UNCHANGED <<receivedAt, incidents, faults>>
  BY DEF Crash, Stop, LoseMemory, durable
<1>2. inbox' \in [Keys -> Documents] /\ \A k \in Keys : Mild(inbox[k], inbox'[k])
  <2>1. CASE Crash
    <3>1. inbox' = inbox
      BY <2>1 DEF Crash, durable
    <3>2. QED
      BY <3>1, MildOperations DEF IInv, TypeDurable
  <2>2. CASE Stop
    BY <2>2, GivenBackMild DEF Stop
  <2>3. QED
    BY <2>1, <2>2
<1>3. CompletedIsResolved' /\ LinksKnown'
  <2>1. DOMAIN queue' = {} /\ DOMAIN plan'.recovery = {}
    BY <1>1 DEF NoPlan
  <2>2. QED
    BY <1>1, <1>2, <2>1, MildInbox DEF LinksKnown
<1>4. TypeDurable' /\ TypeMemory'
  BY <1>1, <1>2, BoundsAssumption DEF IInv, TypeDurable, TypeMemory
<1>5. TypeWork' /\ Asleep' /\ CallsSound'
  BY <1>1 DEF TypeWork, Asleep, CallsSound, IdleCall, IdleWorker, WorkerSteps
<1>6. TypeBoot'
  <2>1. crashes' \in 0 .. MaxCrashes
    BY <1>1, BoundsAssumption DEF IInv, TypeBoot
  <2>2. plan' \in PlanType
    BY <1>1 DEF NoPlan
  <2>3. QED
    BY <1>1, <2>1, <2>2 DEF IInv, TypeBoot
<1>7. WorkSound' /\ WorkIsExclusive'
  BY <1>1 DEF WorkSound, WorkIsExclusive, Handling, IdleWorker
<1>8. QED
  BY <1>3, <1>4, <1>5, <1>6, <1>7 DEF IInv

(* While the process is not started, the volatile part of the invariant    *)
(* needs only the boot phase to be one before "up".                        *)
LEMMA AsleepKeeps ==
    ASSUME IInv, boot # "up", UNCHANGED <<producer, worker>>
    PROVE  TypeWork' /\ Asleep' /\ CallsSound' /\ WorkSound' /\ WorkIsExclusive'
<1>1. worker' = IdleWorker /\ producer' = [p \in Producers |-> IdleCall]
  BY DEF IInv, Asleep
<1>2. QED
  BY <1>1 DEF IInv, TypeWork, Asleep, CallsSound, WorkSound, WorkIsExclusive, Handling,
              IdleWorker, IdleCall

LEMMA DeleteIncidentStep ==
    ASSUME IInv, NEW i \in Incidents, DeleteIncident(i)
    PROVE  IInv'
<1>1. /\ boot = "down" /\ Raises /\ i \in DOMAIN incidents /\ incidents[i] # "DONE"
      /\ incidents' = [incidents EXCEPT ![i] = "GONE"]
      /\ UNCHANGED <<inbox, receivedAt, queue, owned, done, producer, worker, boot, plan>>
  BY DEF DeleteIncident, volatile
<1>2. /\ incidents' \in Seq({"ACTIVE", "REVIEW", "DONE", "GONE"}) /\ Len(incidents') <= MaxIncidents
      /\ \A j \in DOMAIN incidents : /\ j \in DOMAIN incidents'
                                     /\ incidents[j] = "DONE" => incidents'[j] = "DONE"
  BY <1>1, StatusGrows
<1>3. TypeDurable' /\ LinksKnown' /\ CompletedIsResolved'
  BY <1>1, <1>2, IncidentsGrow
<1>4. TypeWork' /\ Asleep' /\ CallsSound' /\ WorkSound' /\ WorkIsExclusive'
  BY <1>1, AsleepKeeps
<1>5. TypeMemory' /\ TypeBoot'
  BY <1>1, BoundsAssumption DEF IInv, TypeMemory, TypeBoot, Raises
<1>6. QED
  BY <1>3, <1>4, <1>5 DEF IInv

LEMMA BootResetStep == IInv /\ BootReset => IInv'
<1> SUFFICES ASSUME IInv, BootReset PROVE IInv'
  OBVIOUS
<1>1. /\ boot = "down" /\ boot' = "reset" /\ inbox' = Interrupted(inbox)
      /\ UNCHANGED <<receivedAt, incidents, queue, owned, done, producer, worker, plan, crashes, faults>>
  BY DEF BootReset, volatile, budget
<1>2. inbox' \in [Keys -> Documents] /\ \A k \in Keys : Mild(inbox[k], inbox'[k])
  <2>1. \A k \in Keys : inbox'[k] = Move(inbox[k], {"PROCESSING", "RECOVERY"}, "WAITING")
    BY <1>1 DEF Interrupted
  <2>2. \A k \in Keys : Mild(inbox[k], inbox'[k])
    BY <2>1, MildOperations DEF IInv, TypeDurable
  <2>3. QED
    BY <1>1, <2>2 DEF Interrupted, Mild
<1>3. CompletedIsResolved' /\ LinksKnown'
  BY <1>1, <1>2, MildInbox DEF IInv, LinksKnown, KnownItems
<1>4. TypeWork' /\ CallsSound' /\ WorkSound' /\ WorkIsExclusive' /\ Asleep'
  BY <1>1, AsleepKeeps
<1>5. TypeDurable' /\ TypeMemory' /\ TypeBoot'
  BY <1>1, <1>2 DEF IInv, TypeDurable, TypeMemory, TypeBoot
<1>6. QED
  BY <1>3, <1>4, <1>5 DEF IInv

(* What the startup reads: the incidents to recover, and the waiting       *)
(* documents oldest second first, up to the limit of the list.             *)
LEMMA RecoveryRead ==
    ASSUME TypeDurable, NEW recovery \in RecoveryObservations
    PROVE  /\ recovery \in Seq(Incidents) /\ Once(recovery)
           /\ \A i \in SeqSet(recovery) : i \in DOMAIN incidents /\ Recoverable(i)
           /\ Cardinality(Unfinished) <= IncidentLimit =>
                \A i \in DOMAIN incidents : Recoverable(i) => i \in SeqSet(recovery)
<1>1. PICK S \in Listings : recovery \in SetToSeqs({i \in S : Recoverable(i)})
  BY DEF RecoveryObservations
<1>2. IsFiniteSet(Unfinished) /\ Unfinished \subseteq DOMAIN incidents
      /\ DOMAIN incidents \subseteq Incidents
  <2>1. DOMAIN incidents = 1 .. Len(incidents) /\ Len(incidents) \in Int
        /\ Len(incidents) <= MaxIncidents
    BY DEF TypeDurable
  <2>2. IsFiniteSet(DOMAIN incidents) /\ DOMAIN incidents \subseteq Incidents
    BY <2>1, BoundsAssumption, FS_Interval DEF Incidents
  <2>3. QED
    BY <2>2, FS_Subset DEF Unfinished
<1>3. S \subseteq Unfinished /\ (Cardinality(S) < IncidentLimit => S = Unfinished)
  BY DEF Listings
<1> DEFINE R == {i \in S : Recoverable(i)}
<1>4. IsFiniteSet(R)
  BY <1>2, <1>3, FS_Subset
<1>5. recovery \in Seq(R) /\ Once(recovery) /\ SeqSet(recovery) = R
  BY <1>1, <1>4, SetToSeqsFacts
<1>6. R \subseteq Incidents
  BY <1>2, <1>3
<1>7. recovery \in Seq(Incidents)
  BY <1>5, <1>6
<1>8. \A i \in SeqSet(recovery) : i \in DOMAIN incidents /\ Recoverable(i)
  BY <1>2, <1>3, <1>5
<1>9. ASSUME Cardinality(Unfinished) <= IncidentLimit, NEW i \in DOMAIN incidents, Recoverable(i)
      PROVE  i \in SeqSet(recovery)
  <2>1. S = Unfinished
    <3>1. /\ Cardinality(S) \in Nat /\ Cardinality(Unfinished) \in Nat /\ IncidentLimit \in Nat
          /\ Cardinality(S) <= Cardinality(Unfinished)
          /\ Cardinality(S) = Cardinality(Unfinished) => S = Unfinished
      BY <1>2, <1>3, FS_Subset, FS_CardinalityType, BoundsAssumption
    <3>2. QED
      BY <1>3, <1>9, <3>1
  <2>2. QED
    BY <1>5, <1>9, <2>1 DEF Unfinished
<1>10. QED
  BY <1>5, <1>7, <1>8, <1>9

LEMMA WaitingRead ==
    ASSUME NEW list \in WaitingRecords
    PROVE  /\ list \in Seq(Keys) /\ Once(list) /\ SeqSet(list) \subseteq Waiting
           /\ \A n \in DOMAIN list, k \in Waiting :
                receivedAt[k] < receivedAt[list[n]] => \E m \in 1 .. n - 1 : list[m] = k
           /\ Cardinality(Waiting) <= ListLimit => SeqSet(list) = Waiting
<1>1. PICK S \in SUBSET Waiting : list \in SetToSeqs(S)
  BY DEF WaitingRecords, SetToAllKPermutations
<1>2. IsFiniteSet(Waiting) /\ Waiting \subseteq Keys
  BY KeysAssumption, FS_Subset DEF Waiting
<1>3. IsFiniteSet(S) /\ S \subseteq Keys
  BY <1>2, FS_Subset
<1>4. list \in Seq(S) /\ Len(list) = Cardinality(S) /\ Once(list) /\ SeqSet(list) = S
  BY <1>1, <1>3, SetToSeqsFacts
<1>5. list \in Seq(Keys)
  BY <1>3, <1>4
<1>6. ASSUME Cardinality(Waiting) <= ListLimit PROVE S = Waiting
  <2>1. Cardinality(Waiting) \in Nat
    BY <1>2, FS_CardinalityType
  <2>2. ListLength = Cardinality(Waiting)
    BY <1>6, <2>1, BoundsAssumption DEF ListLength
  <2>3. Cardinality(S) = Cardinality(Waiting)
    BY <1>4, <2>2 DEF WaitingRecords
  <2>4. QED
    BY <1>2, <2>3, FS_Subset
<1>7. QED
  BY <1>4, <1>5, <1>6 DEF WaitingRecords

LEMMA BootReads ==
    ASSUME TypeDurable, BootRead
    PROVE  /\ boot = "reset" /\ boot' = "scan"
           /\ UNCHANGED <<inbox, receivedAt, incidents, queue, owned, done, producer, worker,
                          crashes, faults>>
           /\ \E list \in WaitingRecords, recovery \in RecoveryObservations :
                /\ plan' = [read |-> list, left |-> Waiting \ SeqSet(list),
                            recovery |-> recovery, backlog |-> <<>>]
                /\ plan' \in PlanType
                /\ plan'.read = list /\ plan'.left = Waiting \ SeqSet(list)
                /\ plan'.recovery = recovery /\ plan'.backlog = <<>>
<1>1. PICK list \in WaitingRecords, recovery \in RecoveryObservations :
        plan' = [read |-> list, left |-> Waiting \ SeqSet(list),
                 recovery |-> recovery, backlog |-> <<>>]
  BY DEF BootRead
<1>2. list \in Seq(Keys) /\ recovery \in Seq(Incidents) /\ Waiting \subseteq Keys
  BY WaitingRead, RecoveryRead DEF Waiting
<1>3. plan' \in PlanType /\ plan'.read = list /\ plan'.left = Waiting \ SeqSet(list)
      /\ plan'.recovery = recovery /\ plan'.backlog = <<>>
  BY <1>1, <1>2 DEF PlanType
<1>4. QED
  BY <1>1, <1>3 DEF BootRead, durable, volatile, budget

LEMMA BootReadStep == IInv /\ BootRead => IInv'
<1> SUFFICES ASSUME IInv, BootRead PROVE IInv'
  OBVIOUS
<1>1. /\ boot = "reset" /\ boot' = "scan"
      /\ UNCHANGED <<inbox, receivedAt, incidents, queue, owned, done, producer, worker, crashes, faults>>
      /\ plan' \in PlanType
  BY BootReads DEF IInv
<1>2. PICK recovery \in RecoveryObservations : plan'.recovery = recovery
  BY BootReads DEF IInv
<1>3. \A n \in DOMAIN plan'.recovery : plan'.recovery[n] \in DOMAIN incidents
  BY <1>2, RecoveryRead DEF IInv, SeqSet
<1>4. TypeWork' /\ CallsSound' /\ WorkSound' /\ WorkIsExclusive' /\ Asleep'
  BY <1>1, AsleepKeeps
<1>5. TypeDurable' /\ TypeMemory' /\ CompletedIsResolved'
  BY <1>1 DEF IInv, TypeDurable, TypeMemory, CompletedIsResolved
<1>6. TypeBoot'
  BY <1>1 DEF IInv, TypeBoot
<1>7. LinksKnown'
  BY <1>1, <1>3 DEF IInv, LinksKnown, KnownItems
<1>8. QED
  BY <1>4, <1>5, <1>6, <1>7 DEF IInv

LEMMA BootScanStep == IInv /\ BootScan => IInv'
<1> SUFFICES ASSUME IInv, BootScan PROVE IInv'
  OBVIOUS
<1> DEFINE k == Head(plan.read)
           i == inbox[k].incident
<1>1. /\ boot = "scan" /\ plan.read # <<>>
      /\ \/ /\ i = NoIncident /\ UNCHANGED inbox
            /\ plan' = [plan EXCEPT !.read = Tail(@), !.backlog = Append(@, k)]
         \/ /\ i # NoIncident /\ incidents[i] = "GONE" /\ Update(k, Released(inbox[k]))
            /\ plan' = [plan EXCEPT !.read = Tail(@), !.backlog = Append(@, k)]
         \/ /\ i # NoIncident /\ incidents[i] = "DONE" /\ Update(k, Completed(inbox[k]))
            /\ plan' = [plan EXCEPT !.read = Tail(@)]
         \/ /\ i # NoIncident /\ UNCHANGED inbox
            /\ \/ plan' = [plan EXCEPT !.read = Tail(@)]
               \/ plan' = [plan EXCEPT !.read = Tail(@), !.recovery = Append(@, i)]
      /\ UNCHANGED <<receivedAt, incidents, queue, owned, done, producer, worker, boot, crashes, faults>>
  BY DEF BootScan, volatile, budget
<1>2. plan \in PlanType
  BY DEF IInv, TypeBoot
<1>3. k \in Keys /\ Tail(plan.read) \in Seq(Keys)
  BY <1>1, <1>2
<1>4. /\ inbox \in [Keys -> Documents] /\ inbox[k] \in Documents
      /\ i \in {NoIncident} \cup Incidents
      /\ i # NoIncident => i \in DOMAIN incidents
  BY <1>3 DEF IInv, TypeDurable, LinksKnown, Documents
<1> HIDE DEF k, i
<1>5. Append(plan.backlog, k) \in Seq(Keys)
  BY <1>2, <1>3
<1>6. i # NoIncident => /\ Append(plan.recovery, i) \in Seq(Incidents)
                        /\ \A n \in DOMAIN Append(plan.recovery, i) :
                             \/ Append(plan.recovery, i)[n] = i
                             \/ n \in DOMAIN plan.recovery
                                /\ Append(plan.recovery, i)[n] = plan.recovery[n]
  BY <1>2, <1>4
<1>7. /\ plan' \in PlanType
      /\ \/ plan'.recovery = plan.recovery
         \/ i # NoIncident /\ plan'.recovery = Append(plan.recovery, i)
  BY <1>1, <1>2, <1>3, <1>5, <1>6
<1>8. \A n \in DOMAIN plan'.recovery : plan'.recovery[n] \in DOMAIN incidents
  BY <1>4, <1>6, <1>7 DEF IInv, LinksKnown
<1>9. /\ inbox' \in [Keys -> Documents]
      /\ \A l \in Keys : \/ Mild(inbox[l], inbox'[l])
                         \/ /\ inbox'[l].incident = inbox[l].incident
                            /\ inbox[l].incident \in DOMAIN incidents
                            /\ incidents[inbox[l].incident] = "DONE"
  <2>1. \A l \in Keys : Mild(inbox[l], inbox[l])
    BY <1>4, MildOperations
  <2>2. CASE UNCHANGED inbox
    BY <1>4, <2>1, <2>2
  <2>3. CASE Update(k, Released(inbox[k]))
    BY <1>3, <1>4, <2>3, MildOperations, MildUpdate
  <2>4. CASE i # NoIncident /\ incidents[i] = "DONE" /\ Update(k, Completed(inbox[k]))
    <3>1. Completed(inbox[k]) \in Documents /\ Completed(inbox[k]).incident = i
      BY <1>4, LinkCompletes DEF i
    <3>2. /\ inbox' \in [Keys -> Documents] /\ inbox'[k] = Completed(inbox[k])
          /\ \A l \in Keys \ {k} : inbox'[l] = inbox[l]
      BY <1>3, <1>4, <2>4, <3>1 DEF Update
    <3>3. inbox'[k].incident = inbox[k].incident /\ inbox[k].incident = i
      BY <3>1, <3>2 DEF i
    <3>4. QED
      BY <1>4, <2>1, <2>4, <3>2, <3>3
  <2>5. QED
    BY <1>1, <2>2, <2>3, <2>4
<1>10. CompletedIsResolved'
      /\ \A l \in Keys : inbox'[l].incident = NoIncident \/ inbox'[l].incident \in DOMAIN incidents'
  BY <1>1, <1>9, Settled
<1>11. LinksKnown'
  BY <1>1, <1>8, <1>10 DEF IInv, LinksKnown, KnownItems
<1>12. TypeWork' /\ CallsSound' /\ WorkSound' /\ WorkIsExclusive' /\ Asleep'
  BY <1>1, AsleepKeeps
<1>13. TypeDurable' /\ TypeMemory' /\ TypeBoot'
  BY <1>1, <1>7, <1>9 DEF IInv, TypeDurable, TypeMemory, TypeBoot
<1>14. QED
  BY <1>10, <1>11, <1>12, <1>13 DEF IInv

LEMMA ReservedMild ==
    ASSUME IInv, inbox' = Reserved
    PROVE  /\ inbox' \in [Keys -> Documents] /\ \A k \in Keys : Mild(inbox[k], inbox'[k])
           /\ \A k \in Keys : inbox'[k] = inbox[k] \/ inbox'[k] = Move(inbox[k], {"WAITING"}, "RECOVERY")
<1>1. \A k \in Keys : inbox'[k] = inbox[k] \/ inbox'[k] = Move(inbox[k], {"WAITING"}, "RECOVERY")
  BY DEF Reserved, RecoveryQueued, OfIncident
<1>2. \A k \in Keys : Mild(inbox[k], inbox'[k])
  BY <1>1, MildOperations DEF IInv, TypeDurable
<1>3. QED
  BY <1>1, <1>2 DEF Reserved, Mild

LEMMA BootReserveStep == IInv /\ BootReserve => IInv'
<1> SUFFICES ASSUME IInv, BootReserve PROVE IInv'
  OBVIOUS
<1>1. /\ boot = "scan" /\ boot' = "seed" /\ inbox' = Reserved
      /\ UNCHANGED <<receivedAt, incidents, queue, owned, done, producer, worker, plan, crashes, faults>>
  BY DEF BootReserve, volatile, budget
<1>2. inbox' \in [Keys -> Documents] /\ \A k \in Keys : Mild(inbox[k], inbox'[k])
  BY <1>1, ReservedMild
<1>3. CompletedIsResolved' /\ LinksKnown'
  BY <1>1, <1>2, MildInbox DEF IInv, LinksKnown, KnownItems
<1>4. TypeWork' /\ CallsSound' /\ WorkSound' /\ WorkIsExclusive' /\ Asleep'
  BY <1>1, AsleepKeeps
<1>5. TypeDurable' /\ TypeMemory' /\ TypeBoot'
  BY <1>1, <1>2 DEF IInv, TypeDurable, TypeMemory, TypeBoot
<1>6. QED
  BY <1>3, <1>4, <1>5 DEF IInv

LEMMA BootSeedStep == IInv /\ BootSeed => IInv'
<1> SUFFICES ASSUME IInv, BootSeed PROVE IInv'
  OBVIOUS
<1>1. PICK item \in {Fresh(Head(plan.backlog)), Recovery(Head(plan.recovery))} :
        /\ boot = "seed" /\ HasRoom
        /\ queue' = Append(queue, item) /\ owned' = owned \cup {item}
        /\ \/ /\ item = Recovery(Head(plan.recovery)) /\ plan.recovery # <<>>
              /\ plan' = [plan EXCEPT !.recovery = Tail(@)]
           \/ /\ item = Fresh(Head(plan.backlog)) /\ plan.backlog # <<>>
              /\ plan' = [plan EXCEPT !.backlog = Tail(@)]
        /\ UNCHANGED <<inbox, receivedAt, incidents, done, producer, worker, boot, crashes, faults>>
  BY DEF BootSeed, durable, budget
<1>2. plan \in PlanType
  BY DEF IInv, TypeBoot
<1>3. item \in KnownItems
  <2>1. CASE item = Recovery(Head(plan.recovery)) /\ plan.recovery # <<>>
    <3>1. Head(plan.recovery) = plan.recovery[1] /\ 1 \in DOMAIN plan.recovery
      BY <1>2, <2>1
    <3>2. QED
      BY <2>1, <3>1 DEF IInv, LinksKnown, KnownItems
  <2>2. CASE item = Fresh(Head(plan.backlog)) /\ plan.backlog # <<>>
    BY <1>2, <2>2 DEF KnownItems
  <2>3. QED
    BY <1>1, <2>1, <2>2
<1>4. /\ queue' \in Seq(Items) /\ Len(queue') <= QueueCapacity
      /\ \A n \in DOMAIN queue' : queue'[n] \in KnownItems
  BY <1>1, <1>3, PutKeeps
<1>5. /\ plan' \in PlanType
      /\ \/ plan'.recovery = plan.recovery
         \/ plan'.recovery = Tail(plan.recovery) /\ plan.recovery # <<>>
  <2>1. /\ plan.recovery # <<>> => Tail(plan.recovery) \in Seq(Incidents)
        /\ plan.backlog # <<>> => Tail(plan.backlog) \in Seq(Keys)
    BY <1>2
  <2>2. QED
    BY <1>1, <1>2, <2>1
<1>6. \A n \in DOMAIN plan'.recovery : plan'.recovery[n] \in DOMAIN incidents
  <2>1. CASE plan'.recovery = plan.recovery
    BY <2>1 DEF IInv, LinksKnown
  <2>2. CASE plan'.recovery = Tail(plan.recovery) /\ plan.recovery # <<>>
    <3>1. \A n \in DOMAIN Tail(plan.recovery) :
            n + 1 \in DOMAIN plan.recovery /\ Tail(plan.recovery)[n] = plan.recovery[n + 1]
      BY <1>2, <2>2
    <3>2. QED
      BY <2>2, <3>1 DEF IInv, LinksKnown
  <2>3. QED
    BY <1>5, <2>1, <2>2
<1>7. LinksKnown'
  BY <1>1, <1>4, <1>6 DEF IInv, LinksKnown, KnownItems
<1>8. TypeWork' /\ CallsSound' /\ WorkSound' /\ WorkIsExclusive' /\ Asleep'
  BY <1>1, AsleepKeeps
<1>9. TypeMemory'
  BY <1>1, <1>3, <1>4, KnownShape DEF IInv, TypeMemory
<1>10. TypeDurable' /\ TypeBoot' /\ CompletedIsResolved'
  BY <1>1, <1>5 DEF IInv, TypeDurable, TypeBoot, CompletedIsResolved
<1>11. QED
  BY <1>7, <1>8, <1>9, <1>10 DEF IInv

LEMMA StartPipelineStep == IInv /\ StartPipeline => IInv'
<1> SUFFICES ASSUME IInv, StartPipeline PROVE IInv'
  OBVIOUS
<1>1. /\ boot = "seed" /\ boot' = "up" /\ plan' = NoPlan
      /\ UNCHANGED <<inbox, receivedAt, incidents, queue, owned, done, producer, worker, crashes, faults>>
  BY DEF StartPipeline, durable, volatile, budget
<1>2. plan' \in PlanType
      /\ DOMAIN plan'.recovery = {}
  BY <1>1 DEF NoPlan
<1>3. TypeWork' /\ CallsSound' /\ WorkSound' /\ WorkIsExclusive' /\ Asleep'
  BY <1>1, AsleepKeeps
<1>4. QED
  BY <1>1, <1>2, <1>3 DEF IInv, TypeDurable, TypeMemory, TypeBoot, LinksKnown, KnownItems,
                          CompletedIsResolved

-----------------------------------------------------------------------------
LEMMA InitIInv == Init => IInv
<1> SUFFICES ASSUME Init PROVE IInv
  OBVIOUS
<1>1. TypeDurable /\ TypeMemory
  BY BoundsAssumption DEF Init, TypeDurable, TypeMemory, Documents, Missing, States
<1>2. TypeWork /\ TypeBoot
  BY BoundsAssumption DEF Init, TypeWork, TypeBoot, IdleCall, IdleWorker, NoPlan, WorkerSteps
<1>3. LinksKnown
  <2>1. DOMAIN queue = {} /\ DOMAIN plan.recovery = {}
    BY DEF Init, NoPlan
  <2>2. QED
    BY <2>1 DEF Init, LinksKnown, Missing
<1>4. Asleep /\ CallsSound /\ WorkSound /\ WorkIsExclusive
  BY DEF Init, Asleep, CallsSound, WorkSound, WorkIsExclusive, Handling, IdleCall, IdleWorker
<1>5. CompletedIsResolved
  BY DEF Init, CompletedIsResolved, Missing
<1>6. QED
  BY <1>1, <1>2, <1>3, <1>4, <1>5 DEF IInv

LEMMA StutterStep == IInv /\ UNCHANGED vars => IInv'
<1> SUFFICES ASSUME IInv, UNCHANGED vars PROVE IInv'
  OBVIOUS
<1>1. UNCHANGED <<inbox, receivedAt, incidents, queue, owned, done, producer, worker, boot, plan,
                  crashes, faults>>
  BY DEF vars, durable, volatile, budget
<1>2. TypeDurable' /\ TypeMemory' /\ TypeWork' /\ TypeBoot'
  BY <1>1 DEF IInv, TypeDurable, TypeMemory, TypeWork, TypeBoot
<1>3. LinksKnown' /\ WorkSound'
  BY <1>1 DEF IInv, LinksKnown, WorkSound, KnownItems, Key
<1>4. Asleep' /\ CallsSound' /\ WorkIsExclusive' /\ CompletedIsResolved'
  BY <1>1 DEF IInv, Asleep, CallsSound, WorkIsExclusive, Handling, Key, CompletedIsResolved
<1>5. QED
  BY <1>2, <1>3, <1>4 DEF IInv

LEMMA StepKeeps == IInv /\ [Next]_vars => IInv'
<1> SUFFICES ASSUME IInv, [Next]_vars PROVE IInv'
  OBVIOUS
<1>1. CASE \E p \in Producers : ProducerStep(p) \/ \E k \in Keys : EnqueueCheck(p, k)
  BY <1>1, EnqueueCheckStep, EnqueueRecordStep, EnqueueClaimStep DEF ProducerStep
<1>2. CASE WorkerStep
  BY <1>2, TakeStep, MarkProcessingStep, SkipStep, FailingStep, MarkIncidentProcessingStep, AdmitStep,
     LinkStep, ReviewStep, CompleteStep, GiveBackStep DEF WorkerStep
<1>3. CASE BootStep
  BY <1>3, BootResetStep, BootReadStep, BootScanStep, BootReserveStep, BootSeedStep, StartPipelineStep
     DEF BootStep
<1>4. CASE Environment
  BY <1>4, EnqueueRecordRaisesStep, DismissStep, FailingStep, SkipStep, EndStep, DeleteIncidentStep
     DEF Environment
<1>5. CASE UNCHANGED vars
  BY <1>5, StutterStep
<1>6. QED
  BY <1>1, <1>2, <1>3, <1>4, <1>5 DEF Next

LEMMA Inductive == Spec => []IInv
<1>1. QED
  BY InitIInv, StepKeeps, PTL DEF Spec

-----------------------------------------------------------------------------
(* What a step may do to a document that is COMPLETED or DISMISSED.        *)

FinalStays == \A k \in Keys : inbox[k].state \in Final => inbox'[k] = inbox[k]

LEMMA UpdateStays ==
    ASSUME inbox \in [Keys -> Documents], NEW k \in Keys, NEW doc, Update(k, doc),
           inbox[k].state \in Final => doc = inbox[k]
    PROVE  FinalStays
  BY DEF Update, FinalStays

LEMMA ProducersStay ==
    ASSUME IInv, NEW p \in Producers,
           \/ ProducerStep(p) \/ EnqueueRecordRaises(p) \/ \E k \in Keys : EnqueueCheck(p, k)
    PROVE  FinalStays
<1>1. CASE UNCHANGED inbox
  BY <1>1 DEF FinalStays
<1>2. CASE EnqueueRecord(p) \/ EnqueueRecordRaises(p)
  <2>1. PICK k \in Keys : producer[p].item = Fresh(k) /\ producer[p].item[2] = k
    BY <1>2, CallRuns DEF EnqueueRecord, EnqueueRecordRaises
  <2>2. UNCHANGED inbox \/ Update(k, Recorded(inbox[k]))
    BY <1>2, <2>1 DEF EnqueueRecord, EnqueueRecordRaises
  <2>3. inbox[k].state \in Final => Recorded(inbox[k]) = inbox[k]
    BY DEF Recorded, Move, Final
  <2>4. QED
    BY <1>1, <2>2, <2>3, UpdateStays DEF IInv, TypeDurable
<1>3. QED
  BY <1>1, <1>2 DEF ProducerStep, EnqueueClaim, EnqueuePut, EnqueueCheck, durable

LEMMA MildStays ==
    ASSUME \A k \in Keys : Mild(inbox[k], inbox'[k])
    PROVE  FinalStays
  BY DEF FinalStays, Mild

LEMMA WorkerStays ==
    ASSUME IInv, WorkerStep
    PROVE  FinalStays
<1>1. CASE UNCHANGED inbox
  BY <1>1 DEF FinalStays
<1>2. CASE MarkProcessing
  <2>1. Key \in Keys /\ inbox[Key] \in Documents /\ Update(Key, Processing(inbox[Key]))
    BY <1>2, WorkItem DEF MarkProcessing, At
  <2>2. inbox[Key].state \in Final => Processing(inbox[Key]) = inbox[Key]
    BY DEF Processing, Move, Final
  <2>3. QED
    BY <2>1, <2>2, UpdateStays DEF IInv, TypeDurable
<1>3. CASE MarkIncidentProcessing
  BY <1>3 DEF MarkIncidentProcessing, IncidentProcessing, OfIncident, Move, Final, FinalStays
<1>4. CASE Link
  <2>1. IsFresh(worker.item) /\ worker.pc = "admitted"
    BY <1>4 DEF Link, At, IInv, WorkSound
  <2>2. Key \in Keys /\ inbox[Key].state = "PROCESSING"
    BY <2>1, WorkItem DEF IInv, WorkIsExclusive, Handling
  <2>3. Update(Key, Linked(inbox[Key], worker.incident)) /\ inbox[Key].state \notin Final
    BY <1>4, <2>2 DEF Link, Final
  <2>4. QED
    BY <2>2, <2>3, UpdateStays DEF IInv, TypeDurable
<1>5. CASE Complete
  <2>1. CASE IsFresh(worker.item)
    <3>1. Key \in Keys /\ Update(Key, Completed(inbox[Key]))
      BY <1>5, <2>1, WorkItem DEF Complete, At, Update
    <3>2. inbox[Key].state \in Final => Completed(inbox[Key]) = inbox[Key]
      BY DEF Completed, Move, Final, Open
    <3>3. QED
      BY <3>1, <3>2, UpdateStays DEF IInv, TypeDurable
  <2>2. CASE ~ IsFresh(worker.item)
    BY <1>5, <2>2 DEF Complete, IncidentCompleted, OfIncident, Move, Final, Open, FinalStays
  <2>3. QED
    BY <2>1, <2>2
<1>6. CASE GiveBack
  BY <1>6, GivenBackMild, MildStays DEF GiveBack, At
<1>7. QED
  BY <1>1, <1>2, <1>3, <1>4, <1>5, <1>6
     DEF WorkerStep, Take, SkipDismissed, RefuseProcessing, OpenIncident, Correlate,
         InvestigationCompletes, ReviewCompletes, InvestigationFails, durable

LEMMA BootStays ==
    ASSUME IInv, BootStep
    PROVE  FinalStays
<1>1. CASE UNCHANGED inbox
  BY <1>1 DEF FinalStays
<1>2. CASE BootReset
  BY <1>2 DEF BootReset, Interrupted, Move, Final, FinalStays
<1>3. CASE BootScan
  <2> DEFINE k == Head(plan.read)
  <2>1. k \in Keys
    BY <1>3 DEF BootScan, IInv, TypeBoot
  <2>2. UNCHANGED inbox \/ Update(k, Released(inbox[k])) \/ Update(k, Completed(inbox[k]))
    BY <1>3 DEF BootScan
  <2> HIDE DEF k
  <2>3. inbox[k].state \in Final => Released(inbox[k]) = inbox[k] /\ Completed(inbox[k]) = inbox[k]
    BY DEF Released, Completed, Move, Final, Open
  <2>4. QED
    BY <1>1, <2>1, <2>2, <2>3, UpdateStays DEF IInv, TypeDurable
<1>4. CASE BootReserve
  BY <1>4, ReservedMild, MildStays DEF BootReserve
<1>5. QED
  BY <1>1, <1>2, <1>3, <1>4 DEF BootStep, BootRead, BootSeed, StartPipeline, durable

LEMMA EnvironmentStays ==
    ASSUME IInv, Environment
    PROVE  FinalStays
<1>1. CASE UNCHANGED inbox
  BY <1>1 DEF FinalStays
<1>2. ASSUME NEW k \in Keys, Dismiss(k) PROVE FinalStays
  <2>1. Update(k, Dismissed(inbox[k])) /\ inbox[k].state \notin Final
    BY <1>2 DEF Dismiss, Dismissable, Final
  <2>2. QED
    BY <2>1, UpdateStays DEF IInv, TypeDurable
<1>3. CASE Stop
  BY <1>3, GivenBackMild, MildStays DEF Stop
<1>4. CASE \E p \in Producers : EnqueueRecordRaises(p)
  BY <1>4, ProducersStay
<1>5. QED
  BY <1>1, <1>2, <1>3, <1>4
     DEF Environment, ProcessingRaises, GiveBackRaises, Crash, DeleteIncident, durable

LEMMA StepStays == IInv /\ [Next]_vars => FinalStays
<1> SUFFICES ASSUME IInv, [Next]_vars PROVE FinalStays
  OBVIOUS
<1>1. CASE UNCHANGED vars
  BY <1>1 DEF vars, durable, FinalStays
<1>2. QED
  BY <1>1, ProducersStay, WorkerStays, BootStays, EnvironmentStays DEF Next

-----------------------------------------------------------------------------
(* Type correctness; in particular the FIFO never holds more than its      *)
(* capacity, neither while it runs nor while startup seeds it.             *)
THEOREM TypeCorrect == Spec => []TypeOK
<1>1. IInv => TypeOK
  BY TypeParts DEF IInv
<1>2. QED
  BY <1>1, Inductive, PTL

(* An anomaly is COMPLETED only with a resolved incident, whoever completes *)
(* it and whatever crashed, raised or was deleted before.                  *)
THEOREM CompletionIsEarned == Spec => []CompletedIsResolved
<1>1. IInv => CompletedIsResolved
  BY DEF IInv
<1>2. QED
  BY <1>1, Inductive, PTL

(* The document of a fresh anomaly says PROCESSING from the check of the   *)
(* consumer to the end of its work, for any number of enqueue calls,       *)
(* dismissals and restarts beside it.                                      *)
THEOREM WorkExcludes == Spec => []WorkIsExclusive
<1>1. IInv => WorkIsExclusive
  BY DEF IInv
<1>2. QED
  BY <1>1, Inductive, PTL

(* No step changes a document that is COMPLETED or DISMISSED.              *)
THEOREM FinalIsFinal == Spec => FinalRecordsStay
<1>1. IInv /\ [Next]_vars => [\A k \in Keys : inbox[k].state \in Final => inbox'[k] = inbox[k]]_vars
  BY StepStays DEF FinalStays
<1>2. QED
  BY <1>1, Inductive, PTL DEF Spec, FinalRecordsStay

-----------------------------------------------------------------------------
(* Sequences without repetition.                                           *)

LEMMA AppendSet ==
    ASSUME NEW S, NEW s \in Seq(S), NEW x \in S
    PROVE  /\ Append(s, x) \in Seq(S) /\ SeqSet(Append(s, x)) = SeqSet(s) \cup {x}
           /\ Once(s) /\ x \notin SeqSet(s) => Once(Append(s, x))
<1>1. /\ Append(s, x) \in Seq(S) /\ Len(s) \in Nat
      /\ DOMAIN Append(s, x) = 1 .. Len(s) + 1 /\ DOMAIN s = 1 .. Len(s)
      /\ \A n \in 1 .. Len(s) : Append(s, x)[n] = s[n]
      /\ Append(s, x)[Len(s) + 1] = x
  OBVIOUS
<1>2. \A n \in 1 .. Len(s) + 1 : n \in 1 .. Len(s) \/ n = Len(s) + 1
  BY <1>1
<1>3. 1 .. Len(s) \subseteq 1 .. Len(s) + 1 /\ Len(s) + 1 \in 1 .. Len(s) + 1
  BY <1>1
<1>4. SeqSet(Append(s, x)) = SeqSet(s) \cup {x}
  <2> DEFINE t == Append(s, x)
             M == 1 .. Len(s)
             N == 1 .. Len(s) + 1
  <2>1. DOMAIN t = N /\ DOMAIN s = M /\ (\A n \in M : t[n] = s[n]) /\ t[Len(s) + 1] = x
        /\ (\A n \in N : n \in M \/ n = Len(s) + 1) /\ M \subseteq N /\ Len(s) + 1 \in N
    BY <1>1, <1>2, <1>3
  <2> HIDE DEF t, M, N
  <2>2. SeqSet(t) = SeqSet(s) \cup {x}
    BY <2>1 DEF SeqSet
  <2>3. QED
    BY <2>2 DEF t
<1>5. ASSUME Once(s), x \notin SeqSet(s) PROVE Once(Append(s, x))
  BY <1>1, <1>2, <1>5 DEF Once, SeqSet
<1>6. QED
  BY <1>1, <1>4, <1>5

LEMMA TailSet ==
    ASSUME NEW S, NEW s \in Seq(S), s # <<>>
    PROVE  /\ Tail(s) \in Seq(S) /\ Head(s) \in S /\ SeqSet(s) = SeqSet(Tail(s)) \cup {Head(s)}
           /\ Once(s) => Once(Tail(s)) /\ Head(s) \notin SeqSet(Tail(s))
<1>1. /\ Tail(s) \in Seq(S) /\ Len(s) \in Nat \ {0} /\ Head(s) = s[1] /\ Head(s) \in S
      /\ DOMAIN Tail(s) = 1 .. Len(s) - 1 /\ DOMAIN s = 1 .. Len(s)
      /\ \A n \in 1 .. Len(s) - 1 : Tail(s)[n] = s[n + 1]
  OBVIOUS
<1>2. /\ \A n \in 1 .. Len(s) - 1 : n + 1 \in 1 .. Len(s) /\ n + 1 # 1
      /\ \A n \in 1 .. Len(s) : n = 1 \/ (n - 1 \in 1 .. Len(s) - 1 /\ (n - 1) + 1 = n)
      /\ 1 \in 1 .. Len(s)
  BY <1>1
<1>3. SeqSet(s) \subseteq SeqSet(Tail(s)) \cup {Head(s)}
  <2> SUFFICES ASSUME NEW n \in DOMAIN s PROVE s[n] = Head(s) \/ s[n] \in SeqSet(Tail(s))
    BY DEF SeqSet
  <2>1. CASE n = 1
    BY <1>1, <2>1
  <2>2. CASE n # 1
    <3>1. n - 1 \in DOMAIN Tail(s) /\ Tail(s)[n - 1] = s[n]
      BY <1>1, <1>2, <2>2
    <3>2. QED
      BY <3>1 DEF SeqSet
  <2>3. QED
    BY <2>1, <2>2
<1>4. SeqSet(Tail(s)) \cup {Head(s)} \subseteq SeqSet(s)
  <2>1. \A n \in DOMAIN Tail(s) : n + 1 \in DOMAIN s /\ Tail(s)[n] = s[n + 1]
    BY <1>1, <1>2
  <2>2. 1 \in DOMAIN s /\ Head(s) = s[1]
    BY <1>1, <1>2
  <2>3. QED
    BY <2>1, <2>2 DEF SeqSet
<1>5. ASSUME Once(s) PROVE Once(Tail(s)) /\ Head(s) \notin SeqSet(Tail(s))
  <2>1. Once(Tail(s))
    BY <1>1, <1>2, <1>5 DEF Once
  <2>2. \A n \in DOMAIN Tail(s) : Tail(s)[n] # Head(s)
    BY <1>1, <1>2, <1>5 DEF Once
  <2>3. QED
    BY <2>1, <2>2 DEF SeqSet
<1>6. QED
  BY <1>1, <1>3, <1>4, <1>5

LEMMA EmptySet == SeqSet(<<>>) = {} /\ Once(<<>>)
  BY DEF SeqSet, Once

-----------------------------------------------------------------------------
(* What the documents and the plan of the startup always satisfy.          *)

(* A document that was not made belongs to no incident.                    *)
AbsentIsFree == \A k \in Keys : inbox[k].state = "ABSENT" => inbox[k].incident = NoIncident

(* The startup plans nothing twice, and nothing that it has already        *)
(* seeded; until it seeds the memory of the process is empty.              *)
PlanSound ==
    /\ boot \in {"down", "reset", "up"} => plan = NoPlan
    /\ boot = "seed" => plan.read = <<>>
    /\ boot \in {"down", "reset", "scan"} => queue = <<>> /\ owned = {}
    /\ Once(plan.read) /\ Once(plan.recovery) /\ Once(plan.backlog)
    /\ SeqSet(plan.read) \cap SeqSet(plan.backlog) = {}
    /\ boot # "up" => /\ Once(queue) /\ SeqSet(queue) = owned
                      /\ \A i \in SeqSet(plan.recovery) : Recovery(i) \notin SeqSet(queue)
                      /\ \A k \in SeqSet(plan.backlog) : Fresh(k) \notin SeqSet(queue)

JInv == IInv /\ AbsentIsFree /\ PlanSound

(* The kinds of steps: of a started process, of its startup, and its end.  *)
Works   == boot = "up" /\ UNCHANGED <<boot, plan>>
Ends    == /\ queue' = <<>> /\ owned' = {} /\ plan' = NoPlan /\ boot' = "down"
           /\ producer' = [p \in Producers |-> IdleCall] /\ worker' = IdleWorker
           /\ UNCHANGED receivedAt
Nothing == UNCHANGED <<inbox, receivedAt, queue, owned, producer, worker, boot, plan>>

LEMMA Kinds ==
    ASSUME IInv, [Next]_vars
    PROVE  Works \/ BootStep \/ Ends \/ (Nothing /\ (boot = "down" \/ UNCHANGED incidents))
<1>1. ASSUME NEW p \in Producers, ProducerStep(p) \/ EnqueueRecordRaises(p) PROVE Works
  <2>1. producer[p].pc # "idle" /\ UNCHANGED <<boot, plan>>
    BY <1>1 DEF ProducerStep, EnqueueRecord, EnqueueRecordRaises, EnqueueClaim, EnqueuePut
  <2>2. QED
    BY <2>1, CallRuns DEF Works
<1>2. ASSUME NEW p \in Producers, NEW k \in Keys, EnqueueCheck(p, k) PROVE Works
  BY <1>2 DEF EnqueueCheck, Works
<1>3. CASE WorkerStep \/ ProcessingRaises \/ GiveBackRaises
  <2>1. (worker.pc # "idle" \/ boot = "up") /\ UNCHANGED <<boot, plan>>
    BY <1>3 DEF WorkerStep, Take, MarkProcessing, SkipDismissed, RefuseProcessing, MarkIncidentProcessing,
                OpenIncident, Correlate, Link, InvestigationCompletes, ReviewCompletes,
                InvestigationFails, Complete, GiveBack, ProcessingRaises, GiveBackRaises, At, volatile
  <2>2. QED
    BY <2>1 DEF Works, IInv, Asleep, IdleWorker
<1>4. ASSUME NEW k \in Keys, Dismiss(k) PROVE Works
  BY <1>4 DEF Dismiss, Works
<1>5. CASE Crash \/ Stop
  BY <1>5 DEF Crash, Stop, LoseMemory, Ends, durable
<1>6. ASSUME NEW i \in Incidents, DeleteIncident(i) PROVE Nothing /\ boot = "down"
  BY <1>6 DEF DeleteIncident, Nothing, volatile
<1>7. CASE UNCHANGED vars
  BY <1>7 DEF vars, durable, volatile, Nothing
<1>8. QED
  BY <1>1, <1>2, <1>3, <1>4, <1>5, <1>6, <1>7 DEF Next, Environment

-----------------------------------------------------------------------------
(* No step leaves a document absent that it changes.                       *)

Stays(d, e)  == e.state = "ABSENT" => e = d
SamePresence == \A k \in Keys : Stays(inbox[k], inbox'[k])

LEMMA PresentOperations ==
    ASSUME NEW d \in Documents
    PROVE  /\ Stays(d, Recorded(d))
           /\ Stays(d, Processing(d))
           /\ Stays(d, Retryable(d))
           /\ Stays(d, Dismissed(d))
           /\ Stays(d, Released(d))
           /\ Stays(d, Completed(d))
           /\ \A i : Stays(d, Linked(d, i))
           /\ Stays(d, Move(d, Open, "COMPLETED"))
           /\ Stays(d, Move(d, {"WAITING"}, "RECOVERY"))
           /\ Stays(d, Move(d, {"WAITING", "RECOVERY"}, "PROCESSING"))
           /\ Stays(d, Move(d, {"PROCESSING", "RECOVERY"}, "WAITING"))
<1> USE DEF Stays, Move, Documents, States, Open
<1>1. /\ Stays(d, Recorded(d))
      /\ Stays(d, Processing(d))
      /\ Stays(d, Retryable(d))
      /\ Stays(d, Completed(d))
  BY DEF Recorded, Processing, Retryable, Completed
<1>2. /\ Stays(d, Dismissed(d))
      /\ Stays(d, Released(d))
      /\ \A i : Stays(d, Linked(d, i))
  BY DEF Dismissed, Dismissable, Released, Linked, LinkFound
<1>3. /\ Stays(d, Move(d, Open, "COMPLETED"))
      /\ Stays(d, Move(d, {"WAITING"}, "RECOVERY"))
      /\ Stays(d, Move(d, {"WAITING", "RECOVERY"}, "PROCESSING"))
      /\ Stays(d, Move(d, {"PROCESSING", "RECOVERY"}, "WAITING"))
  OBVIOUS
<1>4. QED
  BY <1>1, <1>2, <1>3

LEMMA PresenceKept ==
    ASSUME inbox \in [Keys -> Documents], NEW k \in Keys, NEW doc, Update(k, doc),
           Stays(inbox[k], doc)
    PROVE  SamePresence
  BY DEF Update, SamePresence, Stays

LEMMA WorkerPresence ==
    ASSUME IInv, WorkerStep
    PROVE  SamePresence
<1>1. inbox \in [Keys -> Documents] /\ \A k \in Keys : inbox[k] \in Documents
  BY DEF IInv, TypeDurable
<1>2. CASE UNCHANGED inbox
  BY <1>2 DEF SamePresence, Stays
<1>3. CASE MarkProcessing \/ Link
  <2>1. worker.pc # "idle" /\ IsFresh(worker.item)
    BY <1>3 DEF MarkProcessing, Link, At, IInv, WorkSound
  <2>2. Key \in Keys
    BY <2>1, WorkItem
  <2>3. Update(Key, Processing(inbox[Key])) \/ Update(Key, Linked(inbox[Key], worker.incident))
    BY <1>3 DEF MarkProcessing, Link
  <2>4. QED
    BY <1>1, <2>2, <2>3, PresentOperations, PresenceKept DEF Stays
<1>4. CASE MarkIncidentProcessing
  <2>1. \A k \in Keys : inbox'[k] = inbox[k]
          \/ inbox'[k] = Move(inbox[k], {"WAITING", "RECOVERY"}, "PROCESSING")
    BY <1>4 DEF MarkIncidentProcessing, IncidentProcessing, OfIncident
  <2>2. QED
    BY <1>1, <2>1, PresentOperations DEF Stays, SamePresence
<1>5. CASE Complete
  <2>1. CASE IsFresh(worker.item)
    <3>1. Key \in Keys /\ Update(Key, Completed(inbox[Key]))
      BY <1>5, <2>1, WorkItem DEF Complete, At, Update
    <3>2. QED
      BY <1>1, <3>1, PresentOperations, PresenceKept DEF Stays
  <2>2. CASE ~ IsFresh(worker.item)
    <3>1. \A k \in Keys : inbox'[k] = inbox[k] \/ inbox'[k] = Move(inbox[k], Open, "COMPLETED")
      BY <1>5, <2>2 DEF Complete, IncidentCompleted, OfIncident
    <3>2. QED
      BY <1>1, <3>1, PresentOperations DEF Stays, SamePresence
  <2>3. QED
    BY <2>1, <2>2
<1>6. CASE GiveBack
  <2>1. CASE IsFresh(worker.item)
    <3>1. Key \in Keys /\ Update(Key, Retryable(inbox[Key]))
      BY <1>6, <2>1, WorkItem DEF GiveBack, GivenBack, At, Update
    <3>2. QED
      BY <1>1, <3>1, PresentOperations, PresenceKept DEF Stays
  <2>2. CASE ~ IsFresh(worker.item)
    BY <1>2, <1>6, <2>2 DEF GiveBack, GivenBack
  <2>3. QED
    BY <2>1, <2>2
<1>7. QED
  BY <1>2, <1>3, <1>4, <1>5, <1>6
     DEF WorkerStep, Take, SkipDismissed, RefuseProcessing, OpenIncident, Correlate,
         InvestigationCompletes, ReviewCompletes, InvestigationFails, durable

LEMMA BootPresence ==
    ASSUME IInv, BootStep
    PROVE  SamePresence
<1>1. inbox \in [Keys -> Documents] /\ \A k \in Keys : inbox[k] \in Documents
  BY DEF IInv, TypeDurable
<1>2. CASE UNCHANGED inbox
  BY <1>2 DEF SamePresence, Stays
<1>3. CASE BootReset
  <2>1. \A k \in Keys : inbox'[k] = Move(inbox[k], {"PROCESSING", "RECOVERY"}, "WAITING")
    BY <1>3 DEF BootReset, Interrupted
  <2>2. QED
    BY <1>1, <2>1, PresentOperations DEF Stays, SamePresence
<1>4. CASE BootScan
  <2> DEFINE k == Head(plan.read)
  <2>1. k \in Keys
    BY <1>4 DEF BootScan, IInv, TypeBoot
  <2>2. UNCHANGED inbox \/ Update(k, Released(inbox[k])) \/ Update(k, Completed(inbox[k]))
    BY <1>4 DEF BootScan
  <2> HIDE DEF k
  <2>3. QED
    BY <1>1, <1>2, <2>1, <2>2, PresentOperations, PresenceKept DEF Stays
<1>5. CASE BootReserve
  <2>1. \A k \in Keys : inbox'[k] = inbox[k] \/ inbox'[k] = Move(inbox[k], {"WAITING"}, "RECOVERY")
    BY <1>5, ReservedMild DEF BootReserve
  <2>2. QED
    BY <1>1, <2>1, PresentOperations DEF Stays, SamePresence
<1>6. QED
  BY <1>2, <1>3, <1>4, <1>5 DEF BootStep, BootRead, BootSeed, StartPipeline, durable

LEMMA AbsentSame ==
    ASSUME AbsentIsFree, SamePresence
    PROVE  AbsentIsFree'
  BY DEF AbsentIsFree, SamePresence, Stays

LEMMA AbsentKept ==
    ASSUME IInv, AbsentIsFree, [Next]_vars
    PROVE  AbsentIsFree'
<1>1. CASE UNCHANGED inbox
  BY <1>1, AbsentSame DEF SamePresence, Stays
<1>2. CASE WorkerStep \/ BootStep
  BY <1>2, WorkerPresence, BootPresence, AbsentSame
<1>3. ASSUME NEW p \in Producers, ProducerStep(p) \/ EnqueueRecordRaises(p)
      PROVE  AbsentIsFree'
  <2>1. CASE EnqueueRecord(p) \/ EnqueueRecordRaises(p)
    <3>1. PICK k \in Keys : producer[p].item[2] = k
      BY <2>1, CallRuns DEF EnqueueRecord, EnqueueRecordRaises
    <3>2. UNCHANGED inbox \/ Update(k, Recorded(inbox[k]))
      BY <2>1, <3>1 DEF EnqueueRecord, EnqueueRecordRaises
    <3>3. inbox \in [Keys -> Documents] /\ Stays(inbox[k], Recorded(inbox[k]))
      BY PresentOperations DEF IInv, TypeDurable
    <3>4. QED
      BY <1>1, <3>2, <3>3, PresenceKept, AbsentSame
  <2>2. QED
    BY <1>1, <1>3, <2>1 DEF ProducerStep, EnqueueClaim, EnqueuePut, durable
<1>4. ASSUME NEW k \in Keys, Dismiss(k) PROVE AbsentIsFree'
  <2>1. SamePresence
    BY <1>4, PresentOperations, PresenceKept DEF Dismiss, IInv, TypeDurable
  <2>2. QED
    BY <2>1, AbsentSame
<1>5. CASE Stop
  <2>1. worker.pc # "idle" /\ inbox' = GivenBack
    BY <1>5 DEF Stop
  <2>2. UNCHANGED inbox \/ (Key \in Keys /\ Update(Key, Retryable(inbox[Key])))
    BY <2>1, WorkItem DEF GivenBack, Update
  <2>3. SamePresence
    BY <2>2, PresentOperations, PresenceKept DEF SamePresence, Stays, IInv, TypeDurable
  <2>4. QED
    BY <2>3, AbsentSame
<1>6. QED
  BY <1>1, <1>2, <1>3, <1>4, <1>5
     DEF Next, Environment, EnqueueCheck, ProcessingRaises, GiveBackRaises, Crash, DeleteIncident,
         vars, durable

-----------------------------------------------------------------------------
(* The plan of the startup.                                                *)

LEMMA ItemsDiffer ==
    /\ \A k, l : Fresh(k) = Fresh(l) => k = l
    /\ \A i, j : Recovery(i) = Recovery(j) => i = j
    /\ \A k, i : Fresh(k) # Recovery(i)
  BY DEF Fresh, Recovery

LEMMA PlanTyped ==
    ASSUME IInv
    PROVE  plan.read \in Seq(Keys) /\ plan.recovery \in Seq(Incidents) /\ plan.backlog \in Seq(Keys)
           /\ queue \in Seq(Items)
           /\ DOMAIN plan = {"read", "left", "recovery", "backlog"}
  BY DEF IInv, TypeBoot, TypeMemory

LEMMA ReadPlans ==
    ASSUME JInv, BootRead
    PROVE  PlanSound'
<1>1. /\ boot = "reset" /\ boot' = "scan" /\ UNCHANGED <<queue, owned>>
  BY BootReads DEF JInv, IInv
<1>2. PICK list \in WaitingRecords, recovery \in RecoveryObservations :
        plan'.read = list /\ plan'.recovery = recovery /\ plan'.backlog = <<>>
  BY BootReads DEF JInv, IInv
<1>3. Once(plan'.read) /\ Once(plan'.recovery)
  BY <1>2, WaitingRead, RecoveryRead DEF JInv, IInv
<1>4. Once(plan'.backlog) /\ SeqSet(plan'.backlog) = {}
  BY <1>2, EmptySet
<1>5. queue' = <<>> /\ owned' = {} /\ SeqSet(queue') = {} /\ Once(queue')
  BY <1>1, EmptySet DEF JInv, PlanSound
<1>6. QED
  BY <1>1, <1>3, <1>4, <1>5 DEF PlanSound

LEMMA ScanPlans ==
    ASSUME JInv, BootScan
    PROVE  PlanSound'
<1> DEFINE k == Head(plan.read)
           i == inbox[k].incident
<1>1. PICK backlog \in {plan.backlog, Append(plan.backlog, k)},
           recovery \in {plan.recovery, Append(plan.recovery, i)} :
        /\ recovery # plan.recovery => i # NoIncident /\ i \notin SeqSet(plan.recovery)
        /\ plan' = [read |-> Tail(plan.read), left |-> plan.left, recovery |-> recovery,
                     backlog |-> backlog]
  <2>1. plan = [read |-> plan.read, left |-> plan.left, recovery |-> plan.recovery,
                backlog |-> plan.backlog]
    BY DEF JInv, IInv, TypeBoot
  <2>2. QED
    BY <2>1 DEF BootScan
<1>2. /\ boot = "scan" /\ boot' = boot /\ plan.read # <<>>
      /\ UNCHANGED <<queue, owned>>
  BY DEF BootScan, volatile
<1>3. plan.read \in Seq(Keys) /\ plan.recovery \in Seq(Incidents) /\ plan.backlog \in Seq(Keys)
  BY PlanTyped DEF JInv
<1>4. k \in Keys /\ (i # NoIncident => i \in Incidents)
  BY <1>2, <1>3 DEF JInv, IInv, TypeDurable, Documents
<1>5. queue = <<>> /\ owned = {} /\ SeqSet(queue) = {} /\ Once(queue)
  BY <1>2, EmptySet DEF JInv, PlanSound
<1> HIDE DEF i
<1>6. Once(recovery)
  <2>1. CASE recovery = plan.recovery
    BY <2>1 DEF JInv, PlanSound
  <2>2. CASE recovery # plan.recovery
    <3>1. Once(Append(plan.recovery, i))
      BY <1>1, <1>3, <1>4, <2>2, AppendSet DEF JInv, PlanSound
    <3>2. QED
      BY <1>1, <2>2, <3>1
  <2>3. QED
    BY <2>1, <2>2
<1>7. /\ SeqSet(plan.read) = SeqSet(Tail(plan.read)) \cup {k}
      /\ Once(Tail(plan.read)) /\ k \notin SeqSet(Tail(plan.read))
  <2>1. Once(plan.read)
    BY DEF JInv, PlanSound
  <2>2. QED
    BY <1>2, <1>3, <2>1, TailSet
<1> HIDE DEF k
<1>8. k \notin SeqSet(plan.backlog) /\ SeqSet(Tail(plan.read)) \cap SeqSet(plan.backlog) = {}
  BY <1>7 DEF JInv, PlanSound
<1>9. Once(backlog) /\ SeqSet(Tail(plan.read)) \cap SeqSet(backlog) = {}
  <2>1. CASE backlog = plan.backlog
    BY <1>8, <2>1 DEF JInv, PlanSound
  <2>2. CASE backlog = Append(plan.backlog, k)
    <3>1. Once(plan.backlog)
      BY DEF JInv, PlanSound
    <3>2. Once(backlog) /\ SeqSet(backlog) = SeqSet(plan.backlog) \cup {k}
      BY <1>3, <1>4, <1>8, <2>2, <3>1, AppendSet
    <3>3. QED
      BY <1>7, <1>8, <3>2
  <2>3. QED
    BY <1>1, <2>1, <2>2
<1>10. plan'.read = Tail(plan.read) /\ plan'.recovery = recovery /\ plan'.backlog = backlog
  BY <1>1
<1>11. SeqSet(queue') = {} /\ Once(queue') /\ queue' = <<>> /\ owned' = {}
  BY <1>2, <1>5
<1>12. QED
  BY <1>2, <1>6, <1>7, <1>9, <1>10, <1>11 DEF PlanSound

LEMMA SeedPlans ==
    ASSUME JInv, BootSeed
    PROVE  PlanSound'
<1>1. /\ boot = "seed" /\ boot' = boot /\ plan.read = <<>>
      /\ \/ /\ plan.recovery # <<>>
            /\ queue' = Append(queue, Recovery(Head(plan.recovery)))
            /\ owned' = owned \cup {Recovery(Head(plan.recovery))}
            /\ plan' = [plan EXCEPT !.recovery = Tail(@)]
         \/ /\ plan.backlog # <<>>
            /\ queue' = Append(queue, Fresh(Head(plan.backlog)))
            /\ owned' = owned \cup {Fresh(Head(plan.backlog))}
            /\ plan' = [plan EXCEPT !.backlog = Tail(@)]
  BY DEF BootSeed, JInv, PlanSound
<1>2. /\ plan.read \in Seq(Keys) /\ plan.recovery \in Seq(Incidents) /\ plan.backlog \in Seq(Keys)
      /\ queue \in Seq(Items) /\ DOMAIN plan = {"read", "left", "recovery", "backlog"}
  BY PlanTyped DEF JInv
<1>3. /\ Once(plan.read) /\ Once(plan.recovery) /\ Once(plan.backlog)
      /\ SeqSet(plan.read) \cap SeqSet(plan.backlog) = {} /\ SeqSet(plan.read) = {}
      /\ Once(queue) /\ SeqSet(queue) = owned
      /\ \A i \in SeqSet(plan.recovery) : Recovery(i) \notin SeqSet(queue)
      /\ \A k \in SeqSet(plan.backlog) : Fresh(k) \notin SeqSet(queue)
  BY <1>1, EmptySet DEF JInv, PlanSound
<1>4. CASE /\ plan.recovery # <<>>
           /\ queue' = Append(queue, Recovery(Head(plan.recovery)))
           /\ owned' = owned \cup {Recovery(Head(plan.recovery))}
           /\ plan' = [plan EXCEPT !.recovery = Tail(@)]
  <2> DEFINE h == Head(plan.recovery)
             rest == Tail(plan.recovery)
  <2>1. /\ h \in Incidents /\ SeqSet(plan.recovery) = SeqSet(rest) \cup {h}
        /\ Once(rest) /\ h \notin SeqSet(rest)
    BY <1>2, <1>3, <1>4, TailSet
  <2>2. plan'.read = plan.read /\ plan'.recovery = rest /\ plan'.backlog = plan.backlog
        /\ queue' = Append(queue, Recovery(h)) /\ owned' = owned \cup {Recovery(h)}
    BY <1>2, <1>4
  <2> HIDE DEF h, rest
  <2>3. Recovery(h) \in Items /\ Recovery(h) \notin SeqSet(queue)
    BY <1>3, <2>1, RecoveryShape
  <2>4. Once(queue') /\ SeqSet(queue') = SeqSet(queue) \cup {Recovery(h)}
    BY <1>2, <1>3, <2>2, <2>3, AppendSet
  <2>5. SeqSet(queue') = owned'
    BY <1>3, <2>2, <2>4
  <2>6. \A i \in SeqSet(rest) : Recovery(i) \notin SeqSet(queue')
    BY <1>3, <2>1, <2>4, ItemsDiffer
  <2>7. \A k \in SeqSet(plan.backlog) : Fresh(k) \notin SeqSet(queue')
    BY <1>3, <2>4, ItemsDiffer
  <2>8. QED
    BY <1>1, <1>3, <2>1, <2>2, <2>4, <2>5, <2>6, <2>7 DEF PlanSound
<1>5. CASE /\ plan.backlog # <<>>
           /\ queue' = Append(queue, Fresh(Head(plan.backlog)))
           /\ owned' = owned \cup {Fresh(Head(plan.backlog))}
           /\ plan' = [plan EXCEPT !.backlog = Tail(@)]
  <2> DEFINE h == Head(plan.backlog)
             rest == Tail(plan.backlog)
  <2>1. /\ h \in Keys /\ SeqSet(plan.backlog) = SeqSet(rest) \cup {h}
        /\ Once(rest) /\ h \notin SeqSet(rest)
    BY <1>2, <1>3, <1>5, TailSet
  <2>2. plan'.read = plan.read /\ plan'.recovery = plan.recovery /\ plan'.backlog = rest
        /\ queue' = Append(queue, Fresh(h)) /\ owned' = owned \cup {Fresh(h)}
    BY <1>2, <1>5
  <2> HIDE DEF h, rest
  <2>3. Fresh(h) \in Items /\ Fresh(h) \notin SeqSet(queue)
    BY <1>3, <2>1, FreshShape
  <2>4. Once(queue') /\ SeqSet(queue') = SeqSet(queue) \cup {Fresh(h)}
    BY <1>2, <1>3, <2>2, <2>3, AppendSet
  <2>5. SeqSet(queue') = owned'
    BY <1>3, <2>2, <2>4
  <2>6. \A i \in SeqSet(plan.recovery) : Recovery(i) \notin SeqSet(queue')
    BY <1>3, <2>4, ItemsDiffer
  <2>7. \A k \in SeqSet(rest) : Fresh(k) \notin SeqSet(queue')
    BY <1>3, <2>1, <2>4, ItemsDiffer
  <2>8. QED
    BY <1>1, <1>3, <2>1, <2>2, <2>4, <2>5, <2>6, <2>7 DEF PlanSound
<1>6. QED
  BY <1>1, <1>4, <1>5

LEMMA EmptyPlan ==
    Once(NoPlan.read) /\ Once(NoPlan.recovery) /\ Once(NoPlan.backlog) /\ SeqSet(NoPlan.read) = {}
    /\ SeqSet(NoPlan.recovery) = {} /\ SeqSet(NoPlan.backlog) = {}
  BY EmptySet DEF NoPlan

LEMMA PlanKept ==
    ASSUME JInv, [Next]_vars
    PROVE  PlanSound'
<1>1. CASE Works
  BY <1>1 DEF Works, JInv, PlanSound
<1>2. CASE Ends
  BY <1>2, EmptyPlan, EmptySet DEF Ends, PlanSound
<1>3. CASE Nothing
  BY <1>3 DEF Nothing, JInv, PlanSound
<1>4. CASE BootReset
  <2>1. boot = "down" /\ boot' = "reset" /\ UNCHANGED <<queue, owned, plan>>
    BY <1>4 DEF BootReset, volatile
  <2>2. QED
    BY <2>1 DEF JInv, PlanSound
<1>5. CASE BootReserve
  <2>1. /\ boot = "scan" /\ boot' = "seed" /\ UNCHANGED <<queue, owned, plan>> /\ plan.read = <<>>
    BY <1>5 DEF BootReserve, volatile
  <2>2. QED
    BY <2>1 DEF JInv, PlanSound
<1>6. CASE StartPipeline
  BY <1>6, EmptyPlan DEF StartPipeline, PlanSound
<1>7. QED
  BY <1>1, <1>2, <1>3, <1>4, <1>5, <1>6, ReadPlans, ScanPlans, SeedPlans, Kinds DEF JInv, BootStep

LEMMA JInductive == Spec => []JInv
<1>1. Init => AbsentIsFree /\ PlanSound
  BY EmptyPlan, EmptySet DEF Init, AbsentIsFree, PlanSound, Missing
<1>2. Init => JInv
  BY <1>1, InitIInv DEF JInv
<1>3. JInv /\ [Next]_vars => JInv'
  BY StepKeeps, AbsentKept, PlanKept DEF JInv
<1>4. QED
  BY <1>2, <1>3, PTL DEF Spec

-----------------------------------------------------------------------------
(* The claim set, with one producer at a time.                             *)

OneProducer == \A p, q \in Producers : p = q

(* An enqueue call has claimed its key once it waits for room, and not     *)
(* before: what it has not claimed nobody else has queued or works on.     *)
CallsClaim ==
    \A p \in Producers :
      /\ producer[p].pc \in {"checked", "recorded"} => producer[p].item \notin owned
      /\ producer[p].pc = "blocked" => /\ producer[p].item \in owned
                                       /\ producer[p].item \notin SeqSet(queue)
                                       /\ producer[p].item # worker.item

Claims == QueuedOnce /\ CallsClaim

Held == {producer[p].item : p \in Blocked}

LEMMA QueuedParts ==
    QueuedOnce <=> /\ Once(queue) /\ worker.item \notin SeqSet(queue)
                   /\ owned = SeqSet(queue) \cup ({worker.item} \ {NoItem}) \cup Held
  BY DEF QueuedOnce, Once, Held

LEMMA QueuedPartsNext ==
    (QueuedOnce <=> /\ Once(queue) /\ worker.item \notin SeqSet(queue)
                    /\ owned = SeqSet(queue) \cup ({worker.item} \ {NoItem}) \cup Held)'
  BY QueuedParts, PTL

(* A consumer that has an item has its claim.                              *)
LEMMA QueuedClaims ==
    ASSUME QueuedOnce
    PROVE  /\ SeqSet(queue) \subseteq owned
           /\ worker.item # NoItem => worker.item \in owned
  BY QueuedParts

LEMMA HeldByCall ==
    ASSUME OneProducer, NEW p \in Producers
    PROVE  Held = IF producer[p].pc = "blocked" THEN {producer[p].item} ELSE {}
  BY DEF OneProducer, Held, Blocked

LEMMA CallClaims ==
    ASSUME OneProducer, producer \in [Producers -> [pc : {"idle", "checked", "recorded", "blocked"},
                                                    item : Items \cup {NoItem}]],
           NEW p \in Producers, NEW pc, NEW item, Call(p, pc, item)
    PROVE  /\ Held' = IF pc = "blocked" THEN {item} ELSE {}
           /\ /\ pc \in {"checked", "recorded"} => item \notin owned'
              /\ pc = "blocked" => /\ item \in owned' /\ item \notin SeqSet(queue')
                                   /\ item # worker'.item
              => CallsClaim'
<1>1. producer' = [producer EXCEPT ![p] = [pc |-> pc, item |-> item]]
  BY DEF Call
<1>2. \A q \in Producers : producer'[q] = [pc |-> pc, item |-> item]
  BY <1>1 DEF OneProducer
<1>3. Held' = IF pc = "blocked" THEN {item} ELSE {}
  BY <1>2 DEF Held, Blocked
<1>4. QED
  BY <1>2, <1>3 DEF CallsClaim

LEMMA ProducerClaims ==
    ASSUME IInv, OneProducer, Claims, NEW p \in Producers,
           \/ EnqueueRecord(p) \/ EnqueueRecordRaises(p) \/ EnqueueClaim(p) \/ EnqueuePut(p)
    PROVE  Claims'
<1>1. PICK k \in Keys : producer[p].item = Fresh(k) /\ producer[p].item[2] = k /\ Fresh(k) \in Items
  BY CallRuns DEF EnqueueRecord, EnqueueRecordRaises, EnqueueClaim, EnqueuePut
<1>2. producer \in [Producers -> [pc : {"idle", "checked", "recorded", "blocked"},
                                  item : Items \cup {NoItem}]]
  BY DEF IInv, TypeWork
<1>3. /\ Once(queue) /\ worker.item \notin SeqSet(queue)
      /\ owned = SeqSet(queue) \cup ({worker.item} \ {NoItem}) \cup Held
      /\ queue \in Seq(Items) /\ Fresh(k) # NoItem
      /\ Held = IF producer[p].pc = "blocked" THEN {Fresh(k)} ELSE {}
  BY <1>1, QueuedParts, HeldByCall, ItemShape DEF Claims, IInv, TypeMemory
<1>4. /\ producer[p].pc \in {"checked", "recorded"} => Fresh(k) \notin owned
      /\ producer[p].pc = "blocked" => /\ Fresh(k) \in owned /\ Fresh(k) \notin SeqSet(queue)
                                       /\ Fresh(k) # worker.item
  BY <1>1 DEF Claims, CallsClaim
<1>5. CASE EnqueueRecord(p) \/ EnqueueRecordRaises(p)
  <2>1. /\ UNCHANGED <<queue, owned, worker>> /\ producer[p].pc = "checked"
        /\ Call(p, "recorded", Fresh(k)) \/ Call(p, "idle", NoItem)
    BY <1>1, <1>5 DEF EnqueueRecord, EnqueueRecordRaises
  <2>2. CallsClaim' /\ Held' = {}
    BY <1>2, <1>4, <2>1, CallClaims
  <2>3. QueuedOnce'
    BY <1>3, <2>1, <2>2, QueuedPartsNext
  <2>4. QED
    BY <2>2, <2>3 DEF Claims
<1>6. CASE EnqueueClaim(p) \/ EnqueuePut(p)
  <2>1. /\ UNCHANGED worker /\ owned' = owned \cup {Fresh(k)}
        /\ \/ queue' = Append(queue, Fresh(k)) /\ Call(p, "idle", NoItem)
           \/ UNCHANGED queue /\ Call(p, "blocked", Fresh(k))
    BY <1>1, <1>4, <1>6 DEF EnqueueClaim, EnqueuePut
  <2>2. /\ Fresh(k) \notin SeqSet(queue) /\ Fresh(k) # worker.item
        /\ owned' = SeqSet(queue) \cup ({worker.item} \ {NoItem}) \cup {Fresh(k)}
    <3>1. producer[p].pc \in {"recorded", "blocked"}
      BY <1>6 DEF EnqueueClaim, EnqueuePut
    <3>2. QED
      BY <1>3, <1>4, <2>1, <3>1
  <2>3. CASE queue' = Append(queue, Fresh(k)) /\ Call(p, "idle", NoItem)
    <3>1. Once(queue') /\ SeqSet(queue') = SeqSet(queue) \cup {Fresh(k)}
      BY <1>1, <1>3, <2>2, <2>3, AppendSet
    <3>2. CallsClaim' /\ Held' = {}
      BY <1>2, <2>3, CallClaims
    <3>3. QueuedOnce'
      BY <1>3, <2>1, <2>2, <3>1, <3>2, QueuedPartsNext
    <3>4. QED
      BY <3>2, <3>3 DEF Claims
  <2>4. CASE UNCHANGED queue /\ Call(p, "blocked", Fresh(k))
    <3>1. Once(queue') /\ SeqSet(queue') = SeqSet(queue)
      BY <1>3, <2>4
    <3>2. Fresh(k) \in owned' /\ Fresh(k) \notin SeqSet(queue') /\ Fresh(k) # worker'.item
      BY <2>1, <2>2, <3>1
    <3>3. CallsClaim' /\ Held' = {Fresh(k)}
      BY <1>2, <2>4, <3>2, CallClaims
    <3>4. QueuedOnce'
      BY <1>3, <2>1, <2>2, <3>1, <3>3, QueuedPartsNext
    <3>5. QED
      BY <3>3, <3>4 DEF Claims
  <2>5. QED
    BY <2>1, <2>3, <2>4
<1>7. QED
  BY <1>5, <1>6

LEMMA CheckClaims ==
    ASSUME IInv, OneProducer, Claims, NEW p \in Producers, NEW k \in Keys, EnqueueCheck(p, k)
    PROVE  Claims'
<1>1. /\ UNCHANGED <<queue, owned, worker>> /\ producer[p].pc = "idle"
      /\ Call(p, "checked", Fresh(k)) /\ Fresh(k) \notin owned
  BY DEF EnqueueCheck, AlreadyOwned
<1>2. producer \in [Producers -> [pc : {"idle", "checked", "recorded", "blocked"},
                                  item : Items \cup {NoItem}]]
  BY DEF IInv, TypeWork
<1>3. CallsClaim' /\ Held' = {} /\ Held = {}
  BY <1>1, <1>2, CallClaims, HeldByCall
<1>4. QueuedOnce'
  BY <1>1, <1>3, QueuedParts, QueuedPartsNext DEF Claims
<1>5. QED
  BY <1>3, <1>4 DEF Claims

(* What the consumer does to the queue and the claims.                     *)
LEMMA WorkerKinds ==
    ASSUME IInv, WorkerStep \/ ProcessingRaises \/ GiveBackRaises
    PROVE  /\ UNCHANGED producer
           /\ \/ Take
              \/ UNCHANGED <<queue, owned>> /\ worker'.item = worker.item
              \/ UNCHANGED queue /\ owned' = owned \ {worker.item} /\ worker' = IdleWorker
<1>1. CASE SkipDismissed \/ Complete \/ GiveBack \/ GiveBackRaises
  BY <1>1 DEF SkipDismissed, Complete, GiveBack, GiveBackRaises, Finish, Drop
<1>2. CASE \/ MarkProcessing \/ RefuseProcessing \/ MarkIncidentProcessing \/ OpenIncident
           \/ (\E i \in Incidents : Correlate(i)) \/ Link \/ InvestigationCompletes
           \/ ReviewCompletes \/ InvestigationFails \/ ProcessingRaises
  <2>1. worker \in [pc : WorkerSteps, item : Items \cup {NoItem}, incident : {NoIncident} \cup Incidents]
    BY DEF IInv, TypeWork
  <2>2. QED
    BY <1>2, <2>1 DEF MarkProcessing, RefuseProcessing, MarkIncidentProcessing, OpenIncident, Correlate,
                      Link, InvestigationCompletes, ReviewCompletes, InvestigationFails,
                      ProcessingRaises, Goto, volatile
<1>3. CASE Take
  BY <1>3 DEF Take
<1>4. QED
  BY <1>1, <1>2, <1>3 DEF WorkerStep

LEMMA WorkerClaims ==
    ASSUME IInv, Claims, WorkerStep \/ ProcessingRaises \/ GiveBackRaises
    PROVE  Claims'
<1>1. /\ Once(queue) /\ worker.item \notin SeqSet(queue)
      /\ owned = SeqSet(queue) \cup ({worker.item} \ {NoItem}) \cup Held
      /\ queue \in Seq(Items) /\ NoItem \notin SeqSet(queue)
  BY QueuedParts, ItemAssumption DEF Claims, IInv, TypeMemory, SeqSet
<1>2. UNCHANGED producer /\ Held' = Held
  BY WorkerKinds DEF Held, Blocked
<1>3. CASE Take
  <2>1. /\ queue # <<>> /\ queue' = Tail(queue) /\ worker'.item = Head(queue) /\ UNCHANGED owned
        /\ worker.item = NoItem
    BY <1>3 DEF Take, At, IInv, WorkSound, IdleWorker
  <2>2. /\ SeqSet(queue) = SeqSet(queue') \cup {worker'.item}
        /\ Once(queue') /\ worker'.item \notin SeqSet(queue')
    BY <1>1, <2>1, TailSet
  <2>3. QueuedOnce'
    BY <1>1, <1>2, <2>1, <2>2, QueuedPartsNext
  <2>4. CallsClaim'
    BY <1>2, <2>1, <2>2 DEF Claims, CallsClaim
  <2>5. QED
    BY <2>3, <2>4 DEF Claims
<1>4. CASE UNCHANGED <<queue, owned>> /\ worker'.item = worker.item
  <2>1. QueuedOnce'
    BY <1>1, <1>2, <1>4, QueuedPartsNext
  <2>2. CallsClaim'
    BY <1>2, <1>4 DEF Claims, CallsClaim
  <2>3. QED
    BY <2>1, <2>2 DEF Claims
<1>5. CASE UNCHANGED queue /\ owned' = owned \ {worker.item} /\ worker' = IdleWorker
  <2>1. worker'.item = NoItem
    BY <1>5 DEF IdleWorker
  <2>2. worker.item \notin Held
    BY DEF Held, Blocked, Claims, CallsClaim
  <2>3. \A p \in Producers : producer[p].pc # "idle" => producer[p].item # NoItem
    BY CallRuns, ItemShape
  <2>4. NoItem \notin Held
    BY <2>3 DEF Held, Blocked
  <2>5. owned' = SeqSet(queue') \cup ({worker'.item} \ {NoItem}) \cup Held'
    BY <1>1, <1>2, <1>5, <2>1, <2>2, <2>4
  <2>6. QueuedOnce'
    BY <1>1, <1>5, <2>1, <2>5, QueuedPartsNext
  <2>7. CallsClaim'
    BY <1>2, <1>5, <2>1, <2>3 DEF Claims, CallsClaim
  <2>8. QED
    BY <2>6, <2>7 DEF Claims
<1>6. QED
  BY <1>3, <1>4, <1>5, WorkerKinds

(* Outside a started process the claims follow from the plan.              *)
LEMMA AsleepClaims == IInv /\ PlanSound /\ boot # "up" => Claims
<1> SUFFICES ASSUME IInv, PlanSound, boot # "up" PROVE Claims
  OBVIOUS
<1>1. worker.item = NoItem /\ \A p \in Producers : producer[p].pc = "idle"
  BY DEF IInv, Asleep, IdleWorker, IdleCall
<1>2. Once(queue) /\ SeqSet(queue) = owned /\ NoItem \notin SeqSet(queue)
  BY ItemAssumption DEF PlanSound, IInv, TypeMemory, SeqSet
<1>3. Held = {}
  BY <1>1 DEF Held, Blocked
<1>4. QED
  BY <1>1, <1>2, <1>3, QueuedParts DEF Claims, CallsClaim

LEMMA AsleepClaimsNext == (IInv /\ PlanSound /\ boot # "up" => Claims)'
  BY AsleepClaims, PTL

LEMMA InitClaims == Init => Claims
<1> SUFFICES ASSUME Init PROVE Claims
  OBVIOUS
<1>1. IInv /\ boot # "up" /\ PlanSound
  BY InitIInv, EmptyPlan, EmptySet DEF Init, PlanSound
<1>2. QED
  BY <1>1, AsleepClaims

LEMMA ClaimsKept ==
    ASSUME JInv, OneProducer, Claims, [Next]_vars, JInv'
    PROVE  Claims'
<1>1. CASE boot' # "up"
  BY <1>1, AsleepClaimsNext DEF JInv
<1>2. CASE UNCHANGED <<queue, owned, producer, worker>>
  BY <1>2 DEF Claims, QueuedOnce, Blocked, CallsClaim, SeqSet
<1>3. CASE WorkerStep \/ ProcessingRaises \/ GiveBackRaises
  BY <1>3, WorkerClaims DEF JInv
<1>4. ASSUME NEW p \in Producers,
             \/ ProducerStep(p) \/ EnqueueRecordRaises(p) \/ \E k \in Keys : EnqueueCheck(p, k)
      PROVE  Claims'
  BY <1>4, ProducerClaims, CheckClaims DEF JInv, ProducerStep
<1>5. CASE BootStep
  <2>1. CASE StartPipeline
    BY <1>2, <2>1 DEF StartPipeline, volatile
  <2>2. CASE ~ StartPipeline
    <3>1. boot' # "up"
      BY <1>5, <2>2 DEF BootStep, BootReset, BootRead, BootScan, BootReserve, BootSeed
    <3>2. QED
      BY <1>1, <3>1
  <2>3. QED
    BY <2>1, <2>2
<1>6. QED
  BY <1>1, <1>2, <1>3, <1>4, <1>5
     DEF Next, Environment, Dismiss, Crash, Stop, LoseMemory, DeleteIncident, vars, volatile

(* With one enqueue call at a time no observation stands in the queue      *)
(* twice or while it is processed, and no claim outlives its item, although*)
(* the claim comes two awaits after the check, a full queue may hold a call*)
(* up, and a restart seeds recoveries and waiting anomalies without a      *)
(* check.                                                                  *)
THEOREM NothingIsQueuedTwice ==
    ASSUME OneProducer
    PROVE  Spec => []QueuedOnce
<1>1. Init => Claims
  BY InitClaims
<1>2. JInv /\ JInv' /\ Claims /\ [Next]_vars => Claims'
  BY ClaimsKept
<1>3. Claims => QueuedOnce
  BY DEF Claims
<1>4. QED
  BY <1>1, <1>2, <1>3, JInductive, PTL DEF Spec

-----------------------------------------------------------------------------
(* What the startup must not forget.                                       *)

Planned(i) == i \in SeqSet(plan.recovery) \/ Recovery(i) \in SeqSet(queue)
Listed(k)  == \/ k \in SeqSet(plan.read) \cup SeqSet(plan.backlog)
              \/ Fresh(k) \in SeqSet(queue)
              \/ inbox[k].incident # NoIncident /\ Planned(inbox[k].incident)

(* Every open record is WAITING once the inbox is reset, so that the list  *)
(* has it or its limit leaves it out; what the list has is from then on    *)
(* still to be read, or planned, or seeded, itself or with its incident.   *)
(* The incidents to recover are planned, if the query returns them all.    *)
Covered ==
    /\ boot \in {"reset", "scan"} =>
         \A k \in Keys : inbox[k].state \in Open => inbox[k].state = "WAITING"
    /\ boot \in {"scan", "seed"} =>
         /\ \A k \in Keys : inbox[k].state \in Open => Listed(k) \/ k \in plan.left
         /\ Cardinality(Unfinished) <= IncidentLimit =>
              \A i \in DOMAIN incidents : incidents[i] = "ACTIVE" => Planned(i)

LEMMA SameUnfinished ==
    ASSUME UNCHANGED incidents
    PROVE  Cardinality(Unfinished)' = Cardinality(Unfinished)
<1>1. Unfinished' = Unfinished
  BY DEF Unfinished, Recoverable, AwaitsReviewOnly
<1>2. QED
  BY <1>1

LEMMA ReadCovers ==
    ASSUME JInv, Covered, BootRead
    PROVE  Covered'
<1>1. boot = "reset" /\ boot' = "scan" /\ UNCHANGED <<inbox, incidents, queue>>
  BY BootReads DEF JInv, IInv
<1>2. PICK list \in WaitingRecords, recovery \in RecoveryObservations :
        plan'.read = list /\ plan'.left = Waiting \ SeqSet(list) /\ plan'.recovery = recovery
  BY BootReads DEF JInv, IInv
<1>3. \A k \in Keys : inbox[k].state \in Open => inbox[k].state = "WAITING"
  BY <1>1 DEF Covered
<1>4. \A k \in Keys : inbox[k].state \in Open => k \in SeqSet(plan'.read) \/ k \in plan'.left
  BY <1>2, <1>3 DEF Waiting
<1>5. Cardinality(Unfinished) <= IncidentLimit =>
        \A i \in DOMAIN incidents : incidents[i] = "ACTIVE" => i \in SeqSet(plan'.recovery)
  BY <1>2, RecoveryRead DEF Recoverable, JInv, IInv
<1>6. QED
  BY <1>1, <1>3, <1>4, <1>5, SameUnfinished DEF Covered, Listed, Planned

LEMMA ScanCovers ==
    ASSUME JInv, Covered, BootScan
    PROVE  Covered'
<1>1. /\ boot = "scan" /\ boot' = "scan" /\ plan.read # <<>> /\ UNCHANGED <<incidents, queue>>
  BY DEF BootScan, volatile
<1>2. /\ plan.read \in Seq(Keys) /\ plan.recovery \in Seq(Incidents) /\ plan.backlog \in Seq(Keys)
      /\ DOMAIN plan = {"read", "left", "recovery", "backlog"}
      /\ plan = [read |-> plan.read, left |-> plan.left, recovery |-> plan.recovery,
                 backlog |-> plan.backlog]
  BY DEF JInv, IInv, TypeBoot
<1>3. PICK k \in Keys : /\ k = Head(plan.read)
                        /\ SeqSet(plan.read) = SeqSet(Tail(plan.read)) \cup {k}
  BY <1>1, <1>2, TailSet
<1>4. PICK i \in {NoIncident} \cup Incidents :
        inbox \in [Keys -> Documents] /\ inbox[k] \in Documents /\ i = inbox[k].incident
  BY <1>3 DEF JInv, IInv, TypeDurable, Documents
<1>5. /\ plan'.read = Tail(plan.read) /\ plan'.left = plan.left
      /\ \/ /\ i = NoIncident /\ UNCHANGED inbox
            /\ plan'.recovery = plan.recovery /\ plan'.backlog = Append(plan.backlog, k)
         \/ /\ Update(k, Released(inbox[k]))
            /\ plan'.recovery = plan.recovery /\ plan'.backlog = Append(plan.backlog, k)
         \/ /\ Update(k, Completed(inbox[k]))
            /\ plan'.recovery = plan.recovery /\ plan'.backlog = plan.backlog
         \/ /\ i # NoIncident /\ UNCHANGED inbox /\ plan'.backlog = plan.backlog
            /\ \/ plan'.recovery = plan.recovery /\ i \in SeqSet(plan.recovery)
               \/ plan'.recovery = Append(plan.recovery, i)
  BY <1>2, <1>3, <1>4 DEF BootScan
<1>6. SeqSet(Append(plan.backlog, k)) = SeqSet(plan.backlog) \cup {k}
  BY <1>2, <1>3, AppendSet
<1>7. i # NoIncident => SeqSet(Append(plan.recovery, i)) = SeqSet(plan.recovery) \cup {i}
  BY <1>2, <1>4, AppendSet
<1>8. \A l \in Keys : inbox[l].state \in Open =>
              inbox[l].state = "WAITING" /\ (Listed(l) \/ l \in plan.left)
  BY <1>1 DEF Covered
<1>9. Released(inbox[k]).state \in Open => Released(inbox[k]).state = "WAITING"
  BY <1>3, <1>8 DEF Released
<1>10. Completed(inbox[k]).state \notin Open
  BY <1>4 DEF Completed, Move, Open, Documents
<1>11. SeqSet(plan.recovery) \subseteq SeqSet(plan'.recovery)
  BY <1>5, <1>7
<1>12. \A l \in Keys \ {k} : inbox'[l] = inbox[l]
  BY <1>4, <1>5 DEF Update
<1>13. UNCHANGED inbox \/ inbox'[k] \in {Released(inbox[k]), Completed(inbox[k])}
  BY <1>3, <1>4, <1>5 DEF Update
<1>15. \A j : Planned(j) => Planned(j)'
  BY <1>1, <1>11 DEF Planned
<1>16. \A l \in Keys \ {k} : Listed(l) => Listed(l)'
  <2> SUFFICES ASSUME NEW l \in Keys \ {k}, Listed(l) PROVE Listed(l)'
    OBVIOUS
  <2>2. CASE l \in SeqSet(plan.read) \cup SeqSet(plan.backlog)
    <3>1. l \in SeqSet(plan'.read) \cup SeqSet(plan'.backlog)
      BY <1>3, <1>5, <1>6, <2>2
    <3>2. QED
      BY <3>1 DEF Listed
  <2>3. CASE Fresh(l) \in SeqSet(queue)
    BY <1>1, <2>3 DEF Listed
  <2>4. CASE inbox[l].incident # NoIncident /\ Planned(inbox[l].incident)
    BY <1>12, <1>15, <2>4 DEF Listed
  <2>5. QED
    BY <2>2, <2>3, <2>4 DEF Listed
<1>17. inbox'[k].state \in Open => Listed(k)'
  <2> SUFFICES ASSUME inbox'[k].state \in Open PROVE Listed(k)'
    OBVIOUS
  <2>1. CASE plan'.backlog = Append(plan.backlog, k)
    BY <1>6, <2>1 DEF Listed
  <2>2. CASE Update(k, Completed(inbox[k]))
    <3>1. inbox'[k] = Completed(inbox[k])
      BY <1>3, <1>4, <2>2 DEF Update
    <3>2. QED
      BY <1>10, <3>1
  <2>3. CASE /\ i # NoIncident /\ UNCHANGED inbox
             /\ \/ plan'.recovery = plan.recovery /\ i \in SeqSet(plan.recovery)
                \/ plan'.recovery = Append(plan.recovery, i)
    <3>1. i \in SeqSet(plan'.recovery)
      BY <1>7, <2>3
    <3>2. inbox'[k].incident = i
      BY <1>4, <2>3
    <3>3. QED
      BY <2>3, <3>1, <3>2 DEF Listed, Planned
  <2>4. QED
    BY <1>5, <2>1, <2>2, <2>3
<1>18. \A l \in Keys : inbox'[l].state \in Open => inbox'[l].state = "WAITING"
  BY <1>8, <1>9, <1>10, <1>12, <1>13
<1>19. Cardinality(Unfinished) <= IncidentLimit =>
         \A j \in DOMAIN incidents : incidents[j] = "ACTIVE" => Planned(j)'
  BY <1>1, <1>15 DEF Covered
<1>20. \A l \in Keys : inbox'[l].state \in Open => Listed(l)' \/ l \in plan'.left
  BY <1>5, <1>8, <1>12, <1>16, <1>17
<1>21. QED
  BY <1>1, <1>18, <1>19, <1>20, SameUnfinished DEF Covered

LEMMA ReserveCovers ==
    ASSUME JInv, Covered, BootReserve
    PROVE  Covered'
<1>1. /\ boot = "scan" /\ boot' = "seed" /\ inbox' = Reserved /\ UNCHANGED <<incidents, queue, plan>>
  BY DEF BootReserve, volatile
<1>2. \A k \in Keys : inbox'[k] = inbox[k] \/ inbox'[k] = Move(inbox[k], {"WAITING"}, "RECOVERY")
  BY <1>1, ReservedMild DEF JInv
<1>3. \A k \in Keys : inbox[k] \in Documents
  BY DEF JInv, IInv, TypeDurable
<1>4. \A k \in Keys : inbox'[k].incident = inbox[k].incident
                      /\ (inbox'[k].state \in Open => inbox[k].state \in Open)
  BY <1>2, <1>3 DEF Move, Open, Documents
<1>5. \A j : Planned(j)' <=> Planned(j)
  BY <1>1 DEF Planned
<1>6. \A k \in Keys : Listed(k) => Listed(k)'
  BY <1>1, <1>4, <1>5 DEF Listed
<1>7. QED
  BY <1>1, <1>4, <1>5, <1>6, SameUnfinished DEF Covered

LEMMA SeedCovers ==
    ASSUME JInv, Covered, BootSeed
    PROVE  Covered'
<1>1. /\ boot = "seed" /\ boot' = "seed" /\ UNCHANGED <<inbox, incidents>>
      /\ \/ /\ plan.recovery # <<>>
            /\ queue' = Append(queue, Recovery(Head(plan.recovery)))
            /\ plan' = [plan EXCEPT !.recovery = Tail(@)]
         \/ /\ plan.backlog # <<>>
            /\ queue' = Append(queue, Fresh(Head(plan.backlog)))
            /\ plan' = [plan EXCEPT !.backlog = Tail(@)]
  BY DEF BootSeed, durable
<1>2. /\ plan.recovery \in Seq(Incidents) /\ plan.backlog \in Seq(Keys)
      /\ queue \in Seq(Items) /\ DOMAIN plan = {"read", "left", "recovery", "backlog"}
  BY PlanTyped DEF JInv
<1>3. /\ plan'.read = plan.read /\ plan'.left = plan.left
      /\ \/ /\ plan'.backlog = plan.backlog
            /\ \E h \in SeqSet(plan.recovery) :
                 /\ SeqSet(plan.recovery) = SeqSet(plan'.recovery) \cup {h}
                 /\ SeqSet(queue') = SeqSet(queue) \cup {Recovery(h)}
         \/ /\ plan'.recovery = plan.recovery
            /\ \E h \in SeqSet(plan.backlog) :
                 /\ SeqSet(plan.backlog) = SeqSet(plan'.backlog) \cup {h}
                 /\ SeqSet(queue') = SeqSet(queue) \cup {Fresh(h)}
  <2>1. CASE /\ plan.recovery # <<>>
             /\ queue' = Append(queue, Recovery(Head(plan.recovery)))
             /\ plan' = [plan EXCEPT !.recovery = Tail(@)]
    <3> DEFINE h == Head(plan.recovery)
    <3>1. h \in Incidents /\ SeqSet(plan.recovery) = SeqSet(Tail(plan.recovery)) \cup {h}
      BY <1>2, <2>1, TailSet
    <3>2. plan'.recovery = Tail(plan.recovery) /\ plan'.backlog = plan.backlog /\ plan'.read = plan.read
          /\ plan'.left = plan.left
      BY <1>2, <2>1
    <3>3. queue' = Append(queue, Recovery(h))
      BY <2>1
    <3> HIDE DEF h
    <3>4. SeqSet(queue') = SeqSet(queue) \cup {Recovery(h)}
      BY <1>2, <3>1, <3>3, RecoveryShape, AppendSet
    <3>5. QED
      BY <3>1, <3>2, <3>4
  <2>2. CASE /\ plan.backlog # <<>>
             /\ queue' = Append(queue, Fresh(Head(plan.backlog)))
             /\ plan' = [plan EXCEPT !.backlog = Tail(@)]
    <3> DEFINE h == Head(plan.backlog)
    <3>1. h \in Keys /\ SeqSet(plan.backlog) = SeqSet(Tail(plan.backlog)) \cup {h}
      BY <1>2, <2>2, TailSet
    <3>2. plan'.backlog = Tail(plan.backlog) /\ plan'.recovery = plan.recovery /\ plan'.read = plan.read
          /\ plan'.left = plan.left
      BY <1>2, <2>2
    <3>3. queue' = Append(queue, Fresh(h))
      BY <2>2
    <3> HIDE DEF h
    <3>4. SeqSet(queue') = SeqSet(queue) \cup {Fresh(h)}
      BY <1>2, <3>1, <3>3, FreshShape, AppendSet
    <3>5. QED
      BY <3>1, <3>2, <3>4
  <2>3. QED
    BY <1>1, <2>1, <2>2
<1>4. \A j : Planned(j) => Planned(j)'
  BY <1>3 DEF Planned
<1>5. \A k \in Keys : Listed(k) => Listed(k)'
  BY <1>1, <1>3, <1>4 DEF Listed
<1>6. QED
  BY <1>1, <1>3, <1>4, <1>5, SameUnfinished DEF Covered

LEMMA CoveredKept ==
    ASSUME JInv, Covered, [Next]_vars
    PROVE  Covered'
<1>1. CASE Works \/ Ends \/ StartPipeline
  BY <1>1 DEF Works, Ends, StartPipeline, Covered
<1>2. CASE Nothing /\ (boot = "down" \/ UNCHANGED incidents)
  <2>1. CASE boot = "down"
    BY <1>2, <2>1 DEF Nothing, Covered
  <2>2. CASE UNCHANGED incidents
    BY <1>2, <2>2, SameUnfinished DEF Nothing, Covered, Listed, Planned
  <2>3. QED
    BY <1>2, <2>1, <2>2
<1>3. CASE BootReset
  <2>1. boot' = "reset" /\ \A k \in Keys :
            inbox'[k] = Move(inbox[k], {"PROCESSING", "RECOVERY"}, "WAITING")
    BY <1>3 DEF BootReset, Interrupted
  <2>2. \A k \in Keys : inbox'[k].state \in Open => inbox'[k].state = "WAITING"
    BY <2>1 DEF Move, Open, Documents, JInv, IInv, TypeDurable
  <2>3. QED
    BY <2>1, <2>2 DEF Covered
<1>4. QED
  BY <1>1, <1>2, <1>3, ReadCovers, ScanCovers, ReserveCovers, SeedCovers, Kinds DEF JInv, BootStep

(* A restart forgets nothing that it reads: when the pipeline starts, every*)
(* open anomaly that the limit of the list did not leave out is in the     *)
(* queue, itself or with its incident, and so is every unfinished incident *)
(* unless a query leaves one out, whatever the process that died was doing *)
(* and however many processes died before.                                 *)
THEOREM RestartForgetsNothing == Spec => RestartSeedsEverything
<1>1. Init => Covered
  BY DEF Init, Covered
<1>2. JInv /\ Covered /\ [Next]_vars => Covered'
  BY CoveredKept
<1>3. ASSUME JInv, Covered, [Next]_vars, boot # "up", boot' = "up"
      PROVE  /\ \A k \in Keys : inbox'[k].state \in Open => HasOwner(k)' \/ k \in plan.left
             /\ Cardinality(Unfinished) <= IncidentLimit =>
                  \A i \in DOMAIN incidents :
                     incidents[i] = "ACTIVE" => Recovery(i) \in SeqSet(queue')
  <2>1. StartPipeline
    <3>1. BootStep
      BY <1>3, Kinds DEF JInv, Works, Ends, Nothing
    <3>2. QED
      BY <1>3, <3>1 DEF BootStep, BootReset, BootRead, BootScan, BootReserve, BootSeed
  <2>2. /\ boot = "seed" /\ UNCHANGED <<inbox, incidents, queue>>
        /\ plan.recovery = <<>> /\ plan.backlog = <<>> /\ plan.read = <<>>
    BY <1>3, <2>1 DEF StartPipeline, durable, volatile, JInv, PlanSound
  <2>3. /\ \A i : Planned(i) => Recovery(i) \in SeqSet(queue')
        /\ \A k : Listed(k) => \/ Fresh(k) \in SeqSet(queue')
                               \/ /\ inbox'[k].incident # NoIncident
                                  /\ Recovery(inbox'[k].incident) \in SeqSet(queue')
    BY <2>2, EmptySet DEF Planned, Listed
  <2>4. ASSUME NEW k \in Keys, inbox'[k].state \in Open, k \notin plan.left PROVE HasOwner(k)'
    <3>1. Listed(k)
      BY <1>3, <2>2, <2>4 DEF Covered
    <3>2. CASE Fresh(k) \in SeqSet(queue')
      BY <3>2 DEF HasOwner
    <3>3. CASE inbox'[k].incident # NoIncident /\ Recovery(inbox'[k].incident) \in SeqSet(queue')
      <4>1. Recovery(inbox'[k].incident) \in {Recovery(i) : i \in {inbox'[k].incident} \ {NoIncident}}
        BY <3>3
      <4>2. QED
        BY <3>3, <4>1 DEF HasOwner
    <3>4. QED
      BY <2>3, <3>1, <3>2, <3>3
  <2>5. QED
    BY <1>3, <2>2, <2>3, <2>4 DEF Covered
<1>4. JInv /\ Covered /\ [Next]_vars =>
        [boot # "up" /\ boot' = "up" =>
           /\ \A k \in Keys : inbox'[k].state \in Open => HasOwner(k)' \/ k \in plan.left
           /\ Cardinality(Unfinished) <= IncidentLimit =>
                \A i \in DOMAIN incidents :
                   incidents[i] = "ACTIVE" => Recovery(i) \in SeqSet(queue')]_vars
  BY <1>3
<1>5. QED
  BY <1>1, <1>2, <1>4, JInductive, PTL DEF Spec, RestartSeedsEverything

(* The list leaves nothing out as long as there is room in it for every    *)
(* waiting record.                                                         *)
THEOREM ListLeavesNothingOut ==
    Spec => [][BootRead /\ Cardinality(Waiting) <= ListLimit => plan'.left = {}]_vars
<1>1. ASSUME JInv, BootRead, Cardinality(Waiting) <= ListLimit PROVE plan'.left = {}
  <2>1. PICK list \in WaitingRecords : plan'.left = Waiting \ SeqSet(list)
    BY <1>1, BootReads DEF JInv, IInv
  <2>2. SeqSet(list) = Waiting
    BY <1>1, WaitingRead
  <2>3. QED
    BY <2>1, <2>2
<1>2. JInv /\ [Next]_vars => [BootRead /\ Cardinality(Waiting) <= ListLimit => plan'.left = {}]_vars
  BY <1>1
<1>3. QED
  BY <1>2, JInductive, PTL DEF Spec

-----------------------------------------------------------------------------
(* The order of the FIFO, while no dependency has raised.                  *)

(* When a process reads its backlog, the list is not cut off.              *)
ListSuffices == boot = "reset" => Cardinality(Waiting) <= ListLimit

NothingLeft == plan.left = {}

LEMMA NothingLeftKept ==
    ASSUME JInv, ListSuffices, NothingLeft, [Next]_vars
    PROVE  NothingLeft'
<1>1. CASE BootRead
  <2>1. PICK list \in WaitingRecords : plan'.left = Waiting \ SeqSet(list) /\ boot = "reset"
    BY <1>1, BootReads DEF JInv, IInv
  <2>2. SeqSet(list) = Waiting
    BY <2>1, WaitingRead DEF ListSuffices
  <2>3. QED
    BY <2>1, <2>2 DEF NothingLeft
<1>2. CASE BootScan \/ BootSeed
  <2>1. plan \in PlanType
    BY DEF JInv, IInv, TypeBoot
  <2>2. plan'.left = plan.left
    BY <1>2, <2>1 DEF BootScan, BootSeed
  <2>3. QED
    BY <2>2 DEF NothingLeft
<1>3. CASE UNCHANGED plan \/ plan' = NoPlan
  BY <1>3 DEF NothingLeft, NoPlan
<1>4. QED
  BY <1>1, <1>2, <1>3, Kinds
     DEF JInv, Works, Ends, Nothing, BootStep, BootReset, BootReserve, StartPipeline, volatile

Before(l, k) == receivedAt[l] < receivedAt[k]

Queued(k)  == Fresh(k) \in SeqSet(queue)
Taken(k)   == worker.pc = "taken" /\ worker.item = Fresh(k)
Carried(k) == \E p \in Producers :
                producer[p].pc \in {"recorded", "blocked"} /\ producer[p].item = Fresh(k)
Lined(k)   == Queued(k) \/ Taken(k) \/ Carried(k)

(* No incident is deleted and no item fails.                               *)
Undisturbed ==
    /\ \A i \in DOMAIN incidents : incidents[i] # "GONE"
    /\ worker.pc # "failing"

(* What is read, planned, queued or about to be processed waits, or has    *)
(* been dismissed meanwhile; the waiting records of a started process      *)
(* belong to no incident.                                                  *)
SeedsWait ==
    /\ \A k \in SeqSet(plan.read) : inbox[k].state = "WAITING"
    /\ \A k \in SeqSet(plan.backlog) : Dismissable(inbox[k])
    /\ \A k \in Keys : Lined(k) => inbox[k].state \in {"WAITING", "DISMISSED"}
    /\ boot \in {"seed", "up"} =>
         \A k \in Keys : inbox[k].state = "WAITING" => inbox[k].incident = NoIncident

(* Whatever waits for itself is in the queue, before it or at its head.    *)
NobodyWaitsAside == boot = "up" => \A k \in Keys : Dismissable(inbox[k]) => Lined(k)

(* Ahead of a fresh anomaly stand all that arrived before it and wait: in  *)
(* the list that is read, in the backlog and in the queue.                 *)
ReadOrder ==
    \A a \in DOMAIN plan.read : \A l \in Keys : Before(l, plan.read[a]) /\ Dismissable(inbox[l]) =>
      l \in SeqSet(plan.backlog) \/ \E b \in DOMAIN plan.read : b < a /\ plan.read[b] = l
BacklogOrder ==
    \A a \in DOMAIN plan.backlog : \A l \in Keys : Before(l, plan.backlog[a]) /\ Dismissable(inbox[l]) =>
      Queued(l) \/ \E b \in DOMAIN plan.backlog : b < a /\ plan.backlog[b] = l
QueueOrder ==
    \A a \in DOMAIN queue : \A k, l \in Keys :
      queue[a] = Fresh(k) /\ Before(l, k) /\ Dismissable(inbox[l]) =>
        Taken(l) \/ \E b \in DOMAIN queue : b < a /\ queue[b] = Fresh(l)

Ranks   == SeedsWait /\ NobodyWaitsAside /\ ReadOrder /\ BacklogOrder /\ QueueOrder
InOrder == faults = 0 => Undisturbed /\ Ranks

LEMMA NothingRaised ==
    ASSUME IInv, [Next]_vars, faults' = 0
    PROVE  faults = 0 /\ ~ Raises
<1>1. faults \in Nat
  BY BoundsAssumption DEF IInv, TypeBoot
<1>2. ~ Raises
  BY <1>1 DEF Raises
<1>3. faults' = faults
  <2>2. CASE \E p \in Producers : ProducerStep(p)
    BY <2>2 DEF ProducerStep, EnqueueRecord, EnqueueClaim, EnqueuePut, budget
  <2>3. CASE WorkerStep
    BY <2>3 DEF WorkerStep, Take, MarkProcessing, SkipDismissed, RefuseProcessing, MarkIncidentProcessing,
                OpenIncident, Correlate, Link, InvestigationCompletes, ReviewCompletes,
                InvestigationFails, Complete, GiveBack, budget
  <2>4. CASE BootStep
    BY <2>4 DEF BootStep, BootReset, BootRead, BootScan, BootReserve, BootSeed, StartPipeline, budget
  <2>5. CASE Crash \/ Stop
    BY <2>5 DEF Crash, Stop, LoseMemory
  <2>6. CASE UNCHANGED vars
    BY <2>6 DEF vars, budget
  <2>7. CASE \E k \in Keys : Dismiss(k)
    BY <2>7 DEF Dismiss, budget
  <2>8. CASE \E p \in Producers, k \in Keys : EnqueueCheck(p, k)
    BY <2>8 DEF EnqueueCheck, budget
  <2>9. QED
    BY <1>2, <2>2, <2>3, <2>4, <2>5, <2>6, <2>7, <2>8
       DEF Next, Environment, EnqueueRecordRaises, ProcessingRaises, GiveBackRaises, DeleteIncident
<1>4. QED
  BY <1>2, <1>3

LEMMA UpMeansPlanned == JInv /\ boot = "up" => plan = NoPlan
  BY DEF JInv, PlanSound

(* A step of the started process that leaves the queue alone and takes     *)
(* waiting records, at most, out of the line.                              *)
Recedes(k) == \/ inbox'[k] = inbox[k]
              \/ inbox'[k].state # "WAITING" /\ (inbox'[k].state = "DISMISSED" \/ ~ Lined(k)')

LEMMA Recede ==
    ASSUME JInv, Ranks, boot = "up", UNCHANGED <<receivedAt, queue, boot, plan>>,
           \A k \in Keys : Recedes(k) /\ (Lined(k)' => Lined(k)),
           \A k \in Keys : Dismissable(inbox'[k]) => /\ Taken(k) => Taken(k)'
                                                     /\ Carried(k) => Carried(k)'
    PROVE  Ranks'
<1>1. plan = NoPlan /\ plan' = NoPlan
  BY UpMeansPlanned
<1>2. \A k \in Keys : Dismissable(inbox'[k]) => Dismissable(inbox[k])
  BY DEF Recedes, Dismissable
<1>3. SeedsWait'
  <2>1. \A k \in Keys : Lined(k)' => inbox'[k].state \in {"WAITING", "DISMISSED"}
    BY DEF Recedes, Ranks, SeedsWait
  <2>2. \A k \in Keys : inbox'[k].state = "WAITING" => inbox'[k].incident = NoIncident
    BY DEF Recedes, Ranks, SeedsWait
  <2>3. QED
    BY <1>1, <2>1, <2>2, EmptyPlan DEF SeedsWait
<1>4. NobodyWaitsAside'
  BY <1>2 DEF Ranks, NobodyWaitsAside, Lined, Queued
<1>5. ReadOrder' /\ BacklogOrder'
  BY <1>1 DEF ReadOrder, BacklogOrder, NoPlan
<1>6. QueueOrder'
  <2> SUFFICES ASSUME NEW a \in DOMAIN queue, NEW k \in Keys, NEW l \in Keys,
                      queue[a] = Fresh(k), Before(l, k), Dismissable(inbox'[l])
               PROVE  Taken(l)' \/ \E b \in DOMAIN queue : b < a /\ queue[b] = Fresh(l)
    BY DEF QueueOrder, Before
  <2>1. Taken(l) \/ \E b \in DOMAIN queue : b < a /\ queue[b] = Fresh(l)
    BY <1>2 DEF Ranks, QueueOrder
  <2>2. QED
    BY <2>1
<1>7. QED
  BY <1>3, <1>4, <1>5, <1>6 DEF Ranks

(* The end of a process and the beginning of its startup.                  *)
LEMMA EmptyRanks ==
    ASSUME worker' = IdleWorker, producer' = [p \in Producers |-> IdleCall], queue' = <<>>,
           plan' = NoPlan, boot' \in {"down", "reset"}
    PROVE  Ranks'
<1>1. \A k : ~ Lined(k)'
  BY EmptySet DEF Lined, Queued, Taken, Carried, IdleWorker, IdleCall
<1>2. SeedsWait' /\ NobodyWaitsAside'
  BY <1>1, EmptyPlan DEF SeedsWait, NobodyWaitsAside
<1>3. ReadOrder' /\ BacklogOrder' /\ QueueOrder'
  BY DEF ReadOrder, BacklogOrder, QueueOrder, NoPlan
<1>4. QED
  BY <1>2, <1>3 DEF Ranks

-----------------------------------------------------------------------------
(* Every step keeps the ranks.                                             *)

LEMMA ProducerTyped ==
    ASSUME IInv, OneProducer, NEW p \in Producers, NEW pc, NEW item, Call(p, pc, item)
    PROVE  /\ \A q \in Producers : producer'[q].pc = pc /\ producer'[q].item = item
           /\ \A q \in Producers : producer[q] = producer[p]
<1>1. producer' = [producer EXCEPT ![p] = [pc |-> pc, item |-> item]] /\ DOMAIN producer = Producers
  BY DEF Call, IInv, TypeWork
<1>2. \A q \in Producers : q = p
  BY DEF OneProducer
<1>3. QED
  BY <1>1, <1>2

(* A call that has checked its key finds it absent, or taken care of: a    *)
(* waiting record would have a claimed key.                                *)
LEMMA CheckedIsNew ==
    ASSUME JInv, Claims, OneProducer, Ranks, boot = "up", NEW p \in Producers, NEW k \in Keys,
           producer[p].pc \in {"checked", "recorded"}, producer[p].item = Fresh(k)
    PROVE  /\ ~ Queued(k) /\ ~ Taken(k)
           /\ producer[p].pc = "checked" => inbox[k].state # "WAITING"
<1>1. Fresh(k) \notin owned
  BY DEF Claims, CallsClaim
<1>2. /\ SeqSet(queue) \subseteq owned
      /\ worker.item # NoItem => worker.item \in owned
      /\ Fresh(k) # NoItem
  BY QueuedParts, FreshShape, ItemShape DEF Claims
<1>3. ~ Queued(k) /\ ~ Taken(k)
  BY <1>1, <1>2 DEF Queued, Taken
<1>4. ASSUME producer[p].pc = "checked" PROVE ~ Carried(k)
  BY <1>4 DEF Carried, OneProducer
<1>5. ASSUME producer[p].pc = "checked" PROVE inbox[k].state # "WAITING"
  BY <1>3, <1>4, <1>5 DEF Ranks, SeedsWait, NobodyWaitsAside, Lined, Dismissable
<1>6. QED
  BY <1>3, <1>5

LEMMA CheckRanks ==
    ASSUME JInv, OneProducer, Ranks, NEW p \in Producers, NEW k \in Keys, EnqueueCheck(p, k)
    PROVE  Ranks'
<1>1. /\ boot = "up" /\ producer[p].pc = "idle" /\ Call(p, "checked", Fresh(k))
      /\ UNCHANGED <<inbox, receivedAt, queue, worker, boot, plan>>
  BY DEF EnqueueCheck, durable
<1>2. \A l : ~ Carried(l) /\ ~ Carried(l)'
  <2>1. /\ \A q \in Producers : producer'[q].pc = "checked"
        /\ \A q \in Producers : producer[q] = producer[p]
    BY <1>1, ProducerTyped DEF JInv
  <2>2. QED
    BY <1>1, <2>1 DEF Carried
<1>3. \A l \in Keys : /\ Recedes(l) /\ (Lined(l)' => Lined(l))
                      /\ Taken(l) => Taken(l)'
  BY <1>1, <1>2 DEF Recedes, Lined, Queued, Taken
<1>4. QED
  BY <1>1, <1>2, <1>3, Recede

LEMMA RecordRanks ==
    ASSUME JInv, Claims, OneProducer, Ranks, NEW p \in Producers, EnqueueRecord(p)
    PROVE  Ranks'
<1>1. PICK k \in Keys : producer[p].item = Fresh(k) /\ producer[p].item[2] = k
  BY CallRuns DEF EnqueueRecord, JInv
<1>2. /\ boot = "up" /\ producer[p].pc = "checked"
      /\ UNCHANGED <<queue, worker, boot, plan>>
      /\ Update(k, Recorded(inbox[k])) /\ inbox \in [Keys -> Documents] /\ Receive(k)
      /\ Call(p, IF Recorded(inbox[k]).state = "WAITING" THEN "recorded" ELSE "idle",
                 IF Recorded(inbox[k]).state = "WAITING" THEN Fresh(k) ELSE NoItem)
  BY <1>1, CallRuns DEF EnqueueRecord, JInv, IInv, TypeDurable, Call
<1>3. ~ Queued(k) /\ ~ Taken(k) /\ inbox[k].state # "WAITING"
  BY <1>1, <1>2, CheckedIsNew
<1>4. \A l : ~ Carried(l)
  BY <1>2, ProducerTyped DEF Carried, JInv
<1>5. CASE inbox[k].state # "ABSENT"
  <2>1. Recorded(inbox[k]) = inbox[k]
    BY <1>5 DEF Recorded, Move
  <2>2. UNCHANGED <<inbox, receivedAt>> /\ Call(p, "idle", NoItem)
    BY <1>2, <1>3, <1>5, <2>1 DEF Update, Receive
  <2>3. \A l : ~ Carried(l)'
    <3>1. \A q \in Producers : producer'[q].pc = "idle"
      BY <2>2, ProducerTyped DEF JInv
    <3>2. QED
      BY <3>1 DEF Carried
  <2>4. \A l \in Keys : /\ Recedes(l) /\ (Lined(l)' => Lined(l))
                        /\ Taken(l) => Taken(l)'
    BY <1>2, <2>2, <2>3 DEF Recedes, Lined, Queued, Taken
  <2>5. QED
    BY <1>2, <1>4, <2>2, <2>4, Recede
<1>6. CASE inbox[k].state = "ABSENT"
  <2>1. /\ inbox'[k] = [state |-> "WAITING", incident |-> NoIncident]
        /\ \A l \in Keys \ {k} : inbox'[l] = inbox[l]
        /\ Call(p, "recorded", Fresh(k))
    <3>1. inbox[k] \in Documents /\ inbox[k].incident = NoIncident
      BY <1>2, <1>6 DEF JInv, AbsentIsFree
    <3>2. Recorded(inbox[k]).state = "WAITING" /\ Recorded(inbox[k]).incident = NoIncident
          /\ Recorded(inbox[k]) = [state |-> Recorded(inbox[k]).state,
                                   incident |-> Recorded(inbox[k]).incident]
      BY <1>6, <3>1 DEF Recorded, Move, Documents
    <3>3. QED
      BY <1>2, <1>6, <3>2 DEF Update
  <2>2. \A l \in Keys : Carried(l)' <=> l = k
    <3>1. \A q \in Producers : producer'[q].pc = "recorded" /\ producer'[q].item = Fresh(k)
      BY <2>1, ProducerTyped DEF JInv
    <3>2. QED
      BY <3>1, ItemsDiffer DEF Carried
  <2>3. \A l \in Keys \ {k} : (Lined(l)' <=> Lined(l)) /\ (Taken(l)' <=> Taken(l))
    BY <1>2, <1>4, <2>2 DEF Lined, Queued, Taken
  <2>4. plan = NoPlan /\ plan' = NoPlan
    BY <1>2, UpMeansPlanned
  <2>5. SeedsWait'
    <3>1. \A l \in Keys : Lined(l)' => inbox'[l].state \in {"WAITING", "DISMISSED"}
      BY <2>1, <2>3 DEF Ranks, SeedsWait
    <3>2. \A l \in Keys : inbox'[l].state = "WAITING" => inbox'[l].incident = NoIncident
      BY <1>2, <2>1 DEF Ranks, SeedsWait
    <3>3. QED
      BY <2>4, <3>1, <3>2, EmptyPlan DEF SeedsWait
  <2>6. NobodyWaitsAside'
    BY <1>2, <2>1, <2>2, <2>3 DEF Ranks, NobodyWaitsAside, Lined
  <2>7. ReadOrder' /\ BacklogOrder'
    BY <2>4 DEF ReadOrder, BacklogOrder, NoPlan
  <2>8. \A l, m \in Keys : m # k /\ Before(l, m)' => Before(l, m) /\ l # k
    <3>1. PICK now \in Seconds : /\ \A l \in Keys : receivedAt[l] <= now
                                 /\ receivedAt' = [receivedAt EXCEPT ![k] = now]
      BY <1>2, <1>6 DEF Receive
    <3>2. receivedAt \in [Keys -> Int] /\ now \in Int
      BY DEF JInv, IInv, TypeDurable, Seconds
    <3>3. QED
      BY <3>1, <3>2 DEF Before
  <2>9. QueueOrder'
    <3> SUFFICES ASSUME NEW a \in DOMAIN queue, NEW m \in Keys, NEW l \in Keys,
                        queue[a] = Fresh(m), Before(l, m)', Dismissable(inbox'[l])
                 PROVE  Taken(l)' \/ \E b \in DOMAIN queue : b < a /\ queue[b] = Fresh(l)
      BY <1>2 DEF QueueOrder
    <3>1. m # k
      BY <1>3 DEF Queued, SeqSet
    <3>2. Before(l, m) /\ l # k
      BY <2>8, <3>1
    <3>3. Taken(l) \/ \E b \in DOMAIN queue : b < a /\ queue[b] = Fresh(l)
      BY <2>1, <3>2 DEF Ranks, QueueOrder
    <3>4. QED
      BY <2>3, <3>2, <3>3
  <2>10. QED
    BY <2>5, <2>6, <2>7, <2>9 DEF Ranks
<1>7. QED
  BY <1>5, <1>6


(* An item joins the queue behind all that have to stand ahead of it.      *)
LEMMA AppendOrder ==
    ASSUME queue \in Seq(Items), NEW item \in Items, queue' = Append(queue, item), QueueOrder,
           UNCHANGED <<inbox, receivedAt>>, \A l \in Keys : Taken(l) => Taken(l)',
           \A k, l \in Keys : item = Fresh(k) /\ Before(l, k) /\ Dismissable(inbox[l]) =>
                              Queued(l) \/ Taken(l)
    PROVE  QueueOrder'
<1>1. /\ Len(queue) \in Nat /\ DOMAIN queue' = 1 .. Len(queue) + 1
      /\ DOMAIN queue = 1 .. Len(queue) /\ queue'[Len(queue) + 1] = item
      /\ \A n \in 1 .. Len(queue) : queue'[n] = queue[n]
  OBVIOUS
<1> SUFFICES ASSUME NEW a \in DOMAIN queue', NEW k \in Keys, NEW l \in Keys,
                    queue'[a] = Fresh(k), Before(l, k), Dismissable(inbox[l])
             PROVE  Taken(l)' \/ \E b \in DOMAIN queue' : b < a /\ queue'[b] = Fresh(l)
  BY DEF QueueOrder, Before
<1>2. \A b \in DOMAIN queue : b \in DOMAIN queue' /\ queue'[b] = queue[b]
  BY <1>1
<1>3. CASE a \in DOMAIN queue
  <2>1. Taken(l) \/ \E b \in DOMAIN queue : b < a /\ queue[b] = Fresh(l)
    BY <1>2, <1>3 DEF QueueOrder
  <2>2. QED
    BY <1>2, <2>1
<1>4. CASE a = Len(queue) + 1
  <2>1. Queued(l) \/ Taken(l)
    BY <1>1, <1>4
  <2>2. ASSUME Queued(l) PROVE \E b \in DOMAIN queue' : b < a /\ queue'[b] = Fresh(l)
    <3>1. PICK b \in DOMAIN queue : queue[b] = Fresh(l)
      BY <2>2 DEF Queued, SeqSet
    <3>2. b < a
      BY <1>1, <1>4, <3>1
    <3>3. QED
      BY <1>2, <3>1, <3>2
  <2>3. QED
    BY <2>1, <2>2
<1>5. QED
  BY <1>1, <1>3, <1>4

LEMMA PutRanks ==
    ASSUME JInv, OneProducer, Ranks, NEW p \in Producers, EnqueueClaim(p) \/ EnqueuePut(p)
    PROVE  Ranks'
<1>1. PICK k \in Keys : producer[p].item = Fresh(k) /\ Fresh(k) \in Items
  BY CallRuns DEF EnqueueClaim, EnqueuePut, JInv
<1>2. /\ boot = "up" /\ producer[p].pc \in {"recorded", "blocked"}
      /\ UNCHANGED <<inbox, receivedAt, worker, boot, plan>> /\ queue \in Seq(Items)
      /\ \/ queue' = Append(queue, Fresh(k)) /\ Call(p, "idle", NoItem)
         \/ UNCHANGED queue /\ Call(p, "blocked", Fresh(k))
  BY <1>1, CallRuns DEF EnqueueClaim, EnqueuePut, JInv, IInv, TypeMemory, durable
<1>3. \A l \in Keys : Carried(l) <=> l = k
  <2>1. \A q \in Producers : q = p
    BY DEF OneProducer
  <2>2. QED
    BY <1>1, <1>2, <2>1, ItemsDiffer DEF Carried
<1>4. CASE UNCHANGED queue /\ Call(p, "blocked", Fresh(k))
  <2>1. \A q \in Producers : producer'[q].pc = "blocked" /\ producer'[q].item = Fresh(k)
    BY <1>4, ProducerTyped DEF JInv
  <2>2. \A l \in Keys : Carried(l)' <=> l = k
    BY <2>1, ItemsDiffer DEF Carried
  <2>3. \A l \in Keys : /\ Recedes(l) /\ (Lined(l)' => Lined(l))
                        /\ Taken(l) => Taken(l)'
                        /\ Carried(l) => Carried(l)'
    BY <1>2, <1>3, <1>4, <2>2 DEF Recedes, Lined, Queued, Taken
  <2>4. QED
    BY <1>2, <1>4, <2>3, Recede
<1>5. CASE queue' = Append(queue, Fresh(k)) /\ Call(p, "idle", NoItem)
  <2>1. \A q \in Producers : producer'[q].pc = "idle"
    BY <1>5, ProducerTyped DEF JInv
  <2>2. \A l : ~ Carried(l)'
    BY <2>1 DEF Carried
  <2>3. SeqSet(queue') = SeqSet(queue) \cup {Fresh(k)}
    BY <1>1, <1>2, <1>5, AppendSet
  <2>4. \A l \in Keys : (Queued(l)' <=> Queued(l) \/ l = k) /\ (Taken(l)' <=> Taken(l))
    BY <1>2, <2>3, ItemsDiffer DEF Queued, Taken
  <2>5. \A l \in Keys : Lined(l)' <=> Lined(l)
    BY <1>3, <2>2, <2>4 DEF Lined
  <2>6. plan = NoPlan /\ plan' = NoPlan
    BY <1>2, UpMeansPlanned
  <2>7. SeedsWait'
    BY <1>2, <2>5, <2>6, EmptyPlan DEF Ranks, SeedsWait
  <2>8. NobodyWaitsAside'
    BY <1>2, <2>5 DEF Ranks, NobodyWaitsAside
  <2>9. ReadOrder' /\ BacklogOrder'
    BY <2>6 DEF ReadOrder, BacklogOrder, NoPlan
  <2>10. QueueOrder'
    <3>1. \A l \in Keys : Before(l, k) => l # k
      BY DEF Before, JInv, IInv, TypeDurable, Seconds
    <3>2. \A l \in Keys : Before(l, k) /\ Dismissable(inbox[l]) => Queued(l) \/ Taken(l)
      BY <1>2, <1>3, <3>1 DEF Ranks, NobodyWaitsAside, Lined
    <3>3. \A l \in Keys : Taken(l) => Taken(l)'
      BY <2>4
    <3>4. QED
      BY <1>1, <1>2, <1>5, <3>2, <3>3, AppendOrder, ItemsDiffer DEF Ranks
  <2>11. QED
    BY <2>7, <2>8, <2>9, <2>10 DEF Ranks
<1>6. QED
  BY <1>2, <1>4, <1>5

LEMMA TakeRanks ==
    ASSUME JInv, Ranks, Take
    PROVE  Ranks'
<1>1. /\ boot = "up" /\ worker.pc = "idle" /\ queue # <<>> /\ queue \in Seq(Items)
      /\ worker' = [pc |-> "taken", item |-> Head(queue), incident |-> NoIncident]
      /\ queue' = Tail(queue)
      /\ UNCHANGED <<inbox, receivedAt, producer, boot, plan>>
  BY DEF Take, At, durable, JInv, IInv, TypeMemory
<1>2. SeqSet(queue) = SeqSet(queue') \cup {Head(queue)}
  BY <1>1, TailSet
<1>3. \A l \in Keys : /\ ~ Taken(l) /\ (Taken(l)' <=> Head(queue) = Fresh(l))
                      /\ (Carried(l)' <=> Carried(l))
                      /\ (Queued(l) <=> Queued(l)' \/ Taken(l)')
  BY <1>1, <1>2 DEF Taken, Carried, Queued
<1>4. \A l \in Keys : Lined(l)' <=> Lined(l)
  BY <1>3 DEF Lined
<1>5. plan = NoPlan /\ plan' = NoPlan
  BY <1>1, UpMeansPlanned
<1>6. SeedsWait'
  BY <1>1, <1>4, <1>5, EmptyPlan DEF Ranks, SeedsWait
<1>7. NobodyWaitsAside'
  BY <1>1, <1>4 DEF Ranks, NobodyWaitsAside
<1>8. ReadOrder' /\ BacklogOrder'
  BY <1>5 DEF ReadOrder, BacklogOrder, NoPlan
<1>9. QueueOrder'
  <2>1. /\ Len(queue) \in Nat \ {0} /\ DOMAIN queue' = 1 .. Len(queue) - 1
        /\ DOMAIN queue = 1 .. Len(queue) /\ queue[1] = Head(queue)
        /\ \A n \in 1 .. Len(queue) - 1 : queue'[n] = queue[n + 1]
    BY <1>1
  <2> SUFFICES ASSUME NEW a \in DOMAIN queue', NEW m \in Keys, NEW l \in Keys,
                      queue'[a] = Fresh(m), Before(l, m), Dismissable(inbox[l])
               PROVE  Taken(l)' \/ \E b \in DOMAIN queue' : b < a /\ queue'[b] = Fresh(l)
    BY <1>1 DEF QueueOrder, Before
  <2>2. a + 1 \in DOMAIN queue /\ queue[a + 1] = Fresh(m)
    BY <2>1
  <2>3. PICK b \in DOMAIN queue : b < a + 1 /\ queue[b] = Fresh(l)
    BY <1>3, <2>2 DEF Ranks, QueueOrder
  <2>4. CASE b = 1
    BY <1>3, <2>1, <2>3, <2>4
  <2>5. CASE b # 1
    <3>1. b - 1 \in DOMAIN queue' /\ b - 1 < a /\ queue'[b - 1] = Fresh(l)
      BY <2>1, <2>3, <2>5
    <3>2. QED
      BY <3>1
  <2>6. QED
    BY <2>4, <2>5
<1>10. QED
  BY <1>6, <1>7, <1>8, <1>9 DEF Ranks

LEMMA DismissRanks ==
    ASSUME JInv, Ranks, NEW k \in Keys, Dismiss(k)
    PROVE  Ranks'
<1>1. /\ boot = "up" /\ Update(k, Dismissed(inbox[k])) /\ Dismissable(inbox[k])
      /\ UNCHANGED <<receivedAt, queue, worker, producer, boot, plan>>
      /\ inbox \in [Keys -> Documents] /\ inbox[k] \in Documents
  BY DEF Dismiss, volatile, JInv, IInv, TypeDurable
<1>2. /\ inbox'[k].state = "DISMISSED" /\ \A l \in Keys \ {k} : inbox'[l] = inbox[l]
  BY <1>1 DEF Update, Dismissed, Documents
<1>3. \A l \in Keys : /\ Recedes(l) /\ (Lined(l)' => Lined(l))
                      /\ Taken(l) => Taken(l)'
                      /\ Carried(l) => Carried(l)'
  BY <1>1, <1>2 DEF Recedes, Lined, Queued, Taken, Carried
<1>4. QED
  BY <1>1, <1>3, Recede


(* The consumer takes the anomaly it starts out of the line, and touches   *)
(* no record that is in it.                                                *)
LEMMA WorkerLeavesLine ==
    ASSUME JInv, Claims, Undisturbed, Ranks, WorkerStep, ~ Take
    PROVE  /\ worker'.pc \notin {"taken", "failing"}
           /\ \A l \in Keys : Taken(l) => inbox'[l].state \in {"PROCESSING", "DISMISSED"}
           /\ \A l \in Keys : \/ inbox'[l] = inbox[l]
                              \/ inbox'[l].state # "WAITING" /\ ~ Queued(l) /\ ~ Carried(l)
<1>1. /\ boot = "up" /\ worker.pc # "failing"
      /\ inbox \in [Keys -> Documents] /\ \A l \in Keys : inbox[l] \in Documents
      /\ worker \in [pc : WorkerSteps, item : Items \cup {NoItem},
                     incident : {NoIncident} \cup Incidents]
  <2>1. worker.pc # "idle" \/ Take
    BY DEF WorkerStep, MarkProcessing, SkipDismissed, RefuseProcessing, MarkIncidentProcessing,
           OpenIncident, Correlate, Link, InvestigationCompletes, ReviewCompletes,
           InvestigationFails, Complete, GiveBack, At
  <2>2. QED
    BY <2>1 DEF Undisturbed, JInv, IInv, Asleep, IdleWorker, TypeDurable, TypeWork
<1>2. \A l \in Keys : inbox[l].state \notin {"WAITING", "DISMISSED"} => ~ Queued(l) /\ ~ Carried(l)
  BY DEF Ranks, SeedsWait, Lined
<1>3. \A l \in Keys : inbox[l].state = "WAITING" => inbox[l].incident = NoIncident
  BY <1>1 DEF Ranks, SeedsWait
<1>4. CASE MarkProcessing
  <2>1. /\ worker.pc = "taken" /\ worker'.pc = "handling" /\ IsFresh(worker.item)
        /\ Update(Key, Processing(inbox[Key])) /\ inbox[Key].state \in Open
    BY <1>1, <1>4 DEF MarkProcessing, At, Goto, ProcessingFound
  <2>2. Key \in Keys /\ worker.item = Fresh(Key) /\ worker.item \in Items
    BY <2>1, WorkItem DEF JInv
  <2>3. /\ inbox'[Key].state = "PROCESSING" /\ \A l \in Keys \ {Key} : inbox'[l] = inbox[l]
    BY <1>1, <2>1, <2>2 DEF Update, Processing, Move, Documents, Open
  <2>4. ~ Queued(Key)
    BY <2>2 DEF Queued, Claims, QueuedOnce
  <2>5. ~ Carried(Key)
    BY <2>2, ItemShape, QueuedParts DEF Carried, Claims, CallsClaim
  <2>6. QED
    BY <2>1, <2>2, <2>3, <2>4, <2>5, ItemsDiffer DEF Taken
<1>5. CASE SkipDismissed
  <2>1. /\ worker'.pc = "idle" /\ UNCHANGED inbox /\ inbox[Key].state = "DISMISSED"
        /\ IsFresh(worker.item)
    BY <1>5 DEF SkipDismissed, Finish, IdleWorker, durable
  <2>2. QED
    BY <2>1, FreshShape DEF Taken, Key
<1>6. CASE RefuseProcessing
  <2>1. worker.pc = "taken" /\ IsFresh(worker.item) /\ inbox[Key].state \notin Open \cup {"DISMISSED"}
    BY <1>6 DEF RefuseProcessing, At, ProcessingFound
  <2>2. Key \in Keys /\ worker.item = Fresh(Key)
    BY <2>1, WorkItem DEF JInv
  <2>3. inbox[Key].state \in {"WAITING", "DISMISSED"}
    BY <2>1, <2>2 DEF Ranks, SeedsWait, Lined, Taken
  <2>4. QED
    BY <2>1, <2>3 DEF Open
<1>7. CASE MarkIncidentProcessing
  <2>1. /\ worker.pc = "taken" /\ ~ IsFresh(worker.item) /\ worker'.pc = "waiting"
        /\ inbox' = IncidentProcessing(inbox, Key)
    BY <1>1, <1>7 DEF MarkIncidentProcessing, At
  <2>2. Key # NoIncident
    BY <2>1, WorkItem DEF JInv, IInv, TypeDurable, NoIncident
  <2>3. \A l : ~ Taken(l)
    BY <2>1 DEF Taken, IsFresh, Fresh
  <2>4. ASSUME NEW l \in Keys
        PROVE  \/ inbox'[l] = inbox[l]
               \/ inbox'[l].state # "WAITING" /\ ~ Queued(l) /\ ~ Carried(l)
    <3>1. \/ inbox'[l] = inbox[l]
          \/ inbox[l].incident = Key /\ inbox'[l] = Move(inbox[l], {"WAITING", "RECOVERY"}, "PROCESSING")
      BY <2>1 DEF IncidentProcessing, OfIncident
    <3>2. QED
      BY <1>1, <1>2, <1>3, <2>2, <3>1 DEF Move, Documents
  <2>5. QED
    BY <2>1, <2>3, <2>4
<1>8. CASE Link
  <2>1. /\ worker.pc = "admitted" /\ worker'.pc = "waiting"
        /\ Update(Key, Linked(inbox[Key], worker.incident))
    BY <1>1, <1>8 DEF Link, At, Goto
  <2>2. Key \in Keys /\ inbox[Key].state = "PROCESSING"
    BY <2>1, WorkItem DEF JInv, IInv, WorkSound, WorkIsExclusive, Handling
  <2>3. /\ inbox'[Key].state = "PROCESSING" /\ \A l \in Keys \ {Key} : inbox'[l] = inbox[l]
    BY <1>1, <2>1, <2>2 DEF Update, Linked, LinkFound, Documents
  <2>4. QED
    BY <1>2, <2>1, <2>2, <2>3 DEF Taken
<1>9. CASE Complete
  <2>1. /\ worker.pc = "waiting" /\ worker'.pc = "idle"
        /\ inbox' = IF IsFresh(worker.item) THEN [inbox EXCEPT ![Key] = Completed(@)]
                    ELSE IncidentCompleted(inbox, Key)
    BY <1>9 DEF Complete, At, Finish, IdleWorker
  <2>2. ASSUME NEW l \in Keys
        PROVE  \/ inbox'[l] = inbox[l]
               \/ inbox'[l].state # "WAITING" /\ ~ Queued(l) /\ ~ Carried(l)
    <3>1. CASE IsFresh(worker.item)
      <4>1. Key \in Keys /\ inbox[Key].state = "PROCESSING"
        BY <2>1, <3>1, WorkItem DEF JInv, IInv, WorkIsExclusive, Handling
      <4>2. l # Key => inbox'[l] = inbox[l]
        BY <1>1, <2>1, <3>1
      <4>3. inbox'[Key].state = "COMPLETED"
        BY <1>1, <2>1, <3>1, <4>1 DEF Completed, Move, Open, Documents
      <4>4. QED
        BY <1>2, <4>1, <4>2, <4>3
    <3>2. CASE ~ IsFresh(worker.item)
      <4>1. Key # NoIncident
        BY <2>1, <3>2, WorkItem DEF JInv, IInv, TypeDurable, NoIncident
      <4>2. \/ inbox'[l] = inbox[l]
            \/ inbox[l].incident = Key /\ inbox'[l] = Move(inbox[l], Open, "COMPLETED")
        BY <2>1, <3>2 DEF IncidentCompleted, OfIncident
      <4>3. QED
        BY <1>1, <1>2, <1>3, <4>1, <4>2 DEF Move, Documents, Open
    <3>3. QED
      BY <3>1, <3>2
  <2>3. QED
    BY <2>1, <2>2 DEF Taken
<1>10. CASE \/ OpenIncident \/ (\E i \in Incidents : Correlate(i)) \/ InvestigationCompletes
            \/ ReviewCompletes \/ InvestigationFails
  <2>1. /\ UNCHANGED inbox /\ worker'.pc \notin {"taken", "failing"} /\ worker.pc # "taken"
    BY <1>1, <1>10 DEF OpenIncident, Correlate, InvestigationCompletes, ReviewCompletes,
                       InvestigationFails, At, Goto, durable, volatile
  <2>2. QED
    BY <2>1 DEF Taken
<1>11. QED
  BY <1>1, <1>4, <1>5, <1>6, <1>7, <1>8, <1>9, <1>10 DEF WorkerStep, GiveBack, At

LEMMA WorkerRanks ==
    ASSUME JInv, Claims, Undisturbed, Ranks, WorkerStep
    PROVE  Ranks'
<1>1. CASE ~ Take
  <2>1. /\ boot = "up" /\ UNCHANGED <<receivedAt, queue, producer, boot, plan>>
    <3>1. WorkerStep /\ UNCHANGED <<receivedAt, queue, producer, boot, plan>>
      BY <1>1 DEF WorkerStep, MarkProcessing, SkipDismissed, RefuseProcessing, MarkIncidentProcessing,
             OpenIncident, Correlate, Link, InvestigationCompletes, ReviewCompletes,
             InvestigationFails, Complete, GiveBack, durable, volatile
    <3>2. worker.pc # "idle"
      BY <1>1 DEF WorkerStep, MarkProcessing, SkipDismissed, RefuseProcessing, MarkIncidentProcessing,
             OpenIncident, Correlate, Link, InvestigationCompletes, ReviewCompletes,
             InvestigationFails, Complete, GiveBack, At
    <3>3. QED
      BY <3>1, <3>2 DEF JInv, IInv, Asleep, IdleWorker
  <2>2. \A l \in Keys : ~ Taken(l)' /\ (Queued(l)' <=> Queued(l)) /\ (Carried(l)' <=> Carried(l))
    BY <1>1, <2>1, WorkerLeavesLine DEF Taken, Queued, Carried
  <2>3. \A l \in Keys : Recedes(l) /\ (Lined(l)' => Lined(l))
    BY <1>1, <2>2, WorkerLeavesLine DEF Recedes, Lined
  <2>4. \A l \in Keys : Dismissable(inbox'[l]) => ~ Taken(l)
    BY <1>1, WorkerLeavesLine DEF Dismissable
  <2>5. QED
    BY <2>1, <2>2, <2>3, <2>4, Recede
<1>2. QED
  BY <1>1, TakeRanks


LEMMA UndisturbedKept ==
    ASSUME JInv, Claims, Undisturbed, Ranks, [Next]_vars, ~ Raises
    PROVE  Undisturbed'
<1>1. /\ incidents \in Seq({"ACTIVE", "REVIEW", "DONE", "GONE"})
      /\ worker \in [pc : WorkerSteps, item : Items \cup {NoItem}, incident : {NoIncident} \cup Incidents]
  BY DEF JInv, IInv, TypeDurable, TypeWork
<1>2. CASE UNCHANGED incidents /\ worker'.pc # "failing"
  BY <1>2 DEF Undisturbed
<1>3. CASE WorkerStep
  <2>1. worker'.pc # "failing"
    BY <1>3, WorkerLeavesLine DEF Take
  <2>2. CASE OpenIncident
    BY <1>1, <2>1, <2>2 DEF OpenIncident, Undisturbed
  <2>3. CASE InvestigationCompletes \/ ReviewCompletes \/ InvestigationFails
    <3>1. PICK status \in {"REVIEW", "DONE"} : SetIncident(status)
      BY <2>3 DEF InvestigationCompletes, ReviewCompletes, InvestigationFails
    <3>2. \A i \in DOMAIN incidents' : i \in DOMAIN incidents /\ incidents'[i] \in {incidents[i], status}
      BY <3>1 DEF SetIncident
    <3>3. QED
      BY <2>1, <3>2 DEF Undisturbed
  <2>4. QED
    BY <1>2, <1>3, <2>1, <2>2, <2>3
       DEF WorkerStep, Take, MarkProcessing, SkipDismissed, RefuseProcessing, MarkIncidentProcessing,
           Correlate, Link, Complete, GiveBack, durable
<1>4. CASE \E p \in Producers : ProducerStep(p) \/ \E k \in Keys : EnqueueCheck(p, k)
  BY <1>2, <1>4 DEF Undisturbed, ProducerStep, EnqueueRecord, EnqueueClaim, EnqueuePut, EnqueueCheck, durable
<1>5. CASE BootStep
  BY <1>2, <1>5 DEF Undisturbed, BootStep, BootReset, BootRead, BootScan, BootReserve, BootSeed,
                    StartPipeline, durable, volatile
<1>6. CASE Crash \/ Stop
  BY <1>2, <1>6 DEF Crash, Stop, LoseMemory, IdleWorker, durable
<1>7. CASE \E k \in Keys : Dismiss(k)
  BY <1>2, <1>7 DEF Undisturbed, Dismiss, volatile
<1>8. CASE UNCHANGED vars
  BY <1>2, <1>8 DEF Undisturbed, vars, durable, volatile
<1>9. QED
  BY <1>3, <1>4, <1>5, <1>6, <1>7, <1>8
     DEF Next, Environment, EnqueueRecordRaises, ProcessingRaises, GiveBackRaises, DeleteIncident

-----------------------------------------------------------------------------
(* The startup reads, plans and seeds in the order of the seconds.         *)

LEMMA NobodyInLine ==
    ASSUME JInv, boot # "up", queue = <<>>
    PROVE  \A k : ~ Lined(k)
<1>1. worker.pc = "idle" /\ \A p \in Producers : producer[p].pc = "idle"
  BY DEF JInv, IInv, Asleep, IdleWorker, IdleCall
<1>2. QED
  BY <1>1, EmptySet DEF Lined, Queued, Taken, Carried

LEMMA ReadRanks ==
    ASSUME JInv, Ranks, BootRead
    PROVE  Ranks'
<1>1. /\ boot = "reset" /\ boot' = "scan" /\ queue = <<>>
      /\ UNCHANGED <<inbox, receivedAt, queue, worker, producer>>
  BY BootReads DEF JInv, IInv, PlanSound
<1>2. PICK list \in WaitingRecords : plan'.read = list /\ plan'.backlog = <<>>
  BY BootReads DEF JInv, IInv
<1>3. /\ list \in Seq(Keys) /\ SeqSet(list) \subseteq Waiting
      /\ \A n \in DOMAIN list, k \in Waiting :
           receivedAt[k] < receivedAt[list[n]] => \E m \in 1 .. n - 1 : list[m] = k
  BY WaitingRead
<1>4. \A k : ~ Lined(k) /\ ~ Lined(k)'
  <2>1. \A k : ~ Lined(k)
    BY <1>1, NobodyInLine
  <2>2. QED
    BY <1>1, <2>1 DEF Lined, Queued, Taken, Carried
<1>5. SeedsWait'
  <2>1. \A k \in SeqSet(plan'.read) : inbox[k].state = "WAITING"
    BY <1>2, <1>3 DEF Waiting
  <2>2. QED
    BY <1>1, <1>2, <1>4, <2>1, EmptySet DEF SeedsWait
<1>6. NobodyWaitsAside' /\ BacklogOrder' /\ QueueOrder'
  BY <1>1, <1>2 DEF NobodyWaitsAside, BacklogOrder, QueueOrder
<1>7. ReadOrder'
  <2> SUFFICES ASSUME NEW a \in DOMAIN list, NEW l \in Keys, Before(l, list[a]), Dismissable(inbox[l])
               PROVE  \E b \in DOMAIN list : b < a /\ list[b] = l
    BY <1>1, <1>2 DEF ReadOrder, Before
  <2>1. l \in Waiting
    BY DEF Waiting, Dismissable
  <2>2. PICK b \in 1 .. a - 1 : list[b] = l
    BY <1>3, <2>1 DEF Before
  <2>3. b \in DOMAIN list /\ b < a
    BY <1>3
  <2>4. QED
    BY <2>2, <2>3
<1>8. QED
  BY <1>5, <1>6, <1>7 DEF Ranks

LEMMA ReserveRanks ==
    ASSUME JInv, Covered, NothingLeft, Ranks, BootReserve
    PROVE  Ranks'
<1>1. /\ boot = "scan" /\ boot' = "seed" /\ queue = <<>> /\ plan.read = <<>> /\ inbox' = Reserved
      /\ UNCHANGED <<receivedAt, queue, worker, producer, plan>>
      /\ \A i \in SeqSet(plan.recovery) : i # NoIncident
      /\ plan.backlog \in Seq(Keys)
  <2>1. plan.recovery \in Seq(Incidents) /\ plan.backlog \in Seq(Keys)
    BY PlanTyped DEF JInv
  <2>2. \A i \in SeqSet(plan.recovery) : i # NoIncident
    <3>1. \A n \in DOMAIN plan.recovery : plan.recovery[n] \in Incidents
      BY <2>1
    <3>2. NoIncident \notin Incidents
      BY BoundsAssumption DEF Incidents, NoIncident
    <3>3. QED
      BY <3>1, <3>2 DEF SeqSet
  <2>3. QED
    BY <2>1, <2>2 DEF BootReserve, volatile, JInv, PlanSound
<1>2. \A k \in Keys : /\ inbox[k] \in Documents
                      /\ inbox[k].incident \notin SeqSet(plan.recovery) => inbox'[k] = inbox[k]
                      /\ inbox[k].incident \in SeqSet(plan.recovery) =>
                            inbox'[k] = Move(inbox[k], {"WAITING"}, "RECOVERY")
  BY <1>1 DEF Reserved, RecoveryQueued, OfIncident, JInv, IInv, TypeDurable
<1>3. \A k \in Keys : Dismissable(inbox[k]) => inbox'[k] = inbox[k]
  BY <1>1, <1>2 DEF Dismissable
<1>4. \A k \in Keys : Dismissable(inbox'[k]) => Dismissable(inbox[k])
  BY <1>1, <1>2 DEF Dismissable, Move, Documents
<1>5. \A k : ~ Lined(k) /\ ~ Lined(k)'
  <2>1. \A k : ~ Lined(k)
    BY <1>1, NobodyInLine
  <2>2. QED
    BY <1>1, <2>1 DEF Lined, Queued, Taken, Carried
<1>6. ASSUME NEW k \in Keys, inbox'[k].state = "WAITING" PROVE inbox'[k].incident = NoIncident
  <2>1. inbox[k].state = "WAITING" /\ inbox'[k] = inbox[k]
        /\ inbox[k].incident \notin SeqSet(plan.recovery)
    BY <1>2, <1>6 DEF Move, Documents
  <2>2. Listed(k)
    BY <1>1, <2>1 DEF Covered, NothingLeft, Open
  <2>3. \A j : ~ (j \in SeqSet(queue))
    BY <1>1, EmptySet
  <2>4. CASE k \in SeqSet(plan.backlog)
    BY <2>1, <2>4 DEF Ranks, SeedsWait, Dismissable
  <2>5. QED
    BY <1>1, <2>1, <2>2, <2>3, <2>4, EmptySet DEF Listed, Planned
<1>7. SeedsWait'
  <2>1. SeqSet(plan.backlog) \subseteq Keys
    BY <1>1 DEF SeqSet
  <2>2. \A k \in SeqSet(plan.backlog) : Dismissable(inbox'[k])
    BY <1>3, <2>1 DEF Ranks, SeedsWait
  <2>3. QED
    BY <1>1, <1>5, <1>6, <2>2, EmptySet DEF SeedsWait
<1>8. NobodyWaitsAside' /\ ReadOrder' /\ QueueOrder'
  BY <1>1 DEF NobodyWaitsAside, ReadOrder, QueueOrder
<1>9. BacklogOrder'
  <2> SUFFICES ASSUME NEW a \in DOMAIN plan.backlog, NEW l \in Keys,
                      Before(l, plan.backlog[a]), Dismissable(inbox'[l])
               PROVE  Queued(l) \/ \E b \in DOMAIN plan.backlog : b < a /\ plan.backlog[b] = l
    BY <1>1 DEF BacklogOrder, Before, Queued
  <2>1. QED
    BY <1>4 DEF Ranks, BacklogOrder
<1>10. QED
  BY <1>7, <1>8, <1>9 DEF Ranks


LEMMA ScanRanks ==
    ASSUME JInv, Undisturbed, Ranks, BootScan
    PROVE  Ranks'
<1>1. /\ boot = "scan" /\ boot' = "scan" /\ queue = <<>> /\ plan.read # <<>>
      /\ UNCHANGED <<receivedAt, incidents, queue, worker, producer>>
  BY DEF BootScan, volatile, JInv, PlanSound
<1>2. /\ plan.read \in Seq(Keys) /\ plan.backlog \in Seq(Keys)
      /\ DOMAIN plan = {"read", "left", "recovery", "backlog"}
      /\ plan = [read |-> plan.read, left |-> plan.left, recovery |-> plan.recovery,
                 backlog |-> plan.backlog]
      /\ Once(plan.read) /\ SeqSet(plan.read) \cap SeqSet(plan.backlog) = {}
  BY DEF JInv, IInv, TypeBoot, PlanSound
<1>3. PICK k \in Keys : /\ k = Head(plan.read)
                        /\ SeqSet(plan.read) = SeqSet(Tail(plan.read)) \cup {k}
                        /\ k \notin SeqSet(Tail(plan.read))
  BY <1>1, <1>2, TailSet
<1>4. PICK i : /\ i = inbox[k].incident /\ (i = NoIncident \/ i \in DOMAIN incidents)
               /\ inbox \in [Keys -> Documents] /\ inbox[k] \in Documents
  BY <1>3 DEF JInv, IInv, TypeDurable, LinksKnown
<1>5. inbox[k].state = "WAITING"
  BY <1>3 DEF Ranks, SeedsWait
<1>6. /\ plan'.read = Tail(plan.read)
      /\ \/ /\ i = NoIncident /\ UNCHANGED inbox
            /\ plan'.backlog = Append(plan.backlog, k)
         \/ /\ Update(k, Completed(inbox[k])) /\ plan'.backlog = plan.backlog
         \/ /\ i # NoIncident /\ UNCHANGED inbox /\ plan'.backlog = plan.backlog
  <2>1. i # NoIncident => incidents[i] # "GONE"
    BY <1>4 DEF Undisturbed
  <2>2. QED
    BY <1>2, <1>3, <1>4, <2>1 DEF BootScan
<1>7. \A k1 : ~ Lined(k1) /\ ~ Lined(k1)'
  <2>1. \A k1 : ~ Lined(k1)
    BY <1>1, NobodyInLine
  <2>2. QED
    BY <1>1, <2>1 DEF Lined, Queued, Taken, Carried
<1>8. /\ \A l \in Keys \ {k} : inbox'[l] = inbox[l]
      /\ k \in SeqSet(plan'.backlog) => plan'.backlog = Append(plan.backlog, k)
      /\ Dismissable(inbox'[k]) => plan'.backlog = Append(plan.backlog, k) /\ UNCHANGED inbox
                                   /\ Dismissable(inbox[k])
      /\ plan'.backlog = Append(plan.backlog, k) => UNCHANGED inbox /\ Dismissable(inbox[k])
      /\ plan'.backlog = plan.backlog \/ plan'.backlog = Append(plan.backlog, k)
  <2>1. k \notin SeqSet(plan.backlog) /\ plan.backlog # Append(plan.backlog, k)
    <3>1. Len(Append(plan.backlog, k)) = Len(plan.backlog) + 1 /\ Len(plan.backlog) \in Nat
      BY <1>2, <1>3
    <3>2. QED
      BY <1>2, <1>3, <3>1
  <2>2. CASE Update(k, Completed(inbox[k])) /\ plan'.backlog = plan.backlog
    <3>1. inbox'[k].state = "COMPLETED" /\ \A l \in Keys \ {k} : inbox'[l] = inbox[l]
      BY <1>3, <1>4, <1>5, <2>2 DEF Update, Completed, Move, Open, Documents
    <3>2. QED
      BY <2>1, <2>2, <3>1 DEF Dismissable
  <2>3. CASE /\ i = NoIncident /\ UNCHANGED inbox
             /\ plan'.backlog = Append(plan.backlog, k)
    <3>1. Dismissable(inbox[k])
      BY <1>4, <1>5, <2>3 DEF Dismissable
    <3>2. QED
      BY <2>3, <3>1
  <2>4. CASE i # NoIncident /\ UNCHANGED inbox /\ plan'.backlog = plan.backlog
    <3>1. ~ Dismissable(inbox[k])
      BY <1>4, <2>4 DEF Dismissable
    <3>2. QED
      BY <2>1, <2>4, <3>1
  <2>5. QED
    BY <1>6, <2>2, <2>3, <2>4
<1>9. SeqSet(Append(plan.backlog, k)) = SeqSet(plan.backlog) \cup {k}
  BY <1>2, <1>3, AppendSet
<1>10. SeedsWait'
  <2>1. \A l \in SeqSet(plan'.read) : inbox'[l].state = "WAITING"
    <3>1. \A l \in SeqSet(plan'.read) : l \in SeqSet(plan.read) /\ l # k /\ l \in Keys
      <4>1. SeqSet(plan.read) \subseteq Keys
        BY <1>2 DEF SeqSet
      <4>2. QED
        BY <1>3, <1>6, <4>1
    <3>2. QED
      BY <1>8, <3>1 DEF Ranks, SeedsWait
  <2>2. \A l \in SeqSet(plan'.backlog) : Dismissable(inbox'[l])
    <3> SUFFICES ASSUME NEW l \in SeqSet(plan'.backlog) PROVE Dismissable(inbox'[l])
      OBVIOUS
    <3>1. SeqSet(plan.backlog) \subseteq Keys
      BY <1>2 DEF SeqSet
    <3>2. CASE l = k
      BY <1>8, <3>2
    <3>3. CASE l # k
      <4>1. l \in SeqSet(plan.backlog)
        BY <1>8, <1>9, <3>3
      <4>2. QED
        BY <1>8, <3>1, <3>3, <4>1 DEF Ranks, SeedsWait
    <3>4. QED
      BY <3>2, <3>3
  <2>3. QED
    BY <1>1, <1>7, <2>1, <2>2 DEF SeedsWait
<1>11. NobodyWaitsAside' /\ QueueOrder'
  BY <1>1 DEF NobodyWaitsAside, QueueOrder
<1>12. \A l \in Keys : Dismissable(inbox'[l]) => Dismissable(inbox[l])
  BY <1>8
<1>13. /\ Len(plan.read) \in Nat \ {0} /\ DOMAIN plan.read = 1 .. Len(plan.read)
       /\ DOMAIN plan'.read = 1 .. Len(plan.read) - 1 /\ plan.read[1] = k
       /\ \A n \in 1 .. Len(plan.read) - 1 : plan'.read[n] = plan.read[n + 1]
  BY <1>1, <1>2, <1>3, <1>6
<1>14. ReadOrder'
  <2> SUFFICES ASSUME NEW a \in DOMAIN plan'.read, NEW l \in Keys,
                      Before(l, plan'.read[a]), Dismissable(inbox'[l])
               PROVE  \/ l \in SeqSet(plan'.backlog)
                      \/ \E b \in DOMAIN plan'.read : b < a /\ plan'.read[b] = l
    BY <1>1 DEF ReadOrder, Before
  <2>1. a + 1 \in DOMAIN plan.read /\ plan.read[a + 1] = plan'.read[a]
    BY <1>13
  <2>2. l \in SeqSet(plan.backlog) \/ \E b \in DOMAIN plan.read : b < a + 1 /\ plan.read[b] = l
    BY <1>12, <2>1 DEF Ranks, ReadOrder
  <2>3. CASE l \in SeqSet(plan.backlog)
    BY <1>8, <1>9, <2>3
  <2>4. CASE l = k
    BY <1>8, <1>9, <2>4
  <2>5. ASSUME NEW b \in DOMAIN plan.read, b < a + 1, plan.read[b] = l, l # k
        PROVE  \E c \in DOMAIN plan'.read : c < a /\ plan'.read[c] = l
    <3>1. b # 1
      BY <1>13, <2>5
    <3>2. b - 1 \in DOMAIN plan'.read /\ b - 1 < a /\ plan'.read[b - 1] = l
      BY <1>13, <2>5, <3>1
    <3>3. QED
      BY <3>2
  <2>6. QED
    BY <2>2, <2>3, <2>4, <2>5
<1>15. BacklogOrder'
  <2>1. /\ Len(plan.backlog) \in Nat /\ DOMAIN plan.backlog = 1 .. Len(plan.backlog)
        /\ DOMAIN Append(plan.backlog, k) = 1 .. Len(plan.backlog) + 1
        /\ Append(plan.backlog, k)[Len(plan.backlog) + 1] = k
        /\ \A n \in 1 .. Len(plan.backlog) : Append(plan.backlog, k)[n] = plan.backlog[n]
    BY <1>2, <1>3
  <2> SUFFICES ASSUME NEW a \in DOMAIN plan'.backlog, NEW l \in Keys,
                      Before(l, plan'.backlog[a]), Dismissable(inbox'[l])
               PROVE  \E b \in DOMAIN plan'.backlog : b < a /\ plan'.backlog[b] = l
    BY <1>1 DEF BacklogOrder, Before
  <2>2. CASE a \in DOMAIN plan.backlog
    <3>1. plan'.backlog[a] = plan.backlog[a]
          /\ \A b \in DOMAIN plan.backlog : b \in DOMAIN plan'.backlog /\ plan'.backlog[b] = plan.backlog[b]
      BY <1>8, <2>1, <2>2
    <3>2. PICK b \in DOMAIN plan.backlog : b < a /\ plan.backlog[b] = l
      BY <1>7, <1>12, <2>2, <3>1 DEF Ranks, BacklogOrder, Lined
    <3>3. QED
      BY <3>1, <3>2
  <2>3. CASE a \notin DOMAIN plan.backlog
    <3>1. plan'.backlog = Append(plan.backlog, k) /\ a = Len(plan.backlog) + 1 /\ plan'.backlog[a] = k
      BY <1>8, <2>1, <2>3
    <3>2. 1 \in DOMAIN plan.read /\ plan.read[1] = k /\ \A b \in DOMAIN plan.read : ~ (b < 1)
      BY <1>13
    <3>3. l \in SeqSet(plan.backlog)
      BY <1>12, <3>1, <3>2 DEF Ranks, ReadOrder
    <3>4. PICK b \in DOMAIN plan.backlog : plan.backlog[b] = l
      BY <3>3 DEF SeqSet
    <3>5. b \in DOMAIN plan'.backlog /\ b < a /\ plan'.backlog[b] = l
      BY <2>1, <3>1, <3>4
    <3>6. QED
      BY <3>5
  <2>4. QED
    BY <2>2, <2>3
<1>16. QED
  BY <1>10, <1>11, <1>14, <1>15 DEF Ranks


LEMMA SeedRanks ==
    ASSUME JInv, Ranks, BootSeed
    PROVE  Ranks'
<1>1. /\ boot = "seed" /\ boot' = "seed" /\ plan.read = <<>>
      /\ UNCHANGED <<inbox, receivedAt, worker, producer>>
      /\ \/ /\ plan.recovery # <<>>
            /\ queue' = Append(queue, Recovery(Head(plan.recovery)))
            /\ plan' = [plan EXCEPT !.recovery = Tail(@)]
         \/ /\ plan.backlog # <<>>
            /\ queue' = Append(queue, Fresh(Head(plan.backlog)))
            /\ plan' = [plan EXCEPT !.backlog = Tail(@)]
  BY DEF BootSeed, durable, JInv, PlanSound
<1>2. /\ plan.recovery \in Seq(Incidents) /\ plan.backlog \in Seq(Keys)
      /\ queue \in Seq(Items) /\ DOMAIN plan = {"read", "left", "recovery", "backlog"}
  BY PlanTyped DEF JInv
<1>3. \A l : (Taken(l)' <=> Taken(l)) /\ (Carried(l)' <=> Carried(l))
  BY <1>1 DEF Taken, Carried
<1>4. NobodyWaitsAside'
  BY <1>1 DEF NobodyWaitsAside
<1>5. \A l : ~ Taken(l)
  BY <1>1 DEF JInv, IInv, Asleep, IdleWorker, Taken
<1>6. CASE /\ plan.recovery # <<>>
           /\ queue' = Append(queue, Recovery(Head(plan.recovery)))
           /\ plan' = [plan EXCEPT !.recovery = Tail(@)]
  <2>1. PICK h \in Incidents : h = Head(plan.recovery)
    BY <1>2, <1>6
  <2>2. /\ queue' = Append(queue, Recovery(h)) /\ Recovery(h) \in Items
        /\ plan'.read = plan.read /\ plan'.backlog = plan.backlog
    BY <1>2, <1>6, <2>1, RecoveryShape
  <2>3. \A l : Queued(l)' <=> Queued(l)
    <3>1. SeqSet(queue') = SeqSet(queue) \cup {Recovery(h)}
      BY <1>2, <2>2, AppendSet
    <3>2. QED
      BY <3>1, ItemsDiffer DEF Queued
  <2>4. SeedsWait'
    BY <1>1, <1>3, <2>2, <2>3 DEF Ranks, SeedsWait, Lined
  <2>5. ReadOrder' /\ BacklogOrder'
    BY <1>1, <2>2, <2>3 DEF Ranks, ReadOrder, BacklogOrder, Before
  <2>6. QueueOrder'
    BY <1>1, <1>2, <1>3, <2>2, AppendOrder, ItemsDiffer DEF Ranks
  <2>7. QED
    BY <1>4, <2>4, <2>5, <2>6 DEF Ranks
<1>7. CASE /\ plan.backlog # <<>>
           /\ queue' = Append(queue, Fresh(Head(plan.backlog)))
           /\ plan' = [plan EXCEPT !.backlog = Tail(@)]
  <2>1. PICK h \in Keys : h = Head(plan.backlog)
    BY <1>2, <1>7
  <2>2. /\ queue' = Append(queue, Fresh(h)) /\ Fresh(h) \in Items
        /\ plan'.read = plan.read /\ plan'.backlog = Tail(plan.backlog)
        /\ SeqSet(plan.backlog) = SeqSet(plan'.backlog) \cup {h}
    BY <1>2, <1>7, <2>1, FreshShape, TailSet
  <2>3. \A l : Queued(l)' <=> Queued(l) \/ l = h
    <3>1. SeqSet(queue') = SeqSet(queue) \cup {Fresh(h)}
      BY <1>2, <2>2, AppendSet
    <3>2. QED
      BY <3>1, ItemsDiffer DEF Queued
  <2>4. SeedsWait'
    <3>1. inbox[h].state = "WAITING"
      BY <2>2 DEF Ranks, SeedsWait, Dismissable
    <3>2. \A l \in Keys : Lined(l)' => inbox[l].state \in {"WAITING", "DISMISSED"}
      BY <1>3, <2>3, <3>1 DEF Ranks, SeedsWait, Lined
    <3>3. QED
      BY <1>1, <2>2, <3>2 DEF Ranks, SeedsWait
  <2>5. /\ Len(plan.backlog) \in Nat \ {0} /\ DOMAIN plan.backlog = 1 .. Len(plan.backlog)
        /\ DOMAIN plan'.backlog = 1 .. Len(plan.backlog) - 1 /\ plan.backlog[1] = h
        /\ \A n \in 1 .. Len(plan.backlog) - 1 : plan'.backlog[n] = plan.backlog[n + 1]
    BY <1>2, <1>7, <2>1, <2>2
  <2>6. ReadOrder'
    BY <1>1, <2>2 DEF ReadOrder
  <2>7. BacklogOrder'
    <3> SUFFICES ASSUME NEW a \in DOMAIN plan'.backlog, NEW l \in Keys,
                        Before(l, plan'.backlog[a]), Dismissable(inbox[l])
                 PROVE  Queued(l)' \/ \E b \in DOMAIN plan'.backlog : b < a /\ plan'.backlog[b] = l
      BY <1>1 DEF BacklogOrder, Before
    <3>1. a + 1 \in DOMAIN plan.backlog /\ plan.backlog[a + 1] = plan'.backlog[a]
      BY <2>5
    <3>2. Queued(l) \/ \E b \in DOMAIN plan.backlog : b < a + 1 /\ plan.backlog[b] = l
      BY <3>1 DEF Ranks, BacklogOrder
    <3>3. CASE Queued(l) \/ l = h
      BY <2>3, <3>3
    <3>4. ASSUME NEW b \in DOMAIN plan.backlog, b < a + 1, plan.backlog[b] = l, l # h
          PROVE  \E c \in DOMAIN plan'.backlog : c < a /\ plan'.backlog[c] = l
      <4>1. b # 1
        BY <2>5, <3>4
      <4>2. b - 1 \in DOMAIN plan'.backlog /\ b - 1 < a /\ plan'.backlog[b - 1] = l
        BY <2>5, <3>4, <4>1
      <4>3. QED
        BY <4>2
    <3>5. QED
      BY <3>2, <3>3, <3>4
  <2>8. QueueOrder'
    <3>1. 1 \in DOMAIN plan.backlog /\ \A b \in DOMAIN plan.backlog : ~ (b < 1)
      BY <2>5
    <3>2. \A l \in Keys : Before(l, h) /\ Dismissable(inbox[l]) => Queued(l)
      BY <2>5, <3>1 DEF Ranks, BacklogOrder
    <3>3. \A k, l \in Keys : Fresh(h) = Fresh(k) /\ Before(l, k) /\ Dismissable(inbox[l]) => Queued(l)
      BY <3>2, ItemsDiffer
    <3>4. QED
      BY <1>1, <1>2, <1>3, <2>2, <3>3, AppendOrder DEF Ranks
  <2>9. QED
    BY <1>4, <2>4, <2>6, <2>7, <2>8 DEF Ranks
<1>8. QED
  BY <1>1, <1>6, <1>7

LEMMA StartRanks ==
    ASSUME JInv, Covered, NothingLeft, Ranks, StartPipeline
    PROVE  Ranks'
<1>1. /\ boot = "seed" /\ boot' = "up" /\ plan.read = <<>> /\ plan.recovery = <<>>
      /\ plan.backlog = <<>> /\ plan' = NoPlan
      /\ UNCHANGED <<inbox, receivedAt, queue, worker, producer>>
  BY DEF StartPipeline, durable, volatile, JInv, PlanSound
<1>2. \A l : (Taken(l)' <=> Taken(l)) /\ (Lined(l)' <=> Lined(l)) /\ (Queued(l)' <=> Queued(l))
  BY <1>1 DEF Taken, Lined, Queued, Carried
<1>3. SeedsWait'
  BY <1>1, <1>2, EmptyPlan DEF Ranks, SeedsWait
<1>4. NobodyWaitsAside'
  <2> SUFFICES ASSUME NEW k \in Keys, Dismissable(inbox[k]) PROVE Lined(k)
    BY <1>1, <1>2 DEF NobodyWaitsAside
  <2>1. Listed(k) /\ inbox[k].incident = NoIncident
    BY <1>1 DEF Covered, NothingLeft, Open, Dismissable
  <2>2. QED
    BY <1>1, <2>1, EmptySet DEF Listed, Lined, Queued
<1>5. ReadOrder' /\ BacklogOrder'
  BY <1>1 DEF ReadOrder, BacklogOrder, NoPlan
<1>6. QueueOrder'
  BY <1>1, <1>2 DEF Ranks, QueueOrder, Before
<1>7. QED
  BY <1>3, <1>4, <1>5, <1>6 DEF Ranks

LEMMA RanksKept ==
    ASSUME JInv, OneProducer, NothingLeft, Claims, Covered, Undisturbed, Ranks,
           [Next]_vars, ~ Raises
    PROVE  Ranks'
<1>1. CASE UNCHANGED <<inbox, receivedAt, queue, worker, producer, boot, plan>>
  BY <1>1 DEF Ranks, SeedsWait, NobodyWaitsAside, ReadOrder, BacklogOrder, QueueOrder, Before,
              Lined, Queued, Taken, Carried
<1>2. ASSUME NEW p \in Producers, ProducerStep(p) PROVE Ranks'
  BY <1>2, RecordRanks, PutRanks DEF ProducerStep
<1>3. ASSUME NEW p \in Producers, NEW k \in Keys, EnqueueCheck(p, k) PROVE Ranks'
  BY <1>3, CheckRanks
<1>4. CASE Crash \/ Stop
  BY <1>4, EmptyRanks DEF Crash, Stop, LoseMemory
<1>5. CASE BootReset
  <2>1. /\ worker' = IdleWorker /\ producer' = [p \in Producers |-> IdleCall]
        /\ queue' = <<>> /\ plan' = NoPlan /\ boot' = "reset"
    BY <1>5 DEF BootReset, volatile, JInv, IInv, Asleep, PlanSound
  <2>2. QED
    BY <2>1, EmptyRanks
<1>6. CASE BootStep
  BY <1>5, <1>6, ReadRanks, ScanRanks, ReserveRanks, SeedRanks, StartRanks DEF BootStep
<1>7. CASE WorkerStep
  BY <1>7, WorkerRanks
<1>8. ASSUME NEW k \in Keys, Dismiss(k) PROVE Ranks'
  BY <1>8, DismissRanks
<1>9. CASE UNCHANGED vars
  BY <1>1, <1>9 DEF vars, durable, volatile
<1>10. QED
  BY <1>2, <1>3, <1>4, <1>6, <1>7, <1>8, <1>9
     DEF Next, Environment, EnqueueRecordRaises, ProcessingRaises, GiveBackRaises, DeleteIncident

(* As long as no attempt fails, no anomaly is started while one of an      *)
(* earlier second that belongs to no incident is waiting, whatever the     *)
(* operator dismisses, whenever the process dies and however often, with   *)
(* one enqueue call at a time and a list that has room for every waiting   *)
(* record.  (Anomalies of the same second may start in any order.)         *)
THEOREM StartedInOrder ==
    ASSUME OneProducer
    PROVE  Spec /\ []ListSuffices => FifoOrder
<1>1. Init => Claims
  BY InitClaims
<1>2. Init => Covered /\ NothingLeft
  BY DEF Init, Covered, NothingLeft, NoPlan
<1>3. Init => InOrder
  <2> SUFFICES ASSUME Init PROVE Undisturbed /\ Ranks
    BY DEF InOrder
  <2>1. Undisturbed
    BY DEF Init, Undisturbed, IdleWorker
  <2>2. \A k : ~ Lined(k)
    BY EmptySet DEF Init, Lined, Queued, Taken, Carried, IdleWorker, IdleCall
  <2>3. SeedsWait /\ NobodyWaitsAside
    BY <2>2, EmptyPlan DEF Init, SeedsWait, NobodyWaitsAside
  <2>4. ReadOrder /\ BacklogOrder /\ QueueOrder
    BY DEF Init, ReadOrder, BacklogOrder, QueueOrder, NoPlan
  <2>5. QED
    BY <2>1, <2>3, <2>4 DEF Ranks
<1>4. JInv /\ JInv' /\ Claims /\ [Next]_vars => Claims'
  BY ClaimsKept
<1>5. /\ JInv /\ Covered /\ [Next]_vars => Covered'
      /\ JInv /\ ListSuffices /\ NothingLeft /\ [Next]_vars => NothingLeft'
  BY CoveredKept, NothingLeftKept
<1>6. ASSUME JInv, NothingLeft, Claims, Covered, InOrder, [Next]_vars PROVE InOrder'
  <2> SUFFICES ASSUME faults' = 0 PROVE (Undisturbed /\ Ranks)'
    BY DEF InOrder
  <2>1. ~ Raises /\ Undisturbed /\ Ranks
    BY <1>6, NothingRaised DEF JInv, InOrder
  <2>2. QED
    BY <1>6, <2>1, UndisturbedKept, RanksKept
<1>7. ASSUME JInv, Claims, InOrder, [Next]_vars, NEW k \in Keys,
             faults = 0, worker.pc # "taken", worker'.pc = "taken", worker'.item = Fresh(k),
             NEW l \in Keys, receivedAt[l] < receivedAt[k]
      PROVE  ~ Dismissable(inbox[l])
  <2>1. Take
    <3>1. CASE WorkerStep
      BY <1>7, <3>1, WorkerLeavesLine DEF InOrder
    <3>2. CASE ProcessingRaises
      BY <1>7, <3>2 DEF ProcessingRaises, Goto, JInv, IInv, TypeWork
    <3>3. CASE GiveBackRaises \/ Crash \/ Stop
      BY <1>7, <3>3 DEF GiveBackRaises, Drop, Crash, Stop, LoseMemory, IdleWorker
    <3>4. CASE UNCHANGED worker
      BY <1>7, <3>4
    <3>5. ASSUME NEW p \in Producers,
                 ProducerStep(p) \/ EnqueueRecordRaises(p) \/ \E m \in Keys : EnqueueCheck(p, m)
          PROVE  UNCHANGED worker
      BY <3>5 DEF ProducerStep, EnqueueCheck, EnqueueRecord, EnqueueClaim, EnqueuePut,
                  EnqueueRecordRaises
    <3>6. CASE BootStep
      BY <3>4, <3>6 DEF BootStep, BootReset, BootRead, BootScan, BootReserve, BootSeed,
                        StartPipeline, volatile
    <3>7. QED
      BY <1>7, <3>1, <3>2, <3>3, <3>4, <3>5, <3>6
         DEF Next, Environment, Dismiss, DeleteIncident, vars, volatile
  <2>2. queue \in Seq(Items) /\ queue # <<>> /\ Head(queue) = Fresh(k)
    BY <1>7, <2>1 DEF Take, JInv, IInv, TypeMemory
  <2>3. 1 \in DOMAIN queue /\ queue[1] = Fresh(k) /\ \A b \in DOMAIN queue : ~ (b < 1)
    BY <2>2
  <2>4. ~ Taken(l)
    BY <1>7 DEF Taken
  <2>5. QED
    BY <1>7, <2>3, <2>4 DEF InOrder, Ranks, QueueOrder, Before
<1>8. JInv /\ Claims /\ InOrder /\ [Next]_vars =>
        [\A k, l \in Keys :
           /\ faults = 0 /\ worker.pc # "taken" /\ worker'.pc = "taken" /\ worker'.item = Fresh(k)
           /\ receivedAt[l] < receivedAt[k]
           => ~ Dismissable(inbox[l])]_vars
  BY <1>7
<1>9. QED
  BY <1>1, <1>2, <1>3, <1>4, <1>5, <1>6, <1>8, JInductive, PTL DEF Spec, FifoOrder
=============================================================================
