# Verification of AgenticProactiveMonitor

TLA+ models, TLC runs and TLAPS proofs for the backend of AgenticProactiveMonitor:
the process that turns OpenSearch anomaly results into incidents, has a team of
XMPP agents investigate them, and persists everything in MongoDB.  Paths below
are relative to `src/src/agentic_system/agentic_system/` unless they start with
`src/`.

- [The system](#the-system): the inventory
- [The models](#the-models): modules, state and actions against the code
- [The runs](#the-runs): what TLC checks, the bounds, the fairness
- [Divergences](#divergences-between-the-code-and-its-documents)
- [The proofs](#the-proofs)
- [What is not modelled](#what-is-not-modelled) and [the plan](#the-plan)

## The system

The backend is one Python process and one asyncio event loop: coroutines interleave
only at their awaits, and almost everything that matters awaits MongoDB, OpenSearch,
an XMPP answer or a model.  Durable state is three MongoDB collections
(`anomaly_inbox`, `incidents`, `agent_tasks`); everything else is lost when the process
ends.

| Part | State it keeps | Operations | Talks to |
|---|---|---|---|
| Watcher, `integrations/opensearch_*.py` | no cursor: a sliding window over the results and a page limit; last error | poll, map, enqueue | OpenSearch, the FIFO |
| Exclusive FIFO, `incidents/ingestion.py` | bounded queue, claimed keys, bounded memory of completed keys | `enqueue` (several callers), `run` (one consumer), stop | watcher and test injection call it; it calls the durable handler of `main.py` |
| Durable inbox, `integrations/anomaly_inbox.py` | one document per anomaly result: state, incident link | record, mark processing / completed / retryable, dismiss, link, release, three updates of all documents of an incident, recover_interrupted | the FIFO, the durable handler, the startup, the operator API |
| Startup and shutdown, `main.py`, `runtime.py` | phase of the process | reset the inbox, recover the tasks, list open incidents, scan waiting records, reserve, seed the queue, start; stop | all of them |
| Incident workflow and coordinator, `incidents/workflow.py`, `policies.py`, `coordinator.py`, `react_coordinator.py`, `evidence_coordinator.py` | `incidents` documents: status, primary investigator, task, diagnosis | open or correlate, take in charge, triage, create and dispatch the task, wait, collect, review, resolve, fall back | tasks, agents, MongoDB |
| Durable task state machine, `incidents/tasks.py`, `integrations/mongodb.py` 431-528 | `agent_tasks` documents: state, attempt, last_error | create, mark_dispatched, mark_running, mark_completed, mark_execution_failed, recover_incomplete_tasks | the coordinator, the completion hook, the startup |
| Test-support API, `api/test_support.py` | none of its own | inject an anomaly; complete an incident | FIFO, tasks, incidents |
| Agent runtime, `runtime.py`, `agents/base.py`, `agents/investigation_results.py` | agent inboxes, pending results | dispatch, acknowledge, collect a result, health probe | XMPP |
| Technical Lead, `agents/technical_lead.py` | serial control inbox, command under execution, results received | take in charge, triage, review, each submitted with a timeout; receive acknowledgements and results | coordinator, model |
| Specialists, `agents/specialist.py`, `collaboration.py`, `peer_help.py` | in-flight set, completed results, incidents that had their consultation | accept a task, investigate, ask a peer, serve a peer, report | Technical Lead, MCP server, model |
| Reasoning, `reasoning/` | one executor per agent with fields that all its investigations share; the inference gate of the backend | the ReAct loop, the finalizer with its context budget, the output contract, the merge with a peer's answer; an AgentSpeak cycle per decision | model, MCP server |
| MCP server, knowledge base, dashboard, monitored demo system, evaluation | upload jobs, the worker queue of the demo services | see `PROJECT.json` | |

### What makes each part correct, and what makes it hard

- **Tasks.**  Every method reads the document, decides, and asks for a compare-and-set
  filtered by the state it read.  Correct: never more than `max_attempts` dispatches,
  a terminal task stays as it is, nothing is in flight after a restart.  Hard: the
  completion hook runs between a read and a write of the coordinator, and the filter
  does not include the attempt.
- **Inbox and FIFO.**  Correct: an admitted anomaly is never lost, is worked on by one
  owner at a time, and ends COMPLETED only over a resolved incident.  Hard: `enqueue`
  checks the claim set, awaits twice, and claims only then; the operator dismisses
  records that stand in the queue; the memory of completed keys forgets; the update
  that gives a failed record back may itself fail.
- **Startup.**  Correct: every open record gets exactly one owner, in the old order.
  Hard: it must rebuild, from states and links of a process that died anywhere, what is
  fresh work, what is the recovery of an incident and what is finished, and it fills a
  bounded queue before its consumer exists.
- **Coordinator.**  Correct: one task per incident, a conclusion that agrees with the
  task, a status that only advances, the consumer released in the end.  Hard:
  `update_incident` reads, merges and replaces the whole document with an await in
  between, so it can write back what the hook has just changed; an exception at any await
  leaves incident and task in a combination that the retry and the restart have to
  understand.
- **Watcher.**  Correct: a result that the detector wrote reaches the inbox while it is
  in the search window.  Hard: there is no cursor and no retry but the next poll; recorded
  results keep filling the page; a delivery blocks while the FIFO is full.
- **Agents.**  Correct: a task is investigated by one behaviour at a time and only once,
  its outcome comes back, and a result that exists is not given up.  Hard: messages are
  late, lost or sent although the sender was told that they were not; an acknowledgement
  of an attempt that was given up arrives during the next; a failure is not tied to its
  attempt.
- **Control loop.**  Correct: a command is executed while somebody waits for it.  Hard: a
  review may last 364 seconds, its submitter waits 360, and the next incident has five
  seconds to be taken in charge.
- **Executor.**  Correct: an investigation executes what it asked for, concludes from
  what it observed, and ends.  Hard: the specialist's own task and the peer help it serves
  interleave at every await and share the snapshot, the active request and the anchor;
  one inference slot goes round through all rejections and failures.
- **Diagnosis.**  Correct: the prompt fits, three programs with their own contracts
  agree on what a diagnosis may claim, and the operator's guidance survives every rewrite.
  Hard: each program adjusts the claims in its own order, a merge combines two diagnoses
  field by field, and the report is written up to twice.

`PROJECT.json` lists these hazards one by one under "hazards", each at its line.

## The models

| Module | Models | Role |
|---|---|---|
| `TaskDocument` | a task document, the decision of each method, the compare-and-set | shared by the next two |
| `TaskLifecycle` | what a task promises: created once, dispatched at most `MaxAttempts` times, ends for good | abstract specification |
| `AgentTasks` | the task state machine with its callers | implements `TaskLifecycle` |
| `AgentTasksProofs` | | proofs |
| `AnomalyInbox` | each inbox update as a function on documents | used by the next one |
| `AnomalyIntake` | FIFO, durable handler, startup, operator, crash, stop | composes the inbox with everything that writes it |
| `AnomalyIntakeProofs` | | proofs |
| `IncidentLifecycle` | what the life of an incident amounts to for the intake | abstract specification |
| `IncidentWorkflow` | the coordinator over incidents and tasks, with the completion hook | implements `IncidentLifecycle`, uses `TaskDocument` |
| `IncidentWorkflowProofs` | | proofs |
| `TaskDispatch` | dispatch, acknowledgement, result and peer-help messages between the coordinator, a specialist and its peers | implements `TaskLifecycle` |
| `TaskDispatchProofs` | | proofs |
| `ControlLoop` | the Technical Lead's serial inbox against the timeouts of its submitters, in seconds | composes the submitter and the executor of commands |
| `ControlLoopProofs` | | proofs |
| `ReActExecutor` | the loop of one executor with concurrent investigations, and the inference gate | |
| `ReActExecutorProofs` | | proofs |
| `Diagnosis` | one diagnosis from the finalizer prompt to the incident document | composes finalizer, contract, peer, collector, review and persistence |
| `DiagnosisProofs` | | proofs |
| `AnomalyWatcher` | poll loop, search window and page limit | feeds `AnomalyIntake` |
| `AnomalyWatcherProofs` | | proofs |
| `MC*` | symmetry sets, functions for constants | instances for TLC |

A step of a model is what the code does between two awaits that matter.  Definitions
whose comment begins with "mutant:" are plausible mistakes; no specification uses them.
`PROJECT.json` substitutes one of them for a definition to show that a property
notices.  The map from definitions to source lines is in `PROJECT.json` too.

### AgentTasks

`tasks[t]` is the document of a task, `call[c]` what caller `c` has read and decided
and not yet written.  `MarkDispatched`, `MarkRunning`, `MarkCompleted` and
`MarkExecutionFailed` are the reading halves; `Commit` is the compare-and-set of
`transition_task`, `Raise` its failure.  The callers are the coordinator (one sequential
coroutine, free to call anything in any order) and any number of completion hooks, which
only complete.  `Crash` loses all calls; `ListInFlight`, `RecoverTask` and `StartServing`
are `recover_incomplete_tasks` at startup, whose one query lists at most `RecoverLimit`
tasks (500 in the code; `Page`).  Which ones a full page holds is left open: the query
takes the oldest `updated_at`, which the model does not have.  `DispatchWrite`, `FailureWrite` and the others
in `TaskDocument` compute the write from the document that was *read*; `Written` applies
it to the one that is *there*, because the counter is an `$inc`.

### AnomalyInbox and AnomalyIntake

`inbox[k]` has the state and the incident link of a record, `receivedAt[k]` its
`received_at`, `incidents` the status of each incident as the intake can tell them apart
(ACTIVE, REVIEW, DONE, and GONE for one that an operator deleted while the backend was
down).  `queue`, `owned` and `done` are the three structures of `AnomalyIntake`;
`producer[p]` is where an `enqueue` stands, with one action per stretch between awaits
(`EnqueueCheck`, `EnqueueRecord`, `EnqueueClaim`, `EnqueuePut` when the queue was full);
`worker` is the consumer inside the handler; `boot` and `plan` are the startup
(`BootReset`, `BootRead`, `BootScan`, `BootReserve`, `BootSeed`, `StartPipeline`).
`received_at` is a second (`utc_now` in `mongodb.py` cuts the rest off), so records that one
poll delivers usually tie, and the startup list is sorted by it alone: `WaitingRecords` is
the set of all lists that the query may return, ties in any order, cut off at `ListLimit`
(4096).  `Seconds` has as many values as there are records, since only the order matters.
Stamping and inserting are one step, and the clock is taken not to go back.
`RecoveryObservations` is the same for the unfinished incidents, of which a query returns at
most `IncidentLimit` (500) per status: any listing that leaves something out has at least so
many in all.  `plan.left` remembers what the list left out.  The branch that skips an
incident without a `detector_id` (`coordinator.py` 139) is never taken: an incident is
opened for an observation, and `anomaly_inbox.py` 42 refuses one without a detector.
`ProcessingRaises` is an exception at any await of an item, `GiveBack` and `GiveBackRaises`
are `_mark_retryable`; `Crash` and `Stop` end the process, the second giving the current
record back as the cancellation handler does.

The coordinator is abstract here: `OpenIncident`, `Correlate`, `InvestigationCompletes`,
`ReviewCompletes`, `InvestigationFails`.  `IncidentWorkflow!ImplementsLifecycle` is the
justification: every change that the detailed coordinator makes to an incident is one of
the moves ACTIVE, REVIEW, DONE that the intake assumes.  `Correlate` allows any active
incident, where the code takes the most recently updated one of the same detector inside
the correlation window: more behaviours, not fewer.  The refinement counts an incident
whose task is COMPLETED as REVIEW whatever its status.  AnomalyIntake treats every
REVIEW incident as one that the recovery leaves out, which is what the code means to do;
the one combination in which it does not is TRIAGED with a COMPLETED task
(`coordinator.py` 275 looks at the status of the incident alone).

### IncidentWorkflow

`incidents[i]` has the status, the detector, the investigator, the task link and what the
diagnosis rests on; `tasks[<<i, r>>]` is the task whose idempotency key is incident `i` and
investigator `r`, so that two tasks of one incident are representable; `worker` has a
program counter, the work item and the document *in memory*; `hook` is one request of the
completion endpoint.  An update of an incident is two steps everywhere: `BeginUpdate`
stores the document it has read and merged, `Replace` writes it.

| Actions | Code |
|---|---|
| `Take`, `Correlate`, `OpenIncident`, `LinkAnomaly`, `Release` | `handle_anomaly` and its caller |
| `TakeInCharge`, `Triage`, `CreateTask`, `LinkTask`, `ResumeTask`, `ResumeNothing` | `_resume_incident`, dispatching on the document in memory |
| `MarkUncertain`, `MarkDispatched`, `DispatchAnswered`, `MarkUndelivered`, `MarkRunning`, `MarkUnderAnalysis`, `AdvanceNothing` | `_advance_investigation_task` |
| `LoopAdvance`, `CollectResult`, `MarkCompleted`, `MarkFailed`, `NoteFailure`, `LosesRace`, `PersistTaskFailure` | `wait_until_workflow_terminal` and the collection of a result |
| `PersistResult`, `PersistReview`, `ReviewFails`, `ReviewRecorded`, `PersistFallback` | the evidence-first persistence and the review |
| `WorkerRaises` | an exception at any await: it fails the item, or leads to the fallback inside the review's try block |
| `HookCheck`, `HookComplete`, `HookRead`, `HookReplace`, `HookEnds` | `POST /internal/v1/test/incidents/{id}/complete` |
| `Crash`, `Restart` | the process ends; startup recovery of tasks, incidents and records |

There is no action for a task that is COMPLETED while its incident is not resolved: the
wait loop has no branch for it and sleeps.  The run `workflow_evidence` rests on that
absence.  The FIFO is reduced to a set of items, because `AnomalyIntake` has its order.
An item whose processing failed is `parked`: it stays in the inbox until `OfferAgain` (the
watcher polls it again) or a restart.  `Restart` lists at most `RecoverLimit` tasks and
incidents and `ListLimit` records.

### TaskDispatch

`state` and `attempt` are the durable document, `lead` the step of the coordinator over one
task, `inbox` the Technical Lead's slot for the outcome of a task, `net` the messages on
their way.  Of a specialist there is `handling` (the request it deliberates on), `inflight`,
`cache` (completed results, open when they ask for a peer) and `helped`; `job[t][a]` is the
behaviour started for attempt `a`, `serving[p]` the help a peer gives.

| Actions | Code |
|---|---|
| `Open`, `Dispatch`, `AckTimeout`, `MarkUndelivered`, `MarkRunning`, `MarkUncertain`, `Collect`, `Leave` | the coordinator's delivery and collection, `runtime.py` dispatch and collector |
| `Acknowledge`, `Receive` | the two mailboxes of the Technical Lead |
| `Deliberate`, `Agree`, `Reject`, `Start` | `InvestigationTaskBehaviour`, `start_react_investigation` |
| `Investigate`, `Consult`, `Assess`, `Helped`, `HelpTimeout`, `Report`, `ReportFailure`, `End` | `InvestigationReActBehaviour` |
| `Serve`, `Answer` | `PeerHelpRequestBehaviour` |
| `Lose`, `Probe`, `SendRaises`, `Fault` | the network and the health probe |

All agents live in the backend process, so there is no crash of one of them: a crash ends
them all, which `AgentTasks` and `IncidentWorkflow` have.  Three facts of the code are part
of the model and named in its properties: `faults` (a lost message, a send or a store that
raised), `late` (an agreement that came after its timeout, or after the failure of the same
attempt) and `skipped` (a redelivered task met a behaviour that had sent its outcome but
not yet left the in-flight set).  What agents are available is abstracted to `reach`.

### ControlLoop

`stage` is where the coordinator's item stands, `sub` its submission with the seconds
left (first for the put, then for the answer), `queue` the control inbox, `work` the
command under execution with its cycle, its attempt and the seconds left.  `live` says
whether the submitter still waits: `GiveUp` cancels the future, the command stays.  `Tick`
is one second and only passes when nothing can run at once.  `Take`, `TakeInCharge`,
`TriageCommits`, `TriageFails`, `ReviewCommits`, `ReviewRejected`, `CycleFails` and
`NextCycle` are `ControlBehaviour` with the AgentSpeak actions it runs; a model may
answer at any second or not at all.

### ReActExecutor

`at`, `step`, `tries`, `asked`, `call`, `evidence`, `retained` and `result` are the locals
of `investigate()` of each investigation; `snapshot`, `activeRequest` and `activeAnchor`
are fields of the executor that all of them read and write; `line` is the inference gate,
an asyncio semaphore, as a queue whose first `Slots` members hold a slot.  Each action is
what a coroutine does from one answer to the next question: `Begin`, `Grounded`,
`Gather`, `TargetUnknown`, `FinishRefused`, `FinishAccepted`, `ReasonRejected` after the
reasoning model; `Select`, `SelectSaturated`, `SelectRejected` (tried again) and
`SelectRaises` (an exception outside the three classes the loop catches, such as a transport
error, ends the investigation at once) after the selection model;
`Observe` after a tool; `Finalize`, `FinalizeRejected` after the finalizer.  The trace sink
is synchronous, so that there is no await between the decision for a request and the
choice of its sole tool.  What a model answers is a nondeterministic choice among what
the validators let through; whether a rejected final output was rejected for what it
claims (`semantic`) is one too, as the finalizer may be injected.

### Diagnosis

`prompt` is the finalizer's request: context size, number of observations, attempt,
compaction level, whether it is the retry after an answer cut off, and its length.
`BudgetError`, `Compact`, `AnswerRejected`, `AnswerCutOff`, `AnswerAccepted` and `HardStop`
are the attempts of the finalizer; `Closed` is the output contract (`react_contracts.py`
and `_finalize`) in the order of the code; `NoConsultation`, `ConsultationEnds` and
`PeerAnswers` the consultation with its merge; `Collect` the check in `runtime.py`;
`ReviewAccepted`, `ReviewRejected`, `ReviewFails`, `PersistReview`, `RecordReview`,
`PersistFallback`, `RecordFallback` the review and the two documents it may write.  A cause
is one of: the label of an unconfirmed mechanism, one's own, the peer's, the review's; a
prompt is its length, taken on both sides of every limit.

### AnomalyWatcher

A result is known by its `age`; `recorded` are the results made durable, `page` the hits
of this poll still to deliver.  `IsPage` is the query: the oldest results of the window
that are not historical, recorded ones included, at most `Size`.  `Fetch`, `FetchFails`,
`Deliver`, `DeliveryFails`, `EndPoll` are a poll; `Stop` and `Start` a restart or a crash.
`Tick` may pass at any point, which is a slow server or a full FIFO.  `quiet` is a history
variable: the ticks since something last failed or blocked.

## The runs

| Run | Shows | Bounds |
|---|---|---|
| `agent_tasks` | attempts within the budget, terminal states, nothing in flight after restart, implements `TaskLifecycle` | 3 tasks, a recovery query of 2, 2 attempts, 2 hooks beside the coordinator, unlimited crashes (no counter is needed: the state space is finite) |
| `intake_safety` | `CompletedIsResolved`, `WorkIsExclusive`, `FinalRecordsStay`, `RestartSeedsEverything` | 2 records, 2 producers, queue of 2, memory of 1 completed key, a startup list of 1 record, 2 incidents per query, 3 incidents, 1 crash or stop, 2 exceptions |
| `intake_live` | `QueuedOnce`, `FifoOrder`, `AdmittedIsSettled`, `StartupCompletes` | 2 records, the watcher alone, queue of 2, a startup list of 2 records, 5 incidents, all of which a query may return, 2 crashes or stops, 1 exception |
| `workflow_safety` | `ConclusionMatchesTask`, `OneTaskPerIncident` | 2 incidents, 2 specialists, 2 attempts, 2 arrivals, 1 exception, 1 crash, 1 hook request; queries of 1 |
| `workflow_live` | `ImplementsLifecycle`, `EveryIncidentEnds`, `FifoAdvances` | 3 incidents, 2 attempts, 1 arrival, 1 exception, 1 crash, no hook; queries with room for all |
| `workflow_evidence` | a divergence, see below | 1 incident, 1 exception |
| `dispatch` | `OutcomesArrive`, `NoDoubleInvestigation`, `NoRework`, `EvidenceNotLost`, `TasksEnd`, implements `TaskLifecycle` | 1 task, its specialist and 1 peer, 2 attempts, 1 fault, any number of timeouts |
| `control` | `InboxSound`, `AssignIsServed`, `LeadGetsFree` | the configured seconds (5, 120, 360; 120 per action, 2 between cycles, 3 cycles, 3 answers), 2 faults, an inbox of 1 |
| `react` | `ExecutorSound`, `ToolFitsRequest`, `AloneIsComplete`, `EveryInvestigationEnds` | 2 investigations of different evidence families, each with one compatible tool of two, 3 steps, 2 answers per model call, 1 slot |
| `diagnosis` | `ContractsHold`, `PromptIsSound`, `SoloClaimIsSpecific`, `GuidanceReachesOperator`, `PeerNeverWeakens`, `DiagnosisEnds` | contexts of 4095, 4096 and 8192 tokens, 1, 5, 6 and 9 observations, confidences 20 and 90, the own and one other domain |
| `diagnosis_peer` | a divergence, see below | one context, one observation |
| `watcher` | `NothingSlipsBy` | 6 results, one malformed, one historical; window of 5 ticks, polled every 2, pages of 2; failures, stops and time without bound |

**Why the bounds are enough.**  The hazards are races of two actors over one or two
documents.  Two records and two producers let the same record be queued twice and two
records compete for one slot; a queue of two and a memory of one are reached and
overrun; two attempts are the least with a retry and an exhausted budget; two
specialists let a repeated triage choose differently; with one exception and one crash
every pair of them occurs in either order.  `MaxIncidents` in the live runs exceeds what
the arrivals and retries can open (an arrival and every failure of it may each open
one), so no incident is withheld by the bound.  Listings are cut off in the safety
runs; in the live runs they have room for everything, because a record that no restart
lists is promised nothing.  In `intake_live` two records with the recoveries of two incidents
overfill the queue of two, so that the startup that never ends (`main.py` 336) is within the
bounds, and so is a producer that waits for room.

In `dispatch` tasks share only the deliberation of their specialist and the serial
coordinator, so one task meets every race with its own earlier attempt, which is where
the hazards are; timeouts are not counted, hence an attempt can be overtaken with no
fault at all.  `control` needs no scaling: the times are the configured ones, because the
property is about their difference; `InboxMax` is 1 where the code has 64, and
`InboxSound` shows that without a fault one place is enough.  In `react` two
investigations are what the specialist's own task and one peer request of another domain make;
three steps allow a refused closure, a repetition and a last step.  In `diagnosis`, 4096
is the least legal context and 4095 the greatest illegal one; `Bodies` puts the length of
a prompt on both sides of each limit; the item limits of the compaction levels are 5 to
8, so that 1, 5, 6 and 9 observations are below, at, between and above them; `SchemaChars`
and `CompactChars` stand for the lengths of the two messages, of which only the order and
the room they take matter.  In `watcher` the four ordinary results can fill two pages.
The proofs remove the bounds for every safety property of `agent_tasks`, `workflow_safety`,
`dispatch`, `control`, `react`, `diagnosis`, `watcher` and the runs of the intake, and for the
refinements, under the assumptions that [the proofs](#the-proofs) name.

Deadlock checking is on for `agent_tasks` and `watcher`; the other models stop when their
counted arrivals, exceptions and crashes are used up or when their one task or diagnosis is
over, so it is off there.

**Fairness, and why.**
- `AnomalyIntake`, `IncidentWorkflow`: weak fairness of the worker, of the startup and of
  the rest of each enqueue call or of the hook: the event loop runs every coroutine that
  can run, and a process that is down is started again.  Two things have no fairness.
  An anomaly need not be offered a second time (`EnqueueCheck`, `OfferAgain`): the watcher
  does so only while the result is inside its lookback window, an injected one is offered
  once.  And the outcome of a RUNNING task need not come (`AwaitsOutcome`): the wait has no
  timeout (`react_coordinator.py` 91).  `TaskDispatch` shows under which conditions it comes
  (`OutcomesArrive`, `TasksEnd`).
- `TaskDispatch`: weak fairness of the coordinator, of each specialist and each behaviour,
  and of the delivery of each message, all restricted to steps without a fault: coroutines
  run, mailboxes are read, writes end or time out.  A model need not answer, neither the
  specialist (`Thinking`) nor its peer.
- `ControlLoop`: weak fairness of `Tick` and of what runs without a model: timers, puts,
  takes.  The model need not answer.
- `ReActExecutor`: weak fairness of each investigation except for the answer of its
  selection (`SelectionAnswer`).  Reasoning and finalizer requests have a timeout, tools run
  under `wait_for`, the semaphore is first come, first served; but the client of the tool
  selector is built without a timeout (`langchain_agent.py` 343) and is awaited while it holds
  its slot (`schema_validated_react.py` 350).
- `Diagnosis`: weak fairness of `Next`: a finalizer request that has its slot, a review and a
  write return or time out.  (What can hold the slot for ever is in `ReActExecutor`.)
- `AgentTasks` and `AnomalyWatcher` are checked for safety only.

Exceptions, crashes, losses, dismissals and injections have no fairness anywhere.

**Conditions in the properties.**  `NothingInFlightAfterRestart` is about a recovery that has
listed fewer tasks than its query may return, which is what `TaskRecoverySummary.scanned`
tells an operator.  `RestartSeedsEverything` is about the records that the list did not leave
out and, for incidents, about as many unfinished ones as a query returns.  `FifoOrder` orders
seconds: anomalies of one second may start in any order, after a restart also in another one
than they arrived in.  `AdmittedIsSettled` names the three ways in which the code lets a
record be held until the next restart: `HeldByReview` (the consumer waits on an incident
whose review was lost), `StartupHangs` (the startup has more to seed than the queue has room
for, and nobody takes anything out) and, only after an exception, `Stranded` (still
WAITING, PROCESSING or RECOVERY, and nobody in the process has it); and it excepts, for good
only, a consumer that waits for an outcome that never comes.  `StartupCompletes` is
about a startup whose seeds fit.  `EveryIncidentEnds` has four exceptions, each of which must
hold for good and not only in passing: the review of the incident was lost (its task is
COMPLETED and neither the worker nor the hook is on the way to conclude it: `ReviewLost`), the
consumer sleeps on an incident of which that is true, an exception left the incident to
nobody (`Abandoned`: its anomaly is parked), or the consumer waits for an outcome that never
comes.  The first three take a crash or an exception.  `FifoAdvances` has the
lost review and the missing outcome as its exceptions: the consumer is released after
exceptions too.  `EveryInvestigationEnds` excepts a selection that holds a slot for ever
(`SelectionHangs`), which stops all investigations; `TasksEnd` a model that never answers the
specialist, but not one that never answers its peer.
`OutcomesArrive` and `TasksEnd` exclude faults and `skipped`;
`EvidenceNotLost` excludes faults and `late`, since a failure names its task but not its
attempt (`investigation_results.py` 35) and may arrive while the next attempt runs.
`AloneIsComplete` speaks of investigations that never overlapped another one.
`AssignIsServed` and `InboxSound` exclude faults: an exception that releases the worker
while the Technical Lead reviews lets the next incident come too early.  `ControlLoop`
assumes `MarginAssumption`, that the longest review (364 seconds as configured) is shorter
than its submission and the next one together (365): one second more would break it.
For the proofs it also assumes that an assignment waits no longer than an action of the
model may take, and that no longer than a triage (5, 120 and 120 seconds).
`AnomalyWatcher` assumes that the detectors produce at most a page of results per poll
interval, and promises nothing for a result with trouble in its last one.

## Divergences between the code and its documents

Two are runs that TLC must find violated; the quotations and lines are in `PROJECT.json`.

1. `workflow_evidence`: an exception between the completion of the task and the review
   leaves an incident that nothing concludes, and the FIFO waits on it, where the
   requirements promise that completed evidence is not lost.
2. `diagnosis_peer`: the merge with a peer's answer keeps the label of an unconfirmed
   mechanism as the cause, so that a diagnosis is published as confirmed or probable with
   an unconfirmed cause, which policy and output contract call a contradiction that the
   runtime demotes.

Other facts met while modelling, which the models have as behaviours and the properties
name as conditions:

- The startup scan (`main.py` 327) re-admits an incident that only awaits its review, which
  `build_recovery_observations` had left out on purpose.
- A record can stay PROCESSING with no owner: nothing gives back the records of a failed
  recovery, nor a record whose give-back raised.
- Startup fills the bounded queue before the consumer exists; with a full list of waiting
  records and one recovery on top it never starts.
- A restart lists at most 500 in-flight tasks, 500 incidents of each status and 4096 waiting
  records; the rest stays as it is until another one.
- Anomalies received in the same second may be started in another order after a restart.
- A failed anomaly is WAITING and unclaimed, but nothing obliges anybody to offer it again
  before a restart.
- A tool selection that never returns keeps its slot of the inference gate, of which there is
  one by default.
- When the event of a review raises, the fallback replaces the operator steps that the review
  wrote by those the specialist recommended (`evidence_coordinator.py` 100).
- A failed item releases the FIFO while its investigation runs on at the specialist.
- A TRIAGED incident with a COMPLETED task is not recognised as awaiting its review.
- The completion hook's RESOLVED can be overwritten by an update merged before it.
- With two investigations in one executor, one that is cut short by a repeated call in the
  selection may be closed on the other one's snapshot (`specialist_react.py` 1033).

## The proofs

TLAPS proves, for every value of the constants:

| Theorem | States |
|---|---|
| `AgentTasksProofs!TypeCorrect`, `RetryBudget` | `TypeOK`; `AttemptWithinBudget`, `RetryIsAffordable` and `ErrorMatchesState` |
| `AgentTasksProofs!TerminalTasksAreFinal`, `RestartLeavesNothingInFlight` | the two action properties |
| `AgentTasksProofs!Refinement` | `AgentTasks` implements `TaskLifecycle` |
| `IncidentWorkflowProofs!TypeCorrect`, `OneTask`, `ConclusionsHold` | `TypeOK`, `OneTaskPerIncident`, `ConclusionMatchesTask` |
| `IncidentWorkflowProofs!Refinement`, `RefinementWithoutHook` | `IncidentWorkflow` implements `IncidentLifecycle` |
| `AnomalyIntakeProofs!TypeCorrect`, `CompletionIsEarned`, `WorkExcludes`, `FinalIsFinal` | `TypeOK`, `CompletedIsResolved`, `WorkIsExclusive`, `FinalRecordsStay` |
| `AnomalyIntakeProofs!NothingIsQueuedTwice`, `RestartForgetsNothing`, `StartedInOrder` | `QueuedOnce`, `RestartSeedsEverything`, `FifoOrder` |
| `AnomalyIntakeProofs!ListLeavesNothingOut` | a startup list with room for every waiting record leaves none out |
| `TaskDispatchProofs!NobodyWorksTwice`, `NothingIsAwaitedInVain` | `NoDoubleInvestigation`, `OutcomesArrive` |
| `TaskDispatchProofs!EvidenceIsKept`, `NothingIsRedone` | `EvidenceNotLost`, `NoRework` |
| `TaskDispatchProofs!Refinement` | `TaskDispatch` implements `TaskLifecycle` |
| `ReActExecutorProofs!ExecutorIsSound`, `ToolsFit`, `AloneCompletes` | `ExecutorSound`, `ToolFitsRequest`, `AloneIsComplete` |
| `AnomalyWatcherProofs!NothingSlips` | `NothingSlipsBy` |
| `ControlLoopProofs!AssignmentsAreServed`, `InboxIsSound` | `AssignIsServed`, `InboxSound` |
| `DiagnosisProofs!ContractsAlwaysHold`, `PromptsAreSound` | `ContractsHold`, `PromptIsSound` |
| `DiagnosisProofs!SoloClaims`, `GuidanceIsKept`, `PeersNeverWeaken` | `SoloClaimIsSpecific`, `GuidanceReachesOperator`, `PeerNeverWeakens` |

**AgentTasks.**  Assumed: `MaxAttempts` and `RecoverLimit` are positive natural numbers and the
coordinator is not a hook; the set of tasks may be any, infinite ones included.  `AttemptWithinBudget` is not inductive: the check is made on a stale read.
`IInv` adds `CallSound`: a decision to spend or to save an attempt still has an attempt
left *as long as the state is the one that was read*.  This holds because the only
concurrent writers complete tasks, and a completion ends the state; it is exactly
the argument that would fail with a second coordinator.  `ModeSound` relates the listing
of the startup to what is in flight: when it listed fewer tasks than the limit, every task
in flight is one that it has still to treat.

**IncidentWorkflow.**  Assumed: the bounds are natural numbers (they may be any, so
exceptions, crashes and requests are unlimited for practical purposes), `MaxAttempts` is
positive and `None` is no detector, role or incident.  The two properties speak about the
collections only, and no step of the code checks them; what makes them true is what the
worker and the hook carry over their awaits.  `IInv` says this:
`IncidentsSound` (a document knows the investigator of every task its incident has, and a
RESOLVED one is concluded as its task ended), `ReplaceSound` (so does the document on
its way to the collection, which keeps the task link), `ResumeSound` and
`LinkSound` (the copy in memory may be stale, but not about the investigator, and not
about being before or after triage), `HoldSound` (the task under delivery is DISPATCHED
and the one being collected RUNNING, or COMPLETED by the hook), `ConcludeSound` (the
steps of a conclusion run over a COMPLETED task) and `HookSound`.  `TaskStep`,
`ReplaceStep` and `QuietStep` say how each kind of write leaves the shared part sound,
and one lemma per action combines them.

The refinement of `IncidentLifecycle` supposes in addition that the completion hook is not
used (`HookUnused` throughout, or `MaxHookCalls = 0`, as in the run `workflow_live`).  With it
the refinement fails: an update the worker merged before the hook resolved the incident puts
the old status back, see [the divergences](#divergences-between-the-code-and-its-documents).
Without it the worker is the only writer, and `Solo` says what that gives: the copy in memory
is the document (`CopyCurrent`), an update on its way keeps the phase or closes the incident
(`UpdateForward`), and no task leaves PENDING that its incident does not name
(`TasksLinked`; thus linking a task cannot move the incident to its review).  `OneMoves`, that a
step moves at most one incident and `Onward`, is proved for every action.  Exceptions,
crashes and restarts are not restricted.

**AnomalyIntake.**  Assumed: the capacities are positive, the limits and bounds natural numbers, the keys a finite set, and
`NoItem` is no observation.  Nothing checks at run time that the incident a record is linked
to is the one the consumer waits for, nor that it exists: `IInv` adds `LinksKnown` (wherever an
incident is named, in a record, the queue or the plan of the startup, it is one that was
opened), `CallsSound` (an enqueue carries a fresh anomaly), `Asleep` (only a started process
has coroutines at work) and `WorkSound` (the consumer waits for the incident its record
is linked to).  With these `CompletedIsResolved` and `WorkIsExclusive` are
inductive, for any number of producers that enqueue the same record at the same time.
The operations of the inbox fall into three kinds: `Mild` ones neither link nor complete
(`MildOperations`, `MildInbox`), and `Link` and `Complete` have a lemma each.
`RecoveryRead` and `WaitingRead` say what all the lists that the startup may read have in common.

The other three properties need more of the queue.  `JInv` adds to `IInv` that a record that
was never made has no incident (`AbsentIsFree`) and that the plan of a startup has nothing
twice and nothing that is already seeded (`PlanSound`); it needs no assumption.  Then:

- `QueuedOnce` supposes `OneProducer`, one enqueue call at a time.  `Claims` says of a
  call that it does not hold the claim of its key before it waits for room, and holds it then.
  A restart puts observations in the queue without a check; that they differ is `PlanSound`.
- `RestartSeedsEverything` supposes nothing: what the limits leave out is named in the
  property itself.  `Covered` follows a record from the reset of the inbox over the list, or
  into `plan.left`, and over the backlog or the recovery of its incident into the queue.
  `ListLeavesNothingOut` says when `plan.left` is empty.
- `FifoOrder` supposes `OneProducer` and `ListSuffices`: whenever a process reads its backlog,
  no more records wait than the list has, so that `plan.left` is empty (`NothingLeft`).
  `InOrder`, claimed for `faults = 0`, says of the list, the backlog and the queue that
  ahead of an entry stand all anomalies of an earlier second that wait for themselves
  (`ReadOrder`, `BacklogOrder`, `QueueOrder`), and that in a started process such an anomaly is
  in the queue, held up before it or at its head (`NobodyWaitsAside`), which is why the
  end of the queue is the right place for a new one.

**TaskDispatch.**  Assumed: every task has an owner, `MaxAttempts` is positive, and `None`
is no message or record.  The invariant has two layers.  The first holds after any faults, for
each task alone: `LeadSound` (the task the coordinator delivers is DISPATCHED, a
retryable one has an attempt left), `TriesSound` (nothing anywhere knows of an attempt that was
not dispatched), `OnceSound` (a request is delivered once and starts at most one behaviour),
`FlightSound` (a task is in the in-flight set if and only if exactly one behaviour
works on it: this is `NoDoubleInvestigation`) and `RunSound`.  The second is claimed while
`faults = 0`: `PromiseSound` (what was agreed to is awaited, or was `skipped`), `AckSound` (an
agreement arrives before a refusal), `ReportSound` (each behaviour sends one report, a failure
only without a result) and, for a task that is not `late`, `TimelySound`: all earlier
attempts are closed, the inbox holds the outcome of the present one, and a failure
on its way means that there is no cached result.  `TimelySound` is why `EvidenceNotLost` excludes
`late`: a late agreement leaves two attempts open at once.

**ReActExecutor.**  Assumed: steps, answers and slots are positive numbers, there is a
tool, and `None` is no investigation.  `LineSound` says that the line of the gate has no
investigation twice and has exactly those that wait for a model, so that neither a rejected
answer nor a failure can lose a slot.  `JobSound` is about one investigation whatever the
others do to the shared fields: its evidence has one item per step already taken
(`StepsBehind`), no call is repeated (`CallsFresh`), and between the decision for a request and
its tool the request is its own (`Asked`).  `AloneSound` adds for an investigation that
never overlapped another that the snapshot is its own, which makes a conclusion
by saturation complete.

**AnomalyWatcher.**  Assumed: window, interval and page are positive and the interval is
shorter than the window, and results arrive at most a page per interval.  A result is lost by
leaving the window, and what keeps it from being fetched is a page full of older
ones; `RateKept` bounds how many of those there can be, from the rate of arrival, `PollSeen` and
`PageSeen` follow a result from the poll that must have seen it to its delivery, and
`PhaseSound` relates the phases of the loop to `quiet`, the ticks without trouble.

**ControlLoop.**  Assumed: all times are natural numbers, positive but for the pause, and
`MarginAssumption` holds; the cycles, the answers of a cycle, the places of the inbox and the
faults may be any number.  That no assignment times out says nothing about the review which
would make it time out, so `IInv` follows the review from its submission.  `Rest(w)` is what
the command under execution can still take: its own seconds and, by `Span`, those of the
cycles and pauses to come.  While a submitter waits, the state is one of three, under
`Timely`: `Putting` (it is still about to put, and nobody else's command is in the inbox),
`Waiting` (its command stands alone behind an abandoned one, which has cost and will cost
together less than an assignment waits) and `Served` (its command runs, and outlasts the
wait by less than that).  `DeadEndsSoon` carries the same bound over the end of the
submission, when the command goes on for nobody, up to the next investigation.
`LongestIsFirst` is where the margin enters: a review that has just begun may take
`Longest`.  `Timely` is claimed for `faults = 0` only: an exception or a restart can bring
the next assignment before an abandoned review is over.

**Diagnosis.**  Assumed: contexts and numbers of observations are natural numbers, the
compact schema message is not the longer one, confidences are percentages, and `None` is no
domain, prompt, diagnosis or report.  `PromptFits` is the part of `PromptIsSound` that
depends on the way a prompt came about, `EndsAreSent` holds for every prompt
(`SelectionKeepsEnds`).  The properties of a diagnosis are about its end;
`IInv` adds what holds in between: `ResultSound` (a cause is never missing, a claim has
links, a confirmed diagnosis asks no peer), which is all that the collector and the review
check, so that `StageSound` can exclude the stage "rejected" (`ContractsAgree`), and
`AssessmentGuides` (the guidance is in the assessment before it is published, since the
second write takes it from there).  `ClosedFacts` and `MergedFacts` say what the output
contract and the merge do to any diagnosis, whichever stage calls them.  Nothing like
`SoloClaimIsSpecific` is claimed after a merge; the second divergence shows why.

**Only model-checked.**  Liveness and everything that needs fairness or ENABLED
(`AdmittedIsSettled`, `StartupCompletes`, `EveryIncidentEnds`, `FifoAdvances`, `TasksEnd`,
`LeadGetsFree`, `EveryInvestigationEnds`, `DiagnosisEnds`): TLAPS has neither.

## What is not modelled

- The AgentSpeak interpreter, a library: its cycles are the steps of `ControlLoop` that
  commit, time out or repeat, and a deliberation in `TaskDispatch` that agrees or raises.
- The start of the agents and their communication probe, which end before the first
  anomaly is taken; later probes are `TaskDispatch!Probe`.
- `recover_incomplete_incidents` (called by tests only), the base wait loop and
  `mark_operator_action_required` (overridden by the coordinator in use), and the
  peer-collaboration branch of `_advance_investigation_task` (nothing writes the state it
  reads).
- What a model answers, the wording of prompts, the projection of observations and the
  extraction of anchors from texts: nothing the properties speak about branches on them.
- Diagnosis texts, events, timestamps and labels.
- The read-only API, the dashboard, the MCP server and the evaluation: they change no
  state of the backend.  The knowledge base's upload jobs and the worker queue of the
  monitored demo services have state of their own and are not modelled yet.

## The plan

Written, in this order: `TaskDocument`, `TaskLifecycle`, `AgentTasks` with its proofs,
`AnomalyInbox`, `AnomalyIntake`, `IncidentLifecycle`, `IncidentWorkflow` with its proofs,
`ReActExecutor`, `TaskDispatch`, `ControlLoop`, `Diagnosis`, `AnomalyWatcher`, the proofs
about `ControlLoop`, `Diagnosis`, `AnomalyWatcher`, `ReActExecutor`, `AnomalyIntake` and
`TaskDispatch`.

To be written:

1. The upload jobs of the knowledge base, the worker queue of the demo services.
