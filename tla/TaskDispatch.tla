---------------------------- MODULE TaskDispatch ----------------------------
(***************************************************************************)
(* How a durable task reaches its specialist over XMPP and how its outcome *)
(* comes back: the coordinator and the Technical Lead on one side          *)
(* (runtime.py, technical_lead.py, investigation_results.py), the          *)
(* specialists and their peers on the other (specialist.py,                *)
(* collaboration.py).  All agents live in the backend process, so a crash  *)
(* ends them all; AgentTasks has that case.  Here messages are delayed,    *)
(* reordered between mailboxes, lost, or sent although the sender was told *)
(* that they were not; an acknowledgement may come after its timeout.      *)
(***************************************************************************)
EXTENDS Naturals, FiniteSets

CONSTANTS Tasks, Specialists,
          Owner,        \* [Tasks -> Specialists], assigned_to of a task
          MaxAttempts,  \* max_attempts of a task
          MaxFaults,    \* lost messages, failed sends and raised exceptions
          None

ASSUME OwnerAssumption  == Owner \in [Tasks -> Specialists]
ASSUME BoundsAssumption == MaxAttempts \in Nat \ {0} /\ MaxFaults \in Nat

Tries  == 1 .. MaxAttempts
Stages == {"poll", "ack", "agreed", "refused"}

(* None is no outcome of a task, and none of the records below.            *)
ASSUME NoneAssumption ==
    /\ None \notin {"result", "failure"}
    /\ None \notin [task : Tasks, at : Stages]
    /\ None \notin [task : Tasks, try : Tries, agreed : BOOLEAN]
    /\ None \notin [task : Tasks, try : Tries]

VARIABLES state, attempt,  \* the durable document of each task
          lead,            \* the work of the coordinator
          inbox,           \* _investigation_result_messages of the Technical Lead
          net,             \* messages on their way
          handling,        \* the request each specialist deliberates on
          inflight,        \* _react_tasks_inflight of the owners
          cache,           \* _completed_react_results of the owners
          helped,          \* _peer_help_by_incident of the owners
          job,             \* the behaviour started for each attempt
          serving,         \* the peer request each specialist investigates
          reach,           \* specialists that are connected and communicate
          skipped,         \* tasks whose start met a behaviour that had reported
          late,            \* tasks whose agreement came after its timeout or its failure
          faults
task  == <<state, attempt>>
agent == <<inflight, cache, helped, job>>
vars  == <<state, attempt, lead, inbox, net, handling, inflight, cache, helped, job,
           serving, reach, skipped, late, faults>>

Terminal == {"COMPLETED", "FAILED"}
Active   == {"run", "consult", "assess", "help", "report", "fail", "sent"}

(* A request has a correlation id of its own.  A task is sent once per     *)
(* attempt and asks for help once, so task and attempt identify it.        *)
Kinds    == {"request", "agree", "refuse", "result", "failure", "answer", "no answer"}
Messages == [kind : Kinds, task : Tasks, try : Tries]
            \cup [kind : {"help"}, task : Tasks, try : Tries, to : Specialists]
Msg(kind, t, a) == [kind |-> kind, task |-> t, try |-> a]

Init ==
    /\ state = [t \in Tasks |-> "ABSENT"] /\ attempt = [t \in Tasks |-> 0]
    /\ lead = None /\ inbox = [t \in Tasks |-> None] /\ net = {}
    /\ handling = [s \in Specialists |-> None] /\ inflight = {}
    /\ cache = [t \in Tasks |-> "none"] /\ helped = {}
    /\ job = [t \in Tasks |-> [a \in Tries |-> "none"]]
    /\ serving = [s \in Specialists |-> None] /\ reach = Specialists
    /\ skipped = {} /\ late = {} /\ faults = 0

Fault == faults < MaxFaults /\ faults' = faults + 1

Send(ms)      == net' = net \cup ms
Reached(s)    == reach' = reach \cup {s}     \* a message of s came, or s read one
Unreached(s)  == reach' = reach \ {s}

(* send_agent_message raises; what it could not confirm may have gone out. *)
SendRaises(ms) == Fault /\ \E out \in SUBSET ms : Send(out)

-----------------------------------------------------------------------------
(* The coordinator: one task at a time, but an exception releases it.      *)

At(t, stage)   == lead = [task |-> t, at |-> stage]
Turn(t, stage) == lead' = [task |-> t, at |-> stage]
Move(t, s)     == state' = [state EXCEPT ![t] = s]

Open(t) ==
    /\ lead = None /\ state[t] \notin Terminal
    /\ Turn(t, "poll")
    /\ Move(t, IF state[t] = "ABSENT" THEN "PENDING" ELSE state[t])
    /\ UNCHANGED <<attempt, inbox, net, handling, agent, serving, reach, skipped, late, faults>>

(* mark_execution_failed: retried while an attempt is left.                *)
FailAttempt(t) ==
    /\ Move(t, IF attempt[t] < MaxAttempts THEN "RETRYING" ELSE "FAILED")
    /\ Turn(t, "poll") /\ UNCHANGED attempt

(* mark_dispatched and the request, unless the specialist is unreachable.  *)
Dispatch(t) ==
    /\ At(t, "poll") /\ state[t] \in {"PENDING", "RETRYING"}
    /\ Move(t, "DISPATCHED") /\ attempt' = [attempt EXCEPT ![t] = @ + 1]
    /\ IF Owner[t] \in reach
       THEN Turn(t, "ack") /\ Send({Msg("request", t, attempt[t] + 1)})
       ELSE Turn(t, "refused") /\ UNCHANGED net
    /\ UNCHANGED <<inbox, handling, agent, serving, reach, skipped, late, faults>>

(* The answer is compared with the request; an invalid one also marks the  *)
(* specialist unreachable.                                                 *)
Answered(m) ==
    \/ /\ m.kind = "agree" /\ Turn(m.task, "agreed") /\ Reached(Owner[m.task])
       /\ UNCHANGED <<late, faults>>
    \/ /\ m.kind = "agree" /\ Turn(m.task, "refused") /\ Unreached(Owner[m.task])
       /\ Fault /\ UNCHANGED late
    \/ /\ m.kind = "refuse" /\ Turn(m.task, "refused") /\ UNCHANGED <<reach, faults>>
       /\ late' = IF Msg("agree", m.task, m.try) \in net THEN late \cup {m.task} ELSE late

(* AcknowledgementBehaviour: the future of the correlation id, if pending. *)
Acknowledge(m) ==
    /\ m \in net /\ m.kind \in {"agree", "refuse"} /\ net' = net \ {m}
    /\ \/ At(m.task, "ack") /\ m.try = attempt[m.task] /\ Answered(m)
       \/ /\ ~ (At(m.task, "ack") /\ m.try = attempt[m.task])
          /\ UNCHANGED <<lead, reach, late, faults>>
    /\ UNCHANGED <<task, inbox, handling, agent, serving, skipped>>

(* No answer in time, or the send of the request raised.                   *)
AckTimeout(t) ==
    /\ At(t, "ack") /\ Turn(t, "refused") /\ late' = late \cup {t}
    /\ UNCHANGED <<task, inbox, net, handling, agent, serving, reach, skipped, faults>>

MarkUndelivered(t) ==
    /\ At(t, "refused") /\ FailAttempt(t)
    /\ UNCHANGED <<inbox, net, handling, agent, serving, reach, skipped, late, faults>>

MarkRunning(t) ==
    /\ At(t, "agreed") /\ Move(t, "RUNNING") /\ Turn(t, "poll") /\ UNCHANGED attempt
    /\ UNCHANGED <<inbox, net, handling, agent, serving, reach, skipped, late, faults>>

(* DISPATCHED without RUNNING: what an exception left behind.              *)
MarkUncertain(t) ==
    /\ At(t, "poll") /\ state[t] = "DISPATCHED" /\ FailAttempt(t)
    /\ UNCHANGED <<inbox, net, handling, agent, serving, reach, skipped, late, faults>>

CollectResults(t) ==                   \* mutant: a failure is left in the inbox
    /\ At(t, "poll") /\ state[t] = "RUNNING" /\ inbox[t] = "result"
    /\ inbox' = [inbox EXCEPT ![t] = None]
    /\ \/ Move(t, "COMPLETED") /\ Turn(t, "poll") /\ UNCHANGED <<attempt, faults>>
       \/ FailAttempt(t) /\ Fault
    /\ UNCHANGED <<net, handling, agent, serving, reach, skipped, late>>

CollectAnything(t) ==                  \* mutant: whatever arrived completes the task
    /\ At(t, "poll") /\ state[t] = "RUNNING" /\ inbox[t] # None
    /\ inbox' = [inbox EXCEPT ![t] = None] /\ Turn(t, "poll")
    /\ Move(t, "RETRYING") /\ UNCHANGED <<attempt, faults>>
    /\ UNCHANGED <<net, handling, agent, serving, reach, skipped, late>>

Pop(t) == inbox[t] # None /\ inbox' = [inbox EXCEPT ![t] = None]

(* An outcome that does not validate counts as a failure.                  *)
Outcome(t) ==
    \/ inbox[t] = "result" /\ Move(t, "COMPLETED") /\ Turn(t, "poll")
       /\ UNCHANGED <<attempt, faults>>
    \/ inbox[t] = "result" /\ FailAttempt(t) /\ Fault
    \/ inbox[t] = "failure" /\ FailAttempt(t) /\ UNCHANGED faults

Collect(t) ==
    /\ At(t, "poll") /\ state[t] = "RUNNING" /\ Pop(t) /\ Outcome(t)
    /\ UNCHANGED <<net, handling, agent, serving, reach, skipped, late>>

(* The task is over, or an exception of MongoDB released the worker.       *)
Leave(t) ==
    /\ lead # None /\ lead.task = t /\ lead' = None
    /\ \/ state[t] \in Terminal /\ UNCHANGED faults
       \/ state[t] \notin Terminal /\ Fault
    /\ UNCHANGED <<task, inbox, net, handling, agent, serving, reach, skipped, late>>

-----------------------------------------------------------------------------
(* InvestigationResultInboxBehaviour: one slot per task, the last one      *)
(* received stays.                                                         *)
Receive(m) ==
    /\ m \in net /\ m.kind \in {"result", "failure"} /\ net' = net \ {m}
    /\ inbox' = [inbox EXCEPT ![m.task] = m.kind]
    /\ UNCHANGED <<task, lead, handling, agent, serving, reach, skipped, late, faults>>

-----------------------------------------------------------------------------
(* The specialist accepts tasks one after the other: InvestigationTask-    *)
(* Behaviour deliberates, agrees, and starts the investigation.            *)

Deliberate(m) ==
    LET s == Owner[m.task] IN
    /\ m \in net /\ m.kind = "request" /\ handling[s] = None
    /\ net' = net \ {m} /\ Reached(s)
    /\ handling' = [handling EXCEPT ![s] = [task |-> m.task, try |-> m.try, agreed |-> FALSE]]
    /\ UNCHANGED <<task, lead, inbox, agent, serving, skipped, late, faults>>

Agree(s) ==
    /\ handling[s] # None /\ ~ handling[s].agreed
    /\ handling' = [handling EXCEPT ![s].agreed = TRUE]
    /\ Send({Msg("agree", handling[s].task, handling[s].try)})
    /\ UNCHANGED <<task, lead, inbox, agent, serving, reach, skipped, late, faults>>

(* A deliberation or a send that raises is answered by a refusal, unless   *)
(* that send raises as well.                                               *)
Reject(s) ==
    /\ handling[s] # None /\ ~ handling[s].agreed
    /\ handling' = [handling EXCEPT ![s] = None]
    /\ SendRaises({Msg(kind, handling[s].task, handling[s].try) : kind \in {"agree", "refuse"}})
    /\ UNCHANGED <<task, lead, inbox, agent, serving, reach, skipped, late>>

StartAlways(s) ==                      \* mutant: no in-flight check
    LET t == handling[s].task IN
    /\ handling[s] # None /\ handling[s].agreed
    /\ handling' = [handling EXCEPT ![s] = None] /\ UNCHANGED skipped
    /\ inflight' = inflight \cup {t}
    /\ job' = [job EXCEPT ![t][handling[s].try] = IF cache[t] = "none" THEN "run" ELSE "consult"]
    /\ UNCHANGED <<task, lead, inbox, net, cache, helped, serving, reach, late, faults>>

StartAfresh(s) ==                      \* mutant: the completed result is not looked up
    LET t == handling[s].task IN
    /\ handling[s] # None /\ handling[s].agreed
    /\ handling' = [handling EXCEPT ![s] = None]
    /\ \/ t \in inflight /\ UNCHANGED <<inflight, job, skipped>>
       \/ /\ t \notin inflight /\ inflight' = inflight \cup {t} /\ UNCHANGED skipped
          /\ job' = [job EXCEPT ![t][handling[s].try] = "run"]
    /\ UNCHANGED <<task, lead, inbox, net, cache, helped, serving, reach, late, faults>>

(* start_react_investigation: nothing is started while the task is in      *)
(* flight; a completed result is reused.                                   *)
Start(s) ==
    LET t == handling[s].task IN
    /\ handling[s] # None /\ handling[s].agreed
    /\ handling' = [handling EXCEPT ![s] = None]
    /\ \/ /\ t \in inflight /\ UNCHANGED <<inflight, job>>
          /\ skipped' = IF \E a \in Tries : job[t][a] = "sent" THEN skipped \cup {t} ELSE skipped
       \/ /\ t \notin inflight /\ inflight' = inflight \cup {t} /\ UNCHANGED skipped
          /\ job' = [job EXCEPT ![t][handling[s].try] =
                        IF cache[t] = "none" THEN "run" ELSE "consult"]
    /\ UNCHANGED <<task, lead, inbox, net, cache, helped, serving, reach, late, faults>>

-----------------------------------------------------------------------------
(* InvestigationReActBehaviour, started for attempt a of t.                *)

Step(t, a, from, to) == job[t][a] = from /\ job' = [job EXCEPT ![t][a] = to]

(* The executor returns a result that asks for a peer (open) or not, or    *)
(* raises.                                                                 *)
Investigate(t, a) ==
    /\ \/ \E r \in {"open", "closed"} :
            Step(t, a, "run", "consult") /\ cache' = [cache EXCEPT ![t] = r]
       \/ Step(t, a, "run", "fail") /\ UNCHANGED cache
    /\ UNCHANGED <<task, lead, inbox, net, handling, inflight, helped, serving, reach, skipped,
                   late, faults>>

(* One consultation per incident, whatever becomes of it.                  *)
Consult(t, a) ==
    /\ \/ /\ cache[t] = "open" /\ t \notin helped
          /\ Step(t, a, "consult", "assess") /\ helped' = helped \cup {t}
       \/ /\ ~ (cache[t] = "open" /\ t \notin helped)
          /\ Step(t, a, "consult", "report") /\ UNCHANGED helped
    /\ UNCHANGED <<task, lead, inbox, net, handling, inflight, cache, serving, reach, skipped,
                   late, faults>>

Peers(t)         == Specialists \ {Owner[t]}
AskPeer(t, a, p) == Send({[kind |-> "help", task |-> t, try |-> a, to |-> p]})

(* The model names a peer domain, declines or fails.                       *)
Assess(t, a) ==
    /\ \/ \E p \in Peers(t) : Step(t, a, "assess", "help") /\ AskPeer(t, a, p)
       \/ Step(t, a, "assess", "report") /\ UNCHANGED net
    /\ UNCHANGED <<task, lead, inbox, handling, inflight, cache, helped, serving, reach, skipped,
                   late, faults>>

(* The answer is folded into the result, which then asks for no more help. *)
Fold(m) == cache' = [cache EXCEPT ![m.task] = IF m.kind = "answer" THEN "closed" ELSE @]

(* PeerHelpResponseBehaviour: the pending future, if it is still there.    *)
Helped(m) ==
    /\ m \in net /\ m.kind \in {"answer", "no answer"} /\ net' = net \ {m}
    /\ \/ Step(m.task, m.try, "help", "report") /\ Fold(m)
       \/ job[m.task][m.try] # "help" /\ UNCHANGED <<job, cache>>
    /\ UNCHANGED <<task, lead, inbox, handling, inflight, helped, serving, reach, skipped, late, faults>>

HelpTimeoutFails(t, a) ==              \* mutant: the timeout is not caught
    /\ Step(t, a, "help", "fail")
    /\ UNCHANGED <<task, lead, inbox, net, handling, inflight, cache, helped, serving, reach,
                   skipped, late, faults>>

HelpTimeout(t, a) ==
    /\ Step(t, a, "help", "report")
    /\ UNCHANGED <<task, lead, inbox, net, handling, inflight, cache, helped, serving, reach,
                   skipped, late, faults>>

Report(t, a) ==
    /\ \/ Step(t, a, "report", "sent") /\ Send({Msg("result", t, a)}) /\ UNCHANGED faults
       \/ Step(t, a, "report", "fail") /\ SendRaises({Msg("result", t, a)})
    /\ UNCHANGED <<task, lead, inbox, handling, inflight, cache, helped, serving, reach, skipped, late>>

(* The failure goes to the inbox and, having the correlation id of the     *)
(* request, to whoever still waits for the acknowledgement.                *)
ReportFailure(t, a) ==
    /\ Step(t, a, "fail", "sent")
    /\ LET ms == {Msg("failure", t, a), Msg("refuse", t, a)} IN
       (Send(ms) /\ UNCHANGED faults) \/ SendRaises(ms)
    /\ UNCHANGED <<task, lead, inbox, handling, inflight, cache, helped, serving, reach, skipped, late>>

KeepInFlight(t, a) ==                  \* mutant: not discarded after a failure
    /\ Step(t, a, "sent", "done")
    /\ inflight' = IF cache[t] = "none" THEN inflight ELSE inflight \ {t}
    /\ UNCHANGED <<task, lead, inbox, net, handling, cache, helped, serving, reach, skipped, late, faults>>

(* The finally block, after the last send has been joined.                 *)
End(t, a) ==
    /\ Step(t, a, "sent", "done") /\ inflight' = inflight \ {t}
    /\ UNCHANGED <<task, lead, inbox, net, handling, cache, helped, serving, reach, skipped, late, faults>>

-----------------------------------------------------------------------------
(* PeerHelpRequestBehaviour: a peer investigates one request at a time and *)
(* answers, also when it fails.                                            *)

Serve(m) ==
    /\ m \in net /\ m.kind = "help" /\ serving[m.to] = None
    /\ net' = net \ {m} /\ Reached(m.to)
    /\ serving' = [serving EXCEPT ![m.to] = [task |-> m.task, try |-> m.try]]
    /\ UNCHANGED <<task, lead, inbox, handling, agent, skipped, late, faults>>

Answer(p) ==
    /\ serving[p] # None /\ serving' = [serving EXCEPT ![p] = None]
    /\ \E kind \in {"answer", "no answer"} :
          Send({Msg(kind, serving[p].task, serving[p].try)})
    /\ UNCHANGED <<task, lead, inbox, handling, agent, reach, skipped, late, faults>>

-----------------------------------------------------------------------------
(* The network and the health probe of a specialist.                       *)

Lose(m) ==
    /\ m \in net /\ net' = net \ {m} /\ Fault
    /\ UNCHANGED <<task, lead, inbox, handling, agent, serving, reach, skipped, late>>

Probe(s) ==
    /\ \/ s \in reach /\ Unreached(s) /\ Fault
       \/ s \notin reach /\ Reached(s) /\ UNCHANGED faults
    /\ UNCHANGED <<task, lead, inbox, net, handling, agent, serving, skipped, late>>

-----------------------------------------------------------------------------
LeadStep == \E t \in Tasks :
    \/ Open(t) \/ Dispatch(t) \/ AckTimeout(t) \/ MarkUndelivered(t) \/ MarkRunning(t)
    \/ MarkUncertain(t) \/ Collect(t) \/ Leave(t)

Deliver(m) == Acknowledge(m) \/ Receive(m) \/ Deliberate(m) \/ Helped(m) \/ Serve(m)

JobStep(t, a) ==
    \/ Investigate(t, a) \/ Consult(t, a) \/ Assess(t, a) \/ HelpTimeout(t, a)
    \/ Report(t, a) \/ ReportFailure(t, a) \/ End(t, a)

Next ==
    \/ LeadStep
    \/ \E m \in net : Deliver(m) \/ Lose(m)
    \/ \E s \in Specialists : Agree(s) \/ Reject(s) \/ Start(s) \/ Answer(s) \/ Probe(s)
    \/ \E t \in Tasks, a \in Tries : JobStep(t, a)

Spec == Init /\ [][Next]_vars

(* Every coroutine that can run does, mailboxes are read, calls to the     *)
(* database end; a fault is never forced.  A model need not answer: neither*)
(* an investigation, whose selection has no timeout, nor the assessment of *)
(* the consultation, which may wait for a slot of the gate behind one, nor *)
(* the investigation of a peer ends by fairness.                           *)
Sound(A) == A /\ UNCHANGED faults
Thinking(t, a) == job[t][a] \in {"run", "assess"}

FairSpec ==
    /\ Spec /\ WF_vars(Sound(LeadStep))
    /\ \A s \in Specialists : WF_vars(Sound(Agree(s) \/ Start(s)))
    /\ \A t \in Tasks, a \in Tries : WF_vars(Sound(~ Thinking(t, a) /\ JobStep(t, a)))
    /\ \A m \in Messages : WF_vars(Sound(Deliver(m)))

-----------------------------------------------------------------------------
(* Properties.                                                             *)

TypeOK ==
    /\ state \in [Tasks -> {"ABSENT", "PENDING", "RETRYING", "DISPATCHED", "RUNNING"}
                           \cup Terminal]
    /\ attempt \in [Tasks -> 0 .. MaxAttempts]
    /\ lead \in [task : Tasks, at : Stages] \cup {None}
    /\ inbox \in [Tasks -> {None, "result", "failure"}] /\ net \in SUBSET Messages
    /\ handling \in [Specialists -> [task : Tasks, try : Tries, agreed : BOOLEAN] \cup {None}]
    /\ inflight \in SUBSET Tasks /\ cache \in [Tasks -> {"none", "open", "closed"}]
    /\ helped \in SUBSET Tasks
    /\ job \in [Tasks -> [Tries -> Active \cup {"none", "done"}]]
    /\ serving \in [Specialists -> [task : Tasks, try : Tries] \cup {None}]
    /\ reach \in SUBSET Specialists /\ skipped \in SUBSET Tasks
    /\ late \in SUBSET Tasks /\ faults \in 0 .. MaxFaults

(* However often a task is delivered again, its specialist never works on  *)
(* it twice at a time (start_react_investigation, specialist.py 616).      *)
NoDoubleInvestigation ==
    \A t \in Tasks : Cardinality({a \in Tries : job[t][a] \in Active}) <= 1

(* A task that was investigated is not investigated again, only reported.  *)
NoRework ==
    [][\A t \in Tasks, a \in Tries :
         cache[t] # "none" /\ job'[t][a] = "run" => job[t][a] = "run"]_vars

(* What may still bring a task its outcome.                                *)
Driven(t) ==
    \/ \E a \in Tries : job[t][a] \in Active \ {"sent"}
    \/ \E m \in net : m.kind \in {"result", "failure"} /\ m.task = t
    \/ inbox[t] # None
    \/ handling[Owner[t]] # None /\ handling[Owner[t]].task = t

(* The wait for an outcome has no timeout (react_coordinator.py 91), so a  *)
(* RUNNING task must have one on its way: with no message lost, something  *)
(* will answer, unless its start was skipped for a behaviour that had      *)
(* already reported an earlier failure.                                    *)
RunningIsDriven ==
    \A t \in Tasks : state[t] = "RUNNING" /\ faults = 0 /\ t \notin skipped => Driven(t)

(* Type correctness, and that a RUNNING task has its outcome on its way.    *)
OutcomesArrive == TypeOK /\ RunningIsDriven

(* Under the same conditions every task ends, whether or not the peer ever *)
(* answers, unless a model never answers the specialist itself.            *)
ModelHangs == \E t \in Tasks, a \in Tries : <>[]Thinking(t, a)
TasksEnd ==
    \/ ModelHangs
    \/ \A t \in Tasks : state[t] # "ABSENT"
                        ~> state[t] \in Terminal \/ faults > 0 \/ t \in skipped

(* The exchange of messages is a TaskLifecycle.                            *)
Lifecycle == INSTANCE TaskLifecycle
ImplementsLifecycle == Lifecycle!Spec

(* A task is not given up while its specialist holds a result: peers that  *)
(* fail, refuse or are late cost nothing (the handlers of specialist.py    *)
(* 579).  Giving up evidence takes an agreement that came too late, as a   *)
(* failure is not tied to its attempt (investigation_results.py 35), or a  *)
(* fault.                                                                  *)
EvidenceNotLost ==
    [][\A t \in Tasks : state[t] # "FAILED" /\ state'[t] = "FAILED" /\ faults' = 0 /\ t \notin late
                        => cache[t] = "none"]_vars
=============================================================================
